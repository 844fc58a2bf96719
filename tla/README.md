# Verification of tmjLens

TLA+ models of tmjLens, a web console for one Kubernetes cluster: a Rust server
(`src/src-tauri/src`), a collector that runs on every node (the same binary), a React front end
(`src/src`) and a Helm chart. The models cover the parts of the server that keep state and share it
(the usage history, its delivery, the access gate, the editors of the cluster, the opening of the
database) and what the screens and reports conclude from lists of which some may be missing. TLC
checks them on small instances; TLAPS proves their safety, and that the usage history implements its
abstract specification, for every value of the constants.

Paths below are relative to the repository; `ingest.rs` stands for `src/src-tauri/src/ingest.rs` and
so on.

## The system

| Part | State | Operations | Interacts with |
|---|---|---|---|
| Usage history, `ingest.rs` | tables `rs_rollup_5m/1h/1d`, the purge schedule | apply a batch, retention purge, Admin purge | called by ingest under one lock; read by Rightsizing |
| Collector, `collector.rs` | the window in memory, the buffer directory | close a window, POST, buffer, flush | POSTs to the ingest handler |
| Ingest handler, `web.rs` | four slots | authenticate, admit, prepare, apply, answer | cluster API, the store |
| Access control, `auth.rs` | accounts, profiles, grants, audit log | login, grant, revoke, deactivate, audit | the request path |
| Request path, `web.rs` | pending logins, sessions | login, callback, logout, invoke | access control, every command |
| Resource editor, `resources.rs` | `resources_managed` | preview, apply, apply the recommendation, undo | API server by server-side apply |
| HPA manager, `hpa.rs` | `hpa_managed` | preview, apply, undo | API server |
| Cluster writes, `main.rs`, `argo.rs`, `configuration.rs`, `kyverno.rs`, `helm.rs`, `velero.rs` | none of their own | edit YAML, scale, restart, edit keys and schedules, set a policy's mode, delete, drain, finalize | API server, by resourceVersion |
| Usage arithmetic, `histogram.rs`, `cadvisor.rs`, `rightsizing.rs`, `pricing.rs` | none | merge, quantile, counter delta, recommend | collector, store, editor |
| Schema, `db.rs` | `schema_meta` | create, migrate | every table |
| Screens, `storage.rs`, `configuration.rs`, `network.rs`, `cluster.rs` | none | list, join, judge | API server |
| Reports, `insights.rs`, `reports.rs` | none | idle cost, readiness, posture, images, what was deployed, change trail | API server |
| Other reads, `workloads.rs`, `workload_list.rs`, `graph.rs`, `search.rs`, `metrics.rs`, `namespaces.rs` | none | list and join | API server |
| Front end, `src/src` | what is on screen | poll, follow, refresh | the request path |
| Helm chart | none | | fixes one web replica (`strategy: Recreate`) and an `emptyDir` for the buffer |
| tmjLite | the database file | statements | vendored engine |

What is hard, by part, and what makes the part correct:

- *Usage history.* Coarse rows are **rebuilt** from finer ones, and the finer ones are deleted by a
  purge of three separate commits. A batch may be hours late. Correct: no coarse row is ever rebuilt
  from an incomplete set, so a rebuilt row is what adding each batch once would give.
- *Delivery.* A POST that fails may have been committed. Both sides restart, the disk fills up, the
  buffer has a cap. Listing, writing or removing a file may fail, and most of these
  errors are passed over. Correct: no silent loss, a repetition only with a cause (an answer that was
  missing, a file that would not go), eviction from the old end, a bounded and a draining buffer.
- *Access.* A request reads rights in two statements and uses them later, while administrators and
  logins change them. Correct: one login per attempt, rights no staler than the request, a profile for
  every registered account, an audit row for every effect.
- *Resource editor.* It reads, patches and remembers in three steps with nothing held in between, and
  it owns fields through one field manager. Correct: undo restores what was there before the first
  edit, and an edit touches one container.
- *HPA manager.* It lists, reads, applies and remembers in four calls, without force, takes a list
  that failed for an empty one and a read that failed for "there is none", and undoes by a row it compares
  with nothing. Correct: a workload has one autoscaler of tmjLens at most, undo deletes only what tmjLens
  made, and undo works.
- *Cluster writes.* Check-then-act against an API server everybody writes to. Correct: an edit replaces
  what its author was shown and nothing else; a namespace is finalized only as it was read; a drain
  says what became of every pod; storage is deleted only if nothing used it when the request looked.
- *Schema.* Statement by statement, the version last, and the process may die at each. Correct: a
  process that serves has its whole schema, and an upgrade survives a crash.
- *Screens and reports.* Some of a dozen lists are refused, and the same question is answered by two
  pieces of code. Correct: nothing is accused on a list nobody read, two answers to one question agree,
  sums add up, the worst is never cut off.
- *Front end.* Polls, streams and refreshes that overtake one another. Listed as hazards only.

`PROJECT.json` lists every hazard at its line with the properties that cover it, or why none does.

## The modules

| Module | Models | Extended by |
|---|---|---|
| `Calendar` | windows, hours, days and the ranges compaction selects | `RollupStore`, `UsageHistory` |
| `RollupStore` | the store: `apply`, compaction, both purges, restarts | `RollupStoreProofs`, `RollupHistory` |
| `UsageHistory` | what the store promises its readers | `RollupHistory` (as an instance) |
| `RollupHistory` | the totals of the store's rows: the refinement mapping | `HistoryProofs`, `MCRollupStore` |
| `Delivery` | collector, buffer, POST, ingest handler | `DeliveryProofs`, `MCDelivery` |
| `Access` | login, sessions, rights, the command gate, audit | `AccessProofs`, `MCAccess` |
| `ResourceEditor` | apply, recommended apply, undo, server-side apply | `EditorProofs`, `MCResourceEditor` |
| `ClusterEdits` | edits of one object by several people | `Server` |
| `NamespaceRemoval` | `force_finalize_namespace` against controllers and operators | `Server` |
| `Removals` | drain and uncordon; deleting claims and volumes | `Server` |
| `HpaManager` | apply, remember and undo of a workload's autoscalers | `Server` |
| `SchemaBoot` | `ensure_schema`, interrupted anywhere | `Server` |
| `Server` | the five above, side by side | `ServerProofs`, `MCServer` |
| `Reads` | lists that answered and lists that did not | the six below |
| `StorageView`, `ConfigView`, `NetworkView`, `ClusterView` | the four screens: health of each row, findings, score | `Views` |
| `Reports` | five reports, beside the screens that answer the same | `Views` |
| `ChangeTrail` | the change trail against the deployment controller | `Views` |
| `Views` | the screens and reports over one cluster, and the trail | `ViewsProofs`, `MCViews` |
| `Sums` | facts about sums over finite sets, sums of parts, and folds | `HistoryProofs`, `ViewsProofs` |

Operators named `..._Faulty` are plausible defects of a definition that follows them. No
specification uses one; each documents a defect that a property rejects.

### RollupStore and UsageHistory

Time is counted in windows. A 5m row is how many samples were merged into it and the request current
at the last one; a 1h or 1d row is the map of 5m rows it was folded from, since the histograms, sums
and maxima of `compact_into` are functions of that map. Every table carries a *ledger* of what was
accepted, which the properties compare with. `work` is the view of the open transaction: `WriteRow` is
one round of the loop in `apply` (`upsert_5m` and `merge_up`), `Commit` installs it and makes the
decision of `purge_if_due`, `Rollback` discards it. A purge is three actions, since each DELETE commits
by itself, and any may fail. `Restart` may come anywhere and may bring another
`TMJLENS_RETENTION_RAW`; the purge schedule, a static, starts over. `APPLY_LOCK` is `pc # "idle"`.

`SteadySpec` is `Spec` without restarts that raise the raw retention.

`UsageHistory` has no 5m tier: a batch adds its samples to its hour and its day, the request is that of
the newest window, and only retention and an "all" purge remove rows. `RollupHistory` maps each row to
its totals; every step of the store is then such a step or a stutter.

### Delivery

A collector is a program counter, the directory as a sequence of files in order of name, and what is left of
the listing it is walking. It goes from `tick` to `post` and `posted`; an answer leads to `flush`, an error
of a fresh batch to `failed` and `cap`, which are `enforce_cap`, and then through the write to `flush`. In
`cap` it goes through the listing made at its entry, the oldest file first, one removal a step, as long as
the directory is over its cap (`Evict`); a removal that fails leaves its file and the walk goes on to the
next newer one (`EvictFails`); a listing that fails drops nothing (`ListFails`); the new file is added all
the same. In `flush` it sends the oldest file left (`reposted`) and breaks at the first error.

A call is a record at the server that goes from the door through a slot (`prepare`, `queued`) to an answer.
When the client has given up, the handler is dropped at a later time and a blocking task it started becomes
`detached`: it goes on to commit and answers nobody. `reachable` says whether anybody answers at the Service
address; a refused connection costs nothing but needs an outage.

Everything that can go wrong is an action of its own and spends one of `MaxFaults`: an outage (`Outage`), a
time-out, a failing prepare or statement, a batch too old, a file or a directory that cannot be read, written
or removed, a crash of either side. The history variables keep the causes apart: `doubts` counts the attempts
that ended without their answer (time-out, reset, crash), `leftovers` the answers 200 whose file could not be
removed, `stuck` the files `enforce_cap` could not remove, and `hitches` its errors since it last brought the
directory under the cap. The log line "dropping oldest ... This is a loss" is printed before the removal, and
also when the removal fails. The last window of a collector is followed by windows whose own batch is not
followed and whose flush is (`CloseLaterWindow`), as the loop goes on for ever.

### Access

Accounts with their activity and profiles, the maps of pending logins and sessions, and one task per
callback and per command. Each SQL statement is a step; `load_user` reads the account and its profiles in
two. Two kinds of command stand for all: administration, which runs in `shell_command` without an await,
and dispatched commands, which await the cluster and can be dropped there. `required_permission` is
modelled for `restart_workload` and `reveal_secret_key`, the two whose decision depends on the
environment, and the `admin_` commands. The identity provider is external: it answers with any user.

### ResourceEditor

Each container has a request and a limit (CPU and memory behave alike and independently), each with the
managers that own it. Server-side apply is external and modelled by its rule: forced fields change hands,
a field that its only owner no longer names is removed. An operation is a task that stops at every await:
`ReadStatus`, `ReadTarget`, `Patch`, then `FindRow` and `InsertRow` or `UpdateRow`; undo is `ReadRow`,
`Patch`, `DeleteRow`. Quantities are rounded up as `cpu_quantity` and `mem_quantity` do. `calm` is a
history variable: no two edits overlapped, none broke off after its patch, and nobody else wrote what
tmjLens had edited. The promises of undo are checked under it, and then without it.

### ClusterEdits

One object of a kind (a Deployment, a CronWorkflow, a ConfigMap or a Policy), its fields and its
resourceVersion, and one entry per editor: a screen that shows it, a body about to replace it, a policy
compared and about to be patched. `SaveYaml` is the YAML editor's replace with the version the document
carries or without one. `ReadFresh` and `Replace` are the edits of image, resources and schedule on the Argo
screen, which read again, compare what the author was shown of the part they change (`AsExpected`, in the
way of `argo.rs`) and replace with the fresh version. `ReadPolicy` and `PatchPolicy` are the mode of a
Kyverno policy, compared and then merge-patched without a version. `PatchField` stands for scale, restart,
suspend and the keys of config maps and secrets (`configuration.rs`), which are merge patches that carry no
condition. `Foreign` is anybody else. `last` remembers what the last write of tmjLens was asked for, what
its author had seen and what it replaced.

### NamespaceRemoval

The namespace with the types its `NamespaceContentRemaining` condition names, the objects inside (free or
held by a finalizer), the namespace controller and operators as external actions, and the request:
`BeginForce` reads the namespace once, `ListType`, `SkipType` and `ClearItem` walk the types one call at a
time, `EndTypes` decides whether there is anything to finalize, and `Finalize` is the PUT of the copy it
began with. The types that cannot be listed are skipped, as in the code. Operators take their own finalizers
off; in the model they never add one to an object that is there.

### Removals

`drain_node` cordons, lists, evicts one pod after another and answers, while the scheduler binds pods it
had chosen the node for, pods end by themselves and somebody uncordons. `delete_pvc` and `delete_pv`
look whether the storage is used (`LookAtUse`) and delete it (`DeleteStorage`), while users come and go;
`taken` remembers that one came after the look. A volume is "used" while it is bound.

### HpaManager

The autoscalers that target one workload, by name, each with a specification and who owns it; the rows
of `hpa_managed`; an entry per administrator. `BeginApply` is the list and `build`'s check, and a list that
fails counts as empty; `GetPrevious` is the read, and a read that fails counts as "there is none";
`ApplyHpa` is the server-side apply without force (external: it fails over a value another manager set
differently, and refuses a body with `managedFields`), `Remember` the row. Undo is `BeginUndo`,
`RemoveHpa` and `ForgetRow`. A request may break off after any of them, and others create, write and delete
autoscalers whenever they like. `blur` is a history variable: `"beside"` when an apply went on although
another autoscaler should have blocked it or another apply was about to create one, `"before"` when a read
was wrong or somebody wrote what tmjLens had read. `OneOfOurs` and `UndoRemovesOwn` are promised up to
these two. Specifications are opaque, so the bounds and guards of a form are taken as passed.

### SchemaBoot

The file as committed (which of the schema's objects, which version) and the process that opens it. The
objects stand in the order of `schema.sql`, the first is `schema_meta`, and `Born` says with which
version each came. `Create` is one statement, `SetVersion` the version's, `Die` comes anywhere. A fresh
file is created; an older one is migrated, where a statement that finds its object there is tolerated;
a newer one, or one with `schema_meta` and no version, is refused.

### Reads and the screens

`seen` is the answer of the cluster to the lists a screen asks for, each of them a set of records or
`Refused`; everything else is an operator on it: the health of a row, the findings with the objects they
name, the reports with what they call degraded. `Load` is one request. `Harm` (in `ClusterView`) is
another answer to one of the lists that answered, in which something broke: a pod crash-loops, a node is
not ready or cordoned, a deployment has a replica less. Quotas and autoscalers are modelled with their
arithmetic and quantities with their suffixes, because thresholds are what the health is about; requests
of pods with sidecars and init containers in their order. The names of findings are kept, their wording
is not.

`ChangeTrail` adds the deployment controller: `Rollout` to a template that ran before takes the replica
set it left, with a new revision and its old creation time, and `CleanUp` is `revisionHistoryLimit`.
The report is read from that.

## What the runs check

| Run | Distinct states | Result |
|---|---|---|
| `rollup_store` | 312 k | `TypeOK`, `RawTierComplete`, `HourlyHistory`, `DailyHistory`, `PurgedAsScheduled` hold, and the store refines the abstract history (`ImplementsUsageHistory`) |
| `delivery` | 3.9 M | `TypeOK`, `NoSilentLoss`, `RepeatedOnlyWithCause`, `OldestDroppedFirst`, `BufferBounded` hold |
| `delivery_drains` | 142 k | `BufferDrains` holds under fairness, with directories of two files |
| `access` | 1.76 M | `TypeOK`, `OneCallbackPerAttempt`, `RightsAreFresh`, `RegisteredHasProfile` hold |
| `resource_editor` | 0.94 M | `TypeOK`, `OriginalRemembered`, `UndoRestores` hold |
| `server` | 770 k | `ServerTypeOK`, `OthersKept`, `SeenReplaced` (edits), `FinalizedAsRead`, `HoldersNotOrphaned` (namespaces), `DrainAccounts`, `LostOnlyIfTakenLate` (removals), `OneOfOurs`, `UndoRemovesOwn` (HPA), `ServesComplete`, `UpgradeSurvivesCrash` (schema) hold |
| `views` | 32 k | `ViewsTypeOK`, `UnknownIsNotMissing`, `ReportsAgree`, `AllClearServes`, `RequestsCoverPods`, `CapacityAddsUp`, `WorstNeverHidden`, `TrailTrue`, `HarmNeverHelps` hold |
| `rollup_retention_raised` | | `HourlyHistory` is violated when a restart raises the raw retention |
| `access_recorded` | | `ActionsRecorded` is violated when a client hangs up |
| `editor_containers` | | `OtherContainersUntouched` is violated by edits of two containers |
| `editor_race` | | `OriginalKept` is violated by two overlapping applies |
| `hpa_undo` | | `UndoWorks` is violated by an apply over an autoscaler that was there, and its undo |

The last five are disagreements between the code and what its comments or the README say; `PROJECT.json`
quotes the lines under `findings`.

**Statements with no run of their own.** The modules state more sentences of the repository that the
code does not keep; each, as an INVARIANT of the named run's configuration, is violated within a few steps.

| Definition | Run | What happens |
|---|---|---|
| `InFlightBounded` (`Delivery`) | `delivery` | a client that timed out leaves a detached blocking task, which `INGEST_SLOTS` does not count |
| `PolicyNotOverwritten` (`ClusterEdits`) | `server` | somebody changes the policy between the compare and the merge patch |
| `NothingOrphaned` (`NamespaceRemoval`) | `server` | objects without finalizers may still be inside at `/finalize` |
| `NoSecondHpa` (`HpaManager`) | `server` | "a second HPA will not be created" (`hpa.rs:128`): importing over an autoscaler of another name creates one beside it, and so do two applies that overlap |
| `BootIdempotent` (`SchemaBoot`) | `server` | a first start that dies after `schema_meta` leaves a file that is refused for good |
| `AllClearIsTrue` (`NetworkView`) | `views` | the all-clear speaks of slices and ingresses nobody could list |
| `IdleOnEvidence`, `AllRunningIsTrue` (`Reports`) | `views` | idle objects are named without the pods having been listed; "all running" is said over rows that do not run |
| `MountedOnEvidence` (`StorageView`) | `views` | a bound claim's row says "not mounted by any running pod" (`storage.rs:164`) without the pods having been listed; only the finding is taken back |
| `EveryPlaceWalked` (`Reports`) | `views` | "Walks every place a pod can name a ConfigMap or Secret" (`configuration.rs:269`), "Init and ephemeral containers reference them just as ordinary ones do" (`:304`): the walk chains the ordinary and the init containers (`:305-308`), so what only an ephemeral container names, or a volume hands to its storage driver, is called unreferenced |
| `FollowsKubernetes` (`ClusterView`) | `views` | "Effective pod requests follow the Kubernetes rule" (`cluster.rs:343`): with a sidecar before a large init container the code counts too little, with one after it too much |
| `NothingFailsIsTrue` (`ClusterView`) | `views` | "every signal is within its threshold" while a signal of the pods is not |
| `RolloutsTold`, `YesterdayIsADay` (`ChangeTrail`) | `views` | a rollback keeps the creation time of its replica set and drops out of the window; "yesterday" begins 24 hours ago instead of at its midnight |

**Bounds.** `rollup_store`: two windows an hour, two hours a day, two days, raw retention of nought or one
hour, rollup retention of two, one container, two requests, two batches of one row, one administrator's
purge, time up to the sixth window; `rollup_retention_raised` has a third batch. A batch can be late by more
than either retention, the rollup floor falls inside a day, and a purge can follow a purge that failed.
`delivery`: room for one file, four windows and four faults, one of which may be an outage in which any
number of POSTs is refused: enough to evict, to fail at an eviction and drop the next file instead, to
resend behind an eviction and to leave a truncated file between two good ones. Two calls at the server are
an abandoned one whose task still runs and the one that sends its batch again. `delivery_drains`: three
windows and three faults, so a directory holds two files, the flush breaks at the older one and has to come
back for the other. In both a collector may find no call record free only while handlers are on their way to
be dropped, which they are. `access`: two users, two attempts, two callbacks, two commands, time to let
attempts and sessions expire, in a staging install, where a developer may restart a workload and no secret
is revealed; `access_recorded` is a development install, where both commands reach the cluster.
`resource_editor`: four operations in a row, so an edit after an undo after an edit, and a foreign write
anywhere. `server`: two editors, two values and three versions of an object, so a write by each of two
others between a read and a write; two objects of two types and five versions of the namespace, so it can be
deleted, emptied, made again and deleted again while a request walks it; three pods, one of a DaemonSet, and
three arrivals; two administrators, two names and two specifications of autoscalers; six schema objects born
with versions 1, 1, 2, 3, 3 and 4, so that a version brings one or two. `views`: the lists are cut at two
where the code cuts at its limits, a day is two ticks, a deployment has three templates and four rollouts;
each screen has a set of answers of its own (`MCAnswers`), in which the lists its conclusions lean on are
refused in some and empty in others, and objects are chosen about each threshold.

`MCServer` composes the parts of `Server`, which share no state: a behaviour follows one of them while the others rest, so
their states add up instead of multiplying. `MCViews` does the same with the two parts of `Views`.

**Deadlock.** TLC looks for it in the runs of `Delivery`, where the system must always be able to go on. In the
other models the bounds end every behaviour (time, operations, requests), so those runs do not look for it.

**Symmetry.** `rollup_store` permutes keys and requests, `access` attempts, callbacks and commands, `server`
values, editors and administrators. The properties and initial states treat them alike, and no module
chooses among them. No liveness run uses symmetry.

**Fairness.** `BufferDrains` assumes weak fairness of each collector's next step, of each handler's next
step, and of the end of an outage (`Recovers`): the web part is a Deployment, whose pod is made anew when it
ends. The collector is one `loop` on a tokio runtime with a ticker and a client time-out, and the server's
tasks are polled by the runtime; a blocking task waits for a `std::sync::Mutex` whose holders do no I/O
but the database's. No fault is ever forced or forbidden; they are finitely many by `MaxFaults`. So the
property says: however the faults fell, the buffer empties once they stop.

## What is proved

For every value of the constants that satisfies the assumptions below:

| Module | Theorem | Statement |
|---|---|---|
| `RollupStoreProofs` | `TypeCorrect` | `SteadySpec => []TypeOK` |
| | `RawTierIsComplete` | `SteadySpec => []RawTierComplete` |
| | `HourlyHistoryIsKept` | `SteadySpec => []HourlyHistory` |
| | `DailyHistoryIsKept` | `SteadySpec => []DailyHistory` |
| | `PurgeStaysCut` | `Spec => []PurgedAsScheduled` |
| `HistoryProofs` | `HistoryIsImplemented` | `SteadySpec => ImplementsUsageHistory` |
| `DeliveryProofs` | `TypeCorrect` | `Spec => []TypeOK` |
| | `Bounded` | `Spec => []BufferBounded` |
| | `OldestGoesFirst` | `Spec => []OldestDroppedFirst` |
| | `NothingLost` | `Spec => []NoSilentLoss` |
| | `AtMostOncePerCause` | `Spec => []RepeatedOnlyWithCause` |
| `AccessProofs` | `TypeCorrect` | `Spec => []TypeOK` |
| | `OneSignIn` | `Spec => []OneCallbackPerAttempt` |
| | `NoStaleRights` | `Spec => []RightsAreFresh` |
| | `NobodyWithoutProfile` | `Spec => []RegisteredHasProfile` |
| `EditorProofs` | `TypeCorrect` | `Spec => []TypeOK` |
| | `RemembersOriginal` | `Spec => []OriginalRemembered` |
| | `UndoPutsBack` | `Spec => UndoRestores` |
| `ServerProofs` | `ServerTypes` | `ServerSpec => []ServerTypeOK` |
| | `WorkOfOthersSurvives` | `EditSpec => []OthersKept` |
| | `OnlyWhatWasSeen` | `EditSpec => []SeenReplaced` |
| | `OnlyWhatWasRead` | `NsSpec => []FinalizedAsRead` |
| | `NoHolderIsOrphaned` | `NsSpec => []HoldersNotOrphaned` |
| | `DrainsAccount` | `RemovalSpec => []DrainAccounts` |
| | `OnlyLateUsersLose` | `RemovalSpec => []LostOnlyIfTakenLate` |
| | `OneAtMost` | `HpaSpec => []OneOfOurs` |
| | `UndoTakesOwn` | `HpaSpec => []UndoRemovesOwn` |
| | `SchemaIsComplete` | `BootSpec => []ServesComplete` |
| | `UpgradeIsResumed` | `BootSpec => []UpgradeSurvivesCrash` |
| `ViewsProofs` | `NeverAccusesBlindly` | `ReadsSpec => []UnknownIsNotMissing` |
| | `SayTheSame` | `ReadsSpec => []ReportsAgree` |
| | `AllClearMeansServing` | `ReadsSpec => []AllClearServes` |
| | `WorstIsShown` | `ClusterSpec => []WorstNeverHidden` |
| | `PodsAreCovered` | `ClusterSpec => []RequestsCoverPods` |
| | `CapacityIsExact` | `ClusterSpec => []CapacityAddsUp` |
| | `HarmLowersScore` | `ClusterSpec => HarmNeverHelps` |
| | `TrailIsTrue` | `TrailSpec => []TrailTrue` |
| | `ScreensAreTyped` | `ViewsSpec => []ViewsTypeOK` |
| `Sums` | `SumOfParts` | a sum over a finite set is the sum of the sums of disjoint parts that cover it |

Most of these properties are not inductive. Each rests on an inductive invariant of its module (`IInv`, or
one named for the part) and a lemma or a step for each action that can disturb it.

*The usage history.* The properties compare tables with floors computed from the present time: a row is
deleted by the floor of the moment a purge took, and a transaction was let in by the floor of the moment it
began. `IInv` therefore remembers in `gone5` and `gone1` below which hour retention has actually deleted,
and says: those never exceed today's floors; every table, the committed one and the one of the open
transaction, is complete at or above them; the window of an open transaction is above them (`InReach`), its
whole day included. The last is where `RetentionAssumption` is needed: the rollup retention exceeds the raw
retention by at least a day less an hour, so a window above the raw floor lies in a day none of whose hours
is cut. `MergedFaithful` then shows that rebuilding the hour and the day of such a window keeps the tables
complete. There is one lemma per action; `NextInv` puts them together.

*The purge's schedule* is proved under the full `Spec`, restarts that raise the retention included, by an
invariant of its own (`Scheduled`). What the last purge cut stays cut because a batch in the open
transaction is above the floor of its own `BEGIN`, which is later than that purge; a purge that failed says
nothing; and a restart forgets the schedule together with the retention it was made for.

*The refinement.* `HInv` adds to `IInv` what the open transaction has done so far: to a container nothing
(`Untouched`), or what merging one part of at most as many samples as rows were read does to its three rows
(`Touched`). `Commit` is then one `Land` of the abstract history: `Grown` is the part added to the 5m row,
and the rows rebuilt by `compact_into` total what `Added` gives, which is arithmetic on sums over the
windows of an hour and of a day, where a rebuilt day is a sum over disjoint hours. Both purges map to
`ForgetHours`, `ForgetDays` or to a stutter, the Admin purge to `Wipe`; one lemma per action of the store.

*Delivery.* Four layers, each inductive given those before it. A collector awaits only its own call, with
the batch in its hand, and nobody awaits a task that outlived its handler (`Typed`). Files are in order of
time, all older than the window in hand; while `enforce_cap` walks, every file behind the walk is one it
could not remove, and each of those is an error it has counted, so that at the end of the walk the directory
fits or exceeds the cap by no more than the errors, and whatever was evicted is older than every file but
those (`Directories`). A handler that answers 200 has committed the
batch or found it too old (`AnswersTrue`), so a file removed or a window let go of is accounted for
(`NoSilentLoss`). The last counts: commits of a batch, together with the calls that may still commit it,
exceed the causes for sending it again by at most one, and do not exceed them at all while the batch can be
sent again (`Counted`). Without the calls under way the count would not be inductive: a detached task
commits long after its client has resent.

*Access.* A request's rights are fresh because whatever it has loaded, and whatever it may still load, its
user was or had at some moment since it arrived (`AllFresh`, kept in the history variables `active` and
`granted`, to which every change of an account adds). A csrf token signs in once because an attempt that was
answered is not pending any more (`AttemptsOnce`). `AccountsThere` says that a login past its INSERT, and
every session, has an account, so `load_user` finds one. The bounds and the history variables need that
first: `Ranges`, `Histories` and `SignedIn` are inductive on top of it.

*Resource editor.* While nothing overlapped (`calm`) there is at most one task, on the one container that
was edited, and how far it is decides how `row`, `origin` and `live` stand to one another (`Underway`): a
row inserted is what the task saw before its own patch, a second apply finds the row and leaves what it
remembers, an undo patches with the row. That the patch of an undo also takes away the fields tmjLens had
added rests on `AddedIsOurs`: a field the container did not have has no owner but tmjLens.

*Cluster edits.* The resourceVersion vouches: while the version an editor carries is the current one, the
screen shows the object as it is, and a body about to replace it differs from it in its slot only
(`Current`). Every write of anybody raises the version, so a stale body is refused.

*Namespaces.* The same argument, one step further (`Unwritten`): as long as nobody wrote the namespace it is
Terminating, so nothing new is created in it, and what is held of the types walked so far is what the lists
found. The deletion of a namespace and its creation anew both write it.

*Removals.* From its list on, a drain has every pod that is there in one of its sets (`Accounted`): the
listed ones, and those the scheduler had chosen the node for before the cordon. Storage found free is in use
only if the use began later (`LateOnly`).

*HPA manager.* While every list was heeded, all requests between their list and their apply are about one
name, and it is that of tmjLens' autoscaler if there is one (`Alone`): an apply can then make no second one,
however it interleaves with undos and with what others create. While nothing was written behind a read, the
autoscalers whose row says "there was none before", and those a request believes there were none of, hold
values of tmjLens only (`OwnOnly`), so that an undo that deletes by the row alone deletes nothing else.

*Schema.* `Owed`: what the version promises is in the file, and what the process has not come to is all that
may be missing. `FirstIsOne` takes the least of a nonempty set of statements from the library's theorem on
well-founded relations.

`ServerTypes` puts the type invariants of these five together: each part keeps its types under its own
specification, and `ServerSpec` is their conjunction.

*Screens and reports.* Their properties are about any answer the constant `Answers` can give, not about the
answers TLC is given, so the proofs are about the operators: `NeverAccusesBlindly` follows a name from the
finding back to the list it was read from, `SayTheSame` shows for each pair of row and finding that two
definitions choose the same objects, and that the two walks over what pods name look at the same places
(`WalksAgree`). `AllClearMeansServing` and `CapacityIsExact` are about sums: a service
without a ready endpoint has a sum of noughts, the requests of the cluster are a sum over nodes of sums over
their pods, and a pod is on one listed node because no two nodes share a name (`PodsAssumption`).
`WorstIsShown` needs that `WorseThan` is a strict order, so that a pod has fewer pods ahead of it than any
pod it is ahead of, and one that is cut is ahead of none that is shown; its invariant `ClusterInv` also
covers the answers in which something broke (`Harm`). `PodsAreCovered` follows the fold over the init
containers one by one: what it holds is never less than the containers with the sidecars so far, nor than
any init container so far, and never more than one of these with the sidecars so far on top.

*The score.* It is a weighted average of up to seven signals, each a rounded percentage, each left out
when what it is drawn from is not there. `HarmLowersScore` compares it before and after something
breaks, in three steps. *Counts* (`CrashCounts`, `NodeCounts`, `LossCounts`): what is broken is one
object of its list for another, so nobody becomes ready, no more workloads are whole, what is requested
and what is schedulable stay as they are. The hard count is that of the critical pods among those shown:
the list of problems is cut at `PROBLEM_POD_LIMIT`, and a pod that crash-loops moves up in it and pushes
another off. `CriticalIsFirst` says that the critical pods shown are the first of all critical pods,
since critical comes before every other severity; `FirstSwapped` and `FirstAdded`, that the first of a
totally ordered list do not become fewer when one of its pods is replaced or one is added. *Signals*
(`OfNodesLower`, `OfPodsLower`, `OfWorkloadsLower`): lower counts out of the same number give signals
that are there under the same names with the same weights, none of them higher; this is where a signal
that dropped out would be noticed. *Sum* (`LowerScores`): with no two signals of one name, both scores
are sums over names, the weights add up to the same, and rounding is monotone.

`ScreensAreTyped` takes what it says of the score from the same signals (`ScoreTyped`). Warning events
(`EventsCounted`) are a sum of sums over reasons, an image is in the hygiene report because some
container runs it (`ImagesRun`), and the reasons that block an upgrade are no more than the rows that
give them (`BlockersCounted`).

*Change trail.* `Ordered`: the template that runs has the newest revision and the one before it the next, as
long as any other replica set is left; clean-up takes the oldest, a rollback takes a new revision.

*Sums.* The folds of the community modules go through a set in the order in which `CHOOSE` takes its
elements; all that the proofs need is that this order does not matter (`SumRemove`). The library's induction
theorems take an operator as a parameter, which the provers cannot instantiate, so `Induction` is stated for
a set `G` of subsets: if the empty set is in it, and a set is in it whenever one with an element less is, so
is every subset. It is proved by the least cardinality of a counterexample, from the library's
well-foundedness of the naturals. From it come sums of parts, of counts and of multiples, `FoldExists` and
the greatest of a set.

**Assumptions on the constants.** `CalendarAssumption` (positive calendar), `RetentionAssumption`
(above; the defaults, 48 hours and 90 days, satisfy it, the code does not enforce it),
`BoundsAssumption`, `DeliveryAssumption`, `EditorAssumption` (numbers are positive, bounds are
naturals), `RowAssumption`, `AbsenceAssumption`, `NilAssumption`, `UnusedAssumption` (no row is none of
the rows and totals; no value and no task, no account and no login is none of them), `AccessAssumption`
(the administrator named at install is a user), `EditsAssumption`, `NamespaceAssumption` (every object
has one type), `RemovalsAssumption`, `HpaAssumption`, `SchemaAssumption` (every object has a birth
version, the first is there from the start). For the screens: `AnswersAssumption` (an answer has
something for every list, lists are finite, a pod names things in the places a pod has),
`SlicesAssumption` (endpoints are counted in naturals), `PodsAssumption` (a pod, a node and a workload
have the fields the overview reads; requests, restarts and replicas are naturals, events are counted in
integers; each object has a name of its own in its list, and a workload is in one of the three lists of
workloads; the value for no reason is none of the reasons), `ContainersAssumption` (a pod lists finitely
many containers), `LimitAssumption` (the limits of lists are positive), `TrailAssumption`. TLC evaluates
every one of them in the runs. In the specifications themselves: time does not go back, statements are
atomic, a `COMMIT` succeeds, and the API server compares the resourceVersion of a replace.

**Only model-checked.** `BufferDrains`: liveness under fairness is beyond the prover. Every other
property of a passing run is stated by a theorem.

## What is not modelled

- Of the modelled parts: the kubelet scrape, owner resolution and heartbeats; the dev user, custom
  profiles and the listings of the Access screen; the dry run of the editor; log streams; the guards and
  bounds of an HPA form.
- Cluster writes that are one unconditional call: deleting a node, a pod or a workflow's run, stopping a
  workflow, starting one from a template, Velero and Helm.
- Of the screens: the top lists by restarts and by use, Endpoints and IngressClasses, Kyverno, Karpenter
  and EC2, the workload lists, the graph, search and metrics. They join lists and conclude nothing beyond
  what the modelled ones do. Wording (`errors.rs`) is left out everywhere.
- Usage arithmetic: histograms, counter deltas, recommendations and prices are sums over floating-point
  numbers, each in one function with unit tests of its own.
- The front end: `usePodWatch` and `LogViewer` are listed as a hazard; the rest renders what it is given.
- Settings are read and written whole; the chart and the vendored engine are taken as given.
- Clocks that step back, a `COMMIT` that fails, retentions less than a day apart, a batch the server
  refuses for ever. Each is listed as a hazard with the line it bites at.

## Plan

Done: the usage history with its refinement; delivery; access; the resource editor; cluster edits,
namespaces, removals, the HPA manager and the schema; the screens, the reports and the change trail; the
proofs of all of them.

Left, in this order:

1. `HistoryPipeline`: `Delivery` composed with `RollupStore`, a batch as an abstract sample count: what a
   collector closed is in the hourly history or named as lost.
2. `PodWatch` (`usePodWatch.ts`, `LogViewer.tsx`): overlapping polls, streams and refreshes.
3. `Histogram`, `CounterDelta`, `Recommendation` (`histogram.rs`, `cadvisor.rs`, `rightsizing.rs`): pure
   operators against reference definitions over bounded inputs.
