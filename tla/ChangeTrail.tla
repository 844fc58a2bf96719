----------------------------- MODULE ChangeTrail -----------------------------
(***************************************************************************)
(* The change trail of a deployment (change_trail of                       *)
(* src-tauri/src/insights.rs): read from its replica sets, of which the    *)
(* deployment controller keeps one for each pod template it has run, with  *)
(* the number of the rollout that ran it last and the time it was first    *)
(* made.                                                                   *)
(***************************************************************************)
EXTENDS Integers, FiniteSets

CONSTANTS
    Templates, \* pod templates of the deployment
    Images,    \* Images[t]: container |-> [path, tail], the image it runs
    Day,       \* ticks of a day
    LastTick,  \* bound on the clock
    LastRevision, \* bound on the rollouts
    Unmade     \* a replica set that does not exist

ASSUME TrailAssumption ==
    /\ {Day, LastRevision} \subseteq Nat \ {0} /\ LastTick \in Nat
    /\ Unmade \notin [revision : Nat, created : Nat]

VARIABLES
    sets,   \* sets[t]: [revision, created], or Unmade
    clock,
    ran     \* history: [now, before, at], the templates and when it changed

trailVars == <<sets, clock, ran>>

TrailInit ==
    \E t \in Templates :
      /\ sets = [u \in Templates |->
                    IF u = t THEN [revision |-> 1, created |-> 0] ELSE Unmade]
      /\ clock = 0
      /\ ran = [now |-> t, before |-> t, at |-> 0]

Made == {t \in Templates : sets[t] # Unmade}

(***************************************************************************)
(* The deployment controller.                                              *)
(***************************************************************************)
\* A new template makes a replica set; one that has run before takes the
\* replica set it left, and only the revision is new.
Rollout(t) ==
    /\ t # ran.now
    /\ sets[ran.now].revision < LastRevision
    /\ LET next == 1 + sets[ran.now].revision IN
          sets' = [sets EXCEPT ![t] =
                      [revision |-> next,
                       created |-> IF t \in Made THEN sets[t].created ELSE clock]]
    /\ ran' = [now |-> t, before |-> ran.now, at |-> clock]
    /\ UNCHANGED clock

\* revisionHistoryLimit: the oldest replica set that does not run goes.
CleanUp(t) ==
    /\ t \in Made \ {ran.now}
    /\ \A u \in Made : sets[t].revision <= sets[u].revision
    /\ sets' = [sets EXCEPT ![t] = Unmade]
    /\ UNCHANGED <<clock, ran>>

Tick ==
    /\ clock < LastTick
    /\ clock' = clock + 1
    /\ UNCHANGED <<sets, ran>>

TrailNext == Tick \/ \E t \in Templates : Rollout(t) \/ CleanUp(t)

TrailSpec == TrailInit /\ [][TrailNext]_trailVars

(***************************************************************************)
(* The report.                                                             *)
(***************************************************************************)
NewestOf_Faulty(s) == CHOOSE t \in s : \A u \in s : sets[u].created <= sets[t].created

\* owned.sort_by_key(Reverse(revision_of)): the first of what is left.
NewestOf(s) == CHOOSE t \in s : \A u \in s : sets[u].revision <= sets[t].revision

Current == NewestOf(Made)
HasPrevious == Made # {Current}
Previous == NewestOf(Made \ {Current})

Midnight == (clock \div Day) * Day
DaysAgo(n) == clock - n * Day

Windows == {"today", "yesterday", "7d", "30d"}

\* cutoff_for and ceiling_for, the latter without a bound but for yesterday.
InWindow(w, at) ==
    CASE w = "today" -> at >= Midnight
      [] w = "yesterday" -> at >= DaysAgo(1) /\ at < Midnight
      [] w = "7d" -> at >= DaysAgo(7)
      [] w = "30d" -> at >= DaysAgo(30)

\* There is a row if the current replica set was created in the window.
Shown(w) == InWindow(w, sets[Current].created)

\* describe_changes: what became of each container, by the tail of its image;
\* of a change that is none of an image, that.
DescribeChanges(before, after) ==
    LET both == DOMAIN before \cap DOMAIN after
        changes ==
            {<<c, before[c].tail, after[c].tail>> : c \in {d \in both : before[d] # after[d]}}
              \cup {<<c, "added">> : c \in DOMAIN after \ DOMAIN before}
              \cup {<<c, "removed">> : c \in DOMAIN before \ DOMAIN after}
    IN IF changes = {} THEN {<<"no image change">>} ELSE changes

\* Nothing to compare with: the first rollout.
Changed ==
    IF HasPrevious THEN DescribeChanges(Images[Previous], Images[Current]) ELSE {}

---------------------------------------------------------------------------
TrailTypeOK ==
    /\ sets \in [Templates -> {Unmade} \cup [revision : 1 .. LastRevision, created : 0 .. LastTick]]
    /\ clock \in 0 .. LastTick
    /\ ran \in [now : Templates, before : Templates, at : 0 .. LastTick]

\* "comparing the newest against the one before it says exactly which image
\* replaced which": through rollouts of templates that ran before, and the
\* removal of old replica sets, a row is about the template that runs, and it
\* names the tail a container has now, or that it went, exactly where that is
\* not as in the template that ran before.
TrailTrue ==
    (\E w \in Windows : Shown(w)) =>
      /\ Current = ran.now
      /\ HasPrevious =>
           LET old == Images[ran.before]
               new == Images[ran.now]
           IN  \A c \in DOMAIN old \cup DOMAIN new :
                 /\ <<c, "added">> \in Changed <=> c \notin DOMAIN old
                 /\ <<c, "removed">> \in Changed <=> c \notin DOMAIN new
                 /\ c \in DOMAIN old \cap DOMAIN new =>
                      (old[c] # new[c] <=> <<c, old[c].tail, new[c].tail>> \in Changed)

\* "Kubernetes records each rollout of a Deployment as a new ReplicaSet"
\* (insights.rs:949): a rollout within the window is in the report.
RolloutsTold ==
    \A w \in Windows : InWindow(w, ran.at) => Shown(w)

\* ""yesterday" means the day before today" (reports.rs:53).
YesterdayIsADay ==
    \A at \in 0 .. clock :
        at \div Day + 1 = clock \div Day => InWindow("yesterday", at)
=============================================================================
