----------------------------- MODULE SchemaBoot -----------------------------
(***************************************************************************)
(* Opening the database (src-tauri/src/db.rs): ensure_schema creates the   *)
(* schema on a fresh file, statement by statement, with the version last;  *)
(* on an older file it runs the migrations and then sets the version.  The *)
(* process may die between any two statements and starts again.            *)
(***************************************************************************)
EXTENDS Naturals

CONSTANTS
    Objects, \* tables and indexes in the order of schema.sql; 1 is schema_meta
    Born     \* Born[o]: the schema version that brought o

Current == 4  \* SCHEMA_VERSION

ASSUME SchemaAssumption ==
    /\ Objects \in Nat \ {0}
    /\ Born \in [1 .. Objects -> 1 .. Current]
    /\ Born[1] = 1

NoVersion == 0  \* schema_meta without a row

VARIABLES
    file, \* [objects, version], as committed
    boot, \* [stage, todo]: the process that opens it
    fresh \* history: the file was empty when it was first opened

bootVars == <<file, boot, fresh>>

Off == [stage |-> "off"]
Of(v) == {o \in 1 .. Objects : Born[o] <= v}

BootInit ==
    /\ \E v \in 0 .. Current + 1 :
          /\ file = [objects |-> IF v = 0 THEN {} ELSE Of(v), version |-> v]
          /\ fresh = (v = 0)
    /\ boot = Off

Refuse(why) == boot' = [stage |-> "refused", why |-> why]

---------------------------------------------------------------------------
\* SELECT version FROM schema_meta: fails without the table, finds no version
\* without the row, a newer one, or one to start from.
OpenFile ==
    /\ boot = Off
    /\ \/ /\ 1 \notin file.objects
          /\ boot' = [stage |-> "creating", todo |-> 1 .. Objects]
       \/ /\ 1 \in file.objects /\ file.version = NoVersion
          /\ Refuse("unreadable")
       \/ /\ file.version > Current
          /\ Refuse("newer")
       \/ /\ file.version \in 1 .. Current
          /\ boot' = [stage |-> "migrating",
                      todo |-> {o \in 1 .. Objects : Born[o] > file.version}]
    /\ UNCHANGED <<file, fresh>>

First_Faulty(s) == 1 + CHOOSE o \in s : \A p \in s : o <= p

\* The statements run in the order of the schema.
First(s) == CHOOSE o \in s : \A p \in s : o <= p

Tolerated_Faulty(o) == FALSE

\* "already exists" is not a failure of a migration; in a creation it is.
Tolerated(o) == boot.stage = "migrating"

\* The next CREATE, committed by itself.
Create ==
    /\ boot.stage \in {"creating", "migrating"} /\ boot.todo # {}
    /\ LET o == First(boot.todo) IN
       IF o \in file.objects /\ ~Tolerated(o)
         THEN Refuse("exists") /\ UNCHANGED file
         ELSE /\ file' = [file EXCEPT !.objects = @ \cup {o}]
              /\ boot' = [boot EXCEPT !.todo = @ \ {o}]
    /\ UNCHANGED fresh

Ready_Faulty == boot.stage \in {"creating", "migrating"}

\* Every statement ran.
Ready == boot.stage \in {"creating", "migrating"} /\ boot.todo = {}

\* INSERT INTO schema_meta, or UPDATE of an older version; then it serves.
SetVersion ==
    /\ Ready
    /\ file' = [file EXCEPT !.version = Current]
    /\ boot' = [stage |-> "serving"]
    /\ UNCHANGED fresh

\* A statement fails for another reason: the process ends with the error.
StatementFails ==
    /\ boot.stage \in {"creating", "migrating"}
    /\ Refuse("failed")
    /\ UNCHANGED <<file, fresh>>

\* The process dies, or is started again after it refused.
Die ==
    /\ boot # Off
    /\ boot' = Off
    /\ UNCHANGED <<file, fresh>>

BootNext == OpenFile \/ Create \/ SetVersion \/ StatementFails \/ Die

BootSpec == BootInit /\ [][BootNext]_bootVars

---------------------------------------------------------------------------
BootTypeOK ==
    /\ file \in [objects : SUBSET (1 .. Objects), version : 0 .. Current + 1]
    /\ boot \in [stage : {"off", "serving"}]
          \cup [stage : {"creating", "migrating"}, todo : SUBSET (1 .. Objects)]
          \cup [stage : {"refused"}, why : {"unreadable", "newer", "exists", "failed"}]
    /\ fresh \in BOOLEAN

\* However often it died on the way, a process that serves has every table
\* and index of its version in the file.
ServesComplete == boot.stage = "serving" => file.objects = 1 .. Objects

\* "a crash between a migration and the version bump must not brick the file":
\* a file born at an older version is opened again after any number of
\* crashes; only a newer version and a statement that fails refuse it.
UpgradeSurvivesCrash ==
    boot.stage = "refused" /\ ~fresh => boot.why \in {"newer", "failed"}

\* "The server applies this on boot (idempotently)" (schema.sql:3): the same
\* of a file the server created itself.
BootIdempotent ==
    boot.stage = "refused" => boot.why \in {"newer", "failed"}
=============================================================================
