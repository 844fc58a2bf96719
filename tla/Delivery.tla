------------------------------ MODULE Delivery ------------------------------
(***************************************************************************)
(* How a batch gets from a collector (src-tauri/src/collector.rs: run,     *)
(* send_or_buffer, buffer_write, enforce_cap, flush_buffer) to the store   *)
(* (src-tauri/src/web.rs: ingest_rollups), over HTTP calls that time out,  *)
(* lose their connection or are answered late.                             *)
(*                                                                         *)
(* A collector is one sequential loop.  A call lives at the server apart   *)
(* from its client: when the client gives up, the server drops the handler *)
(* some time later, but a spawn_blocking task it has started runs on.      *)
(*                                                                         *)
(* What apply makes of a batch is RollupStore; here it commits the batch,  *)
(* drops it as too old, or fails and rolls back.                           *)
(***************************************************************************)
EXTENDS Naturals, SequencesExt

CONSTANTS
    Collectors,
    Slots,      \* permits of INGEST_SLOTS
    Cap,        \* files BUFFER_CAP_BYTES has room for
    MaxWindows, \* bound: windows of a collector that are followed
    MaxCalls,   \* bound: calls the server knows of at a time
    MaxFaults   \* bound: things that go wrong

ASSUME DeliveryAssumption ==
    /\ {Slots, MaxWindows, MaxCalls} \subseteq Nat \ {0}
    /\ {Cap, MaxFaults} \subseteq Nat

CallIds == 1 .. MaxCalls
NoCall  == [stage |-> "free"]
None    == 0

Windows == 1 .. MaxWindows
Batches == Collectors \X Windows

\* A file of the buffer: the window it holds, and whether it can be parsed.
Files == [window : Windows, torn : BOOLEAN]
File(w) == [window |-> w, torn |-> FALSE]

VARIABLES
    pc,     \* pc[c]: "tick", "post", "posted", "failed", "cap", "flush", "reposted"
    win,    \* win[c]: windows closed so far; the newest is the one in hand
    disk,   \* disk[c]: the files of the buffer directory, by name
    todo,   \* todo[c]: what is left of the listing being walked
    waits,  \* waits[c]: the call the collector awaits
    calls,  \* the server's handlers, and the blocking tasks that outlive them
    reachable, \* somebody answers at the Service address
    stored, \* stored[b]: how often b was committed
    old,    \* batches answered 200 and dropped as older than the raw floor
    lost,   \* history: batches lost in a way the code names or cannot help
    evicted,\* history: batches dropped by enforce_cap
    stuck,  \* history: batches enforce_cap failed to drop
    hitches,\* hitches[c]: errors of enforce_cap since it last did its work
    doubts, \* doubts[b]: attempts at b that ended without its answer
    leftovers, \* leftovers[b]: answers to b whose file could not be removed
    faults  \* counter behind MaxFaults

vars == <<pc, win, disk, todo, waits, calls, reachable, stored, old, lost,
          evicted, stuck, hitches, doubts, leftovers, faults>>
serverVars == <<calls, reachable, stored, old>>
capVars == <<evicted, stuck, hitches>>
causes == <<doubts, leftovers>>
histories == <<lost, capVars, causes>>

Init ==
    /\ pc = [c \in Collectors |-> "tick"]
    /\ win = [c \in Collectors |-> 0]
    /\ disk = [c \in Collectors |-> <<>>]
    /\ todo = [c \in Collectors |-> <<>>]
    /\ waits = [c \in Collectors |-> None]
    /\ calls = [i \in CallIds |-> NoCall]
    /\ reachable = TRUE
    /\ stored = [b \in Batches |-> 0]
    /\ old = {} /\ lost = {} /\ evicted = {} /\ stuck = {}
    /\ hitches = [c \in Collectors |-> 0]
    /\ doubts = [b \in Batches |-> 0]
    /\ leftovers = [b \in Batches |-> 0]
    /\ faults = 0

Fault == faults < MaxFaults /\ faults' = faults + 1

\* The window being POSTed: the one just closed, or the oldest file left.
Fresh(c) == pc[c] \in {"post", "posted", "failed", "cap"}
InHand(c) == IF Fresh(c) THEN win[c] ELSE Head(todo[c]).window

---------------------------------------------------------------------------
\* The buffer.

WindowsOf(files) == {files[i].window : i \in DOMAIN files}

Without_Faulty(files, f) == files

\* remove_file: a file listed is there, and no other has its name.
Without(files, f) == RemoveAt(files, CHOOSE i \in DOMAIN files : files[i] = f)

\* flush_buffer lists the directory as it now is.
StartFlush(c, files) ==
    /\ todo' = [todo EXCEPT ![c] = files]
    /\ pc' = [pc EXCEPT ![c] = "flush"]

\* flush_buffer breaks at the first error.
EndFlush(c) ==
    /\ todo' = [todo EXCEPT ![c] = <<>>]
    /\ pc' = [pc EXCEPT ![c] = "tick"]

\* post_batch returned Err: a fresh batch is to be buffered.
PostFailed(c) ==
    /\ waits' = [waits EXCEPT ![c] = None]
    /\ IF Fresh(c) THEN pc' = [pc EXCEPT ![c] = "failed"] /\ UNCHANGED todo
       ELSE EndFlush(c)

\* post_batch returned Ok.
PostSucceeded(c) ==
    /\ waits' = [waits EXCEPT ![c] = None]
    /\ IF Fresh(c)
         THEN StartFlush(c, disk[c]) /\ UNCHANGED disk
         ELSE /\ disk' = [disk EXCEPT ![c] = Without(@, Head(todo[c]))]
              /\ StartFlush(c, Tail(todo[c]))

\* The cap is never looked at.
EnforceCap_Faulty(c) ==
    /\ pc[c] = "failed"
    /\ pc' = [pc EXCEPT ![c] = "cap"]
    /\ UNCHANGED <<win, disk, todo, waits, serverVars, histories, faults>>

\* enforce_cap lists the directory before the new file is written.
EnforceCap(c) ==
    /\ pc[c] = "failed"
    /\ pc' = [pc EXCEPT ![c] = "cap"]
    /\ todo' = [todo EXCEPT ![c] = disk[c]]
    /\ UNCHANGED <<win, disk, waits, serverVars, histories, faults>>

Hitch(c) == hitches' = [hitches EXCEPT ![c] = @ + 1]

\* read_dir failed: Ok(()) all the same, and nothing is dropped.
ListFails(c) ==
    /\ pc[c] = "failed"
    /\ Fault
    /\ Hitch(c)
    /\ pc' = [pc EXCEPT ![c] = "cap"]
    /\ todo' = [todo EXCEPT ![c] = <<>>]
    /\ UNCHANGED <<win, disk, waits, serverVars, lost, evicted, stuck, causes>>

OverCap(c) == pc[c] = "cap" /\ todo[c] # <<>> /\ Len(disk[c]) > Cap
Oldest(c)  == <<c, Head(todo[c]).window>>

\* The newest file goes first.
Evict_Faulty(c) ==
    /\ OverCap(c)
    /\ disk' = [disk EXCEPT ![c] = Without(@, Last(todo[c]))]
    /\ todo' = [todo EXCEPT ![c] = Front(@)]
    /\ evicted' = evicted \cup {<<c, Last(todo[c]).window>>}
    /\ UNCHANGED <<pc, win, waits, serverVars, lost, stuck, hitches, causes, faults>>

\* The oldest file goes, and the next one, until the rest fits.
Evict(c) ==
    /\ OverCap(c)
    /\ disk' = [disk EXCEPT ![c] = Without(@, Head(todo[c]))]
    /\ todo' = [todo EXCEPT ![c] = Tail(@)]
    /\ evicted' = evicted \cup {Oldest(c)}
    /\ UNCHANGED <<pc, win, waits, serverVars, lost, stuck, hitches, causes, faults>>

\* remove_file failed: the file stays and the walk goes on to the next newer.
EvictFails(c) ==
    /\ OverCap(c)
    /\ Fault
    /\ Hitch(c)
    /\ todo' = [todo EXCEPT ![c] = Tail(@)]
    /\ stuck' = stuck \cup {Oldest(c)}
    /\ UNCHANGED <<pc, win, disk, waits, serverVars, lost, evicted, causes>>

\* enforce_cap is through, and files is what buffer_write leaves on disk.
Buffer(c, files) ==
    /\ pc[c] = "cap" /\ ~OverCap(c)
    /\ disk' = [disk EXCEPT ![c] = files]
    /\ StartFlush(c, files)
    /\ hitches' = [hitches EXCEPT ![c] = IF Len(disk[c]) <= Cap THEN 0 ELSE @]

WriteBuffer(c) ==
    /\ Buffer(c, Append(disk[c], File(win[c])))
    /\ UNCHANGED <<win, waits, serverVars, lost, evicted, stuck, causes, faults>>

\* The disk is full: a truncated file is left, or none; the loop logs the
\* error and goes on to flush.
WriteFails(c) ==
    /\ Fault
    /\ \/ Buffer(c, disk[c])
       \/ Buffer(c, Append(disk[c], [window |-> win[c], torn |-> TRUE]))
    /\ lost' = lost \cup {<<c, win[c]>>}
    /\ UNCHANGED <<win, waits, serverVars, evicted, stuck, causes>>

---------------------------------------------------------------------------
\* The collector's loop.

\* take_batch at the end of a window.
CloseWindow(c) ==
    /\ pc[c] = "tick" /\ win[c] < MaxWindows
    /\ win' = [win EXCEPT ![c] = @ + 1]
    /\ pc' = [pc EXCEPT ![c] = "post"]
    /\ UNCHANGED <<disk, todo, waits, serverVars, histories, faults>>

\* flush_buffer only behind a failed POST.
CloseLaterWindow_Faulty(c) ==
    /\ pc[c] = "tick" /\ win[c] = MaxWindows
    /\ pc' = [pc EXCEPT ![c] = "flush"]
    /\ UNCHANGED <<win, disk, todo, waits, serverVars, histories, faults>>

\* A window past the bound: its own batch is not followed, its flush is.
CloseLaterWindow(c) ==
    /\ pc[c] = "tick" /\ win[c] = MaxWindows
    /\ pc' = [pc EXCEPT ![c] = "flush"]
    /\ todo' = [todo EXCEPT ![c] = disk[c]]
    /\ UNCHANGED <<win, disk, waits, serverVars, histories, faults>>

ToSend(c) ==
    \/ pc[c] = "post"
    \/ pc[c] = "flush" /\ todo[c] # <<>> /\ ~Head(todo[c]).torn

\* The request reaches the server and waits at the door.
Send(c, i) ==
    /\ ToSend(c) /\ reachable
    /\ calls[i] = NoCall /\ \A j \in CallIds : j < i => calls[j] # NoCall
    /\ calls' = [calls EXCEPT ![i] =
                    [stage |-> "door", batch |-> <<c, InHand(c)>>, live |-> TRUE]]
    /\ waits' = [waits EXCEPT ![c] = i]
    /\ pc' = [pc EXCEPT ![c] = IF @ = "post" THEN "posted" ELSE "reposted"]
    /\ UNCHANGED <<win, disk, todo, reachable, stored, old, histories, faults>>

\* Nobody answers at the Service address.
Refused(c) ==
    /\ ToSend(c) /\ ~reachable
    /\ PostFailed(c)
    /\ UNCHANGED <<win, disk, serverVars, histories, faults>>

FlushDone(c) ==
    /\ pc[c] = "flush" /\ todo[c] = <<>>
    /\ pc' = [pc EXCEPT ![c] = "tick"]
    /\ UNCHANGED <<win, disk, todo, waits, serverVars, histories, faults>>

\* A file that does not parse is removed, and its window is gone.
DropUnreadable(c) ==
    /\ pc[c] = "flush" /\ todo[c] # <<>> /\ Head(todo[c]).torn
    /\ disk' = [disk EXCEPT ![c] = Without(@, Head(todo[c]))]
    /\ todo' = [todo EXCEPT ![c] = Tail(@)]
    /\ UNCHANGED <<pc, win, waits, serverVars, histories, faults>>

\* A file that cannot be read, or is truncated and cannot be removed, is left
\* for the next flush; a directory that cannot be listed reads as empty.
SkipUnread(c) ==
    /\ pc[c] = "flush" /\ todo[c] # <<>>
    /\ Fault
    /\ \E rest \in {Tail(todo[c]), <<>>} : todo' = [todo EXCEPT ![c] = rest]
    /\ UNCHANGED <<pc, win, disk, waits, serverVars, histories>>

Forget(i) == calls' = [calls EXCEPT ![i] = NoCall]

\* The answer arrives in time.
Answered(c) ==
    /\ waits[c] # None
    /\ \/ calls[waits[c]].stage = "ok" /\ PostSucceeded(c)
       \/ calls[waits[c]].stage = "err" /\ PostFailed(c) /\ UNCHANGED disk
    /\ Forget(waits[c])
    /\ UNCHANGED <<win, reachable, stored, old, histories, faults>>

Doubt(c) == doubts' = [doubts EXCEPT ![<<c, InHand(c)>>] = @ + 1]
HangUp(c) == calls' = [calls EXCEPT ![waits[c]].live = FALSE]

\* Whatever POST is under way is given up.
Abandon(c) ==
    /\ IF pc[c] \in {"posted", "reposted"} THEN Doubt(c) ELSE UNCHANGED doubts
    /\ IF waits[c] # None THEN HangUp(c) ELSE UNCHANGED calls
    /\ waits' = [waits EXCEPT ![c] = None]

\* The client's 20 s are over, or the connection broke, whatever the server
\* has made of the call.
TimedOut(c) ==
    /\ waits[c] # None
    /\ Fault
    /\ PostFailed(c)
    /\ Doubt(c)
    /\ HangUp(c)
    /\ UNCHANGED <<win, disk, reachable, stored, old, lost, capVars, leftovers>>

\* The server died under the call.
ConnectionReset(c) ==
    /\ pc[c] \in {"posted", "reposted"} /\ waits[c] = None
    /\ PostFailed(c)
    /\ Doubt(c)
    /\ UNCHANGED <<win, disk, serverVars, lost, capVars, leftovers, faults>>

\* The file was sent but cannot be removed: the next flush sends it again.
RemoveFails(c) ==
    /\ pc[c] = "reposted" /\ waits[c] # None
    /\ calls[waits[c]].stage = "ok"
    /\ Fault
    /\ leftovers' = [leftovers EXCEPT ![<<c, InHand(c)>>] = @ + 1]
    /\ waits' = [waits EXCEPT ![c] = None]
    /\ StartFlush(c, Tail(todo[c]))
    /\ Forget(waits[c])
    /\ UNCHANGED <<win, disk, reachable, stored, old, lost, capVars, doubts>>

\* The container restarts: what was in memory is gone, the directory is not.
CollectorCrash(c) ==
    /\ pc[c] # "tick"
    /\ Fault
    /\ lost' = IF Fresh(c) THEN lost \cup {<<c, win[c]>>} ELSE lost
    /\ Abandon(c)
    /\ EndFlush(c)
    /\ UNCHANGED <<win, disk, reachable, stored, old, capVars, leftovers>>

---------------------------------------------------------------------------
\* The server's handlers.

Holds(i) == calls[i].stage \in {"prepare", "queued"}
Permits  == {i \in CallIds : Holds(i)}

Stage(i, s) == calls' = [calls EXCEPT ![i].stage = s]

\* INGEST_SLOTS.acquire
Admit(i) ==
    /\ calls[i].stage = "door"
    /\ Cardinality(Permits) < Slots
    /\ Stage(i, "prepare")
    /\ UNCHANGED <<pc, win, disk, todo, waits, reachable, stored, old, histories, faults>>

\* Answered before anything is written.
EarlyAnswer_Faulty(i) ==
    /\ calls[i].stage = "prepare"
    /\ Stage(i, "ok")
    /\ UNCHANGED <<pc, win, disk, todo, waits, reachable, stored, old, histories, faults>>

\* prepare resolved the owners: spawn_blocking(apply).
Spawn(i) ==
    /\ calls[i].stage = "prepare"
    /\ Stage(i, "queued")
    /\ UNCHANGED <<pc, win, disk, todo, waits, reachable, stored, old, histories, faults>>

\* prepare answers 400: the cluster's API does not answer.
PrepareFails(i) ==
    /\ calls[i].stage = "prepare"
    /\ Fault
    /\ Stage(i, "err")
    /\ UNCHANGED <<pc, win, disk, todo, waits, reachable, stored, old, histories>>

\* Dropped though its client still waits.
DropHandler_Faulty(i) ==
    /\ calls[i] # NoCall /\ calls[i].stage # "detached"
    /\ IF calls[i].stage = "queued" THEN Stage(i, "detached") ELSE Forget(i)
    /\ UNCHANGED <<pc, win, disk, todo, waits, reachable, stored, old, histories, faults>>

\* The handler is dropped once the server sees the client gone; the task it
\* spawned stays, without the permit.
DropHandler(i) ==
    /\ calls[i] # NoCall /\ calls[i].stage # "detached" /\ ~calls[i].live
    /\ IF calls[i].stage = "queued" THEN Stage(i, "detached") ELSE Forget(i)
    /\ UNCHANGED <<pc, win, disk, todo, waits, reachable, stored, old, histories, faults>>

\* How a blocking task ends: its handler answers, or nobody is left to.
Reply(i, s) == IF calls[i].stage = "detached" THEN Forget(i) ELSE Stage(i, s)
Runs(i) == calls[i].stage \in {"queued", "detached"}

Apply(i) ==
    /\ Runs(i)
    /\ stored' = [stored EXCEPT ![calls[i].batch] = @ + 1]
    /\ Reply(i, "ok")
    /\ UNCHANGED <<pc, win, disk, todo, waits, reachable, old, histories, faults>>

\* Below the raw floor: dropped and answered 200.
ApplyDrops(i) ==
    /\ Runs(i)
    /\ Fault
    /\ old' = old \cup {calls[i].batch}
    /\ Reply(i, "ok")
    /\ UNCHANGED <<pc, win, disk, todo, waits, reachable, stored, histories>>

\* A statement failed: rolled back, answered 400.
ApplyFails(i) ==
    /\ Runs(i)
    /\ Fault
    /\ Reply(i, "err")
    /\ UNCHANGED <<pc, win, disk, todo, waits, reachable, stored, old, histories>>

\* The web pod restarts: no call survives, no client hears of it, and nobody
\* answers until it is back.
ServerCrash ==
    /\ \E i \in CallIds : calls[i] # NoCall
    /\ Fault
    /\ calls' = [i \in CallIds |-> NoCall]
    /\ waits' = [c \in Collectors |-> None]
    /\ reachable' = FALSE
    /\ UNCHANGED <<pc, win, disk, todo, stored, old, histories>>

\* No new connection is accepted; the calls under way go on.
Outage ==
    /\ reachable
    /\ Fault
    /\ reachable' = FALSE
    /\ UNCHANGED <<pc, win, disk, todo, waits, calls, stored, old, histories>>

Recovers ==
    /\ ~reachable
    /\ reachable' = TRUE
    /\ UNCHANGED <<pc, win, disk, todo, waits, calls, stored, old, histories, faults>>

---------------------------------------------------------------------------
CollectorStep(c) ==
    \/ CloseWindow(c)
    \/ CloseLaterWindow(c)
    \/ \E i \in CallIds : Send(c, i)
    \/ Refused(c)
    \/ EnforceCap(c)
    \/ Evict(c)
    \/ WriteBuffer(c)
    \/ FlushDone(c)
    \/ DropUnreadable(c)
    \/ Answered(c)
    \/ ConnectionReset(c)

CollectorFault(c) ==
    \/ ListFails(c)
    \/ EvictFails(c)
    \/ SkipUnread(c)
    \/ TimedOut(c)
    \/ RemoveFails(c)
    \/ WriteFails(c)
    \/ CollectorCrash(c)

HandlerStep(i) ==
    \/ Admit(i)
    \/ Spawn(i)
    \/ DropHandler(i)
    \/ Apply(i)

HandlerFault(i) ==
    \/ PrepareFails(i)
    \/ ApplyDrops(i)
    \/ ApplyFails(i)

Next ==
    \/ \E c \in Collectors : CollectorStep(c) \/ CollectorFault(c)
    \/ \E i \in CallIds : HandlerStep(i) \/ HandlerFault(i)
    \/ ServerCrash
    \/ Outage
    \/ Recovers

Spec == Init /\ [][Next]_vars

\* The loop of a collector and the server's tasks keep running, and the web
\* Deployment comes back; nothing that goes wrong has to.
Fairness ==
    /\ \A c \in Collectors : WF_vars(CollectorStep(c))
    /\ \A i \in CallIds : WF_vars(HandlerStep(i))
    /\ WF_vars(Recovers)

FairSpec == Spec /\ Fairness

---------------------------------------------------------------------------
Call == [stage : {"door", "prepare", "queued", "detached", "ok", "err"},
         batch : Batches, live : BOOLEAN]

TypeOK ==
    /\ pc \in [Collectors -> {"tick", "post", "posted", "failed", "cap", "flush",
                              "reposted"}]
    /\ win \in [Collectors -> 0 .. MaxWindows]
    /\ disk \in [Collectors -> Seq(Files)] /\ todo \in [Collectors -> Seq(Files)]
    /\ waits \in [Collectors -> CallIds \cup {None}]
    /\ calls \in [CallIds -> Call \cup {NoCall}]
    /\ {stored, doubts, leftovers} \subseteq [Batches -> Nat]
    /\ {old, lost, evicted, stuck} \subseteq SUBSET Batches
    /\ hitches \in [Collectors -> Nat] /\ reachable \in BOOLEAN
    /\ faults \in 0 .. MaxFaults
    /\ \A c \in Collectors : waits[c] # None =>
          /\ calls[waits[c]] # NoCall /\ calls[waits[c]].live
          /\ calls[waits[c]].batch = <<c, InHand(c)>>

\* "stored on disk and resent, without silent loss" (spec 5.2, Buffer
\* offline).  Through timeouts, resets, late answers and restarts, every
\* window closed is committed, answered as too old, on disk, or in the hands
\* of the loop -- unless the cap evicted it, its file could not be written, or
\* the collector died holding it.
Readable(c, w) == File(w) \in ToSet(disk[c])
NoSilentLoss ==
    \A c \in Collectors : \A w \in 1 .. win[c] :
        \/ stored[<<c, w>>] > 0
        \/ <<c, w>> \in old \cup lost \cup evicted
        \/ Readable(c, w)
        \/ Fresh(c) /\ w = win[c]

\* Delivery is at least once and apply merges, so a batch committed twice is
\* counted twice.  That happens only with a cause, and once at most for each:
\* an attempt that ended without its answer (TimedOut, ConnectionReset,
\* CollectorCrash), or a 200 received and the file it was about still there
\* because remove_file failed (RemoveFails; "let _" in flush_buffer).
RepeatedOnlyWithCause ==
    \A b \in Batches : stored[b] <= 1 + doubts[b] + leftovers[b]

\* "dropping oldest so newer rollups can be kept": the directory stays in
\* order of time, and a window is evicted while an older file stays behind
\* only if enforce_cap tried to remove that file and could not.
OldestDroppedFirst ==
    \A c \in Collectors :
        /\ \A i, j \in DOMAIN disk[c] :
              i < j => disk[c][i].window < disk[c][j].window
        /\ \A w \in Windows : <<c, w>> \in evicted =>
              \A v \in WindowsOf(disk[c]) : v > w \/ <<c, v>> \in stuck

\* BUFFER_CAP_BYTES is checked before a file is added, and an error of that
\* check does not keep the file from being added.  The directory exceeds the
\* cap by that one file and by one more at most for each error (of read_dir or
\* remove_file) since the check last did its work.
BufferBounded == \A c \in Collectors : Len(disk[c]) <= Cap + 1 + hitches[c]

\* "this bounds what waits for it" (the comment on INGEST_SLOTS): batches
\* prepared and not yet applied.
InFlightBounded ==
    Cardinality({i \in CallIds : Holds(i) \/ calls[i].stage = "detached"})
        <= Slots

\* Once nothing more goes wrong, a buffered window leaves the directory: the
\* flush behind each later window gets through to it, although it breaks at
\* the first error and begins at the oldest file.
BufferDrains ==
    \A c \in Collectors : \A w \in Windows :
        w \in WindowsOf(disk[c]) ~> w \notin WindowsOf(disk[c])
=============================================================================
