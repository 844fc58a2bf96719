--------------------------- MODULE DeliveryProofs ---------------------------
(***************************************************************************)
(* Safety of Delivery for any collectors, permits, buffer and number of    *)
(* calls, faults and restarts.                                             *)
(*                                                                         *)
(* The invariant has four layers, each inductive given those before it:    *)
(* what a collector awaits is its own (Typed); a directory is in order of  *)
(* time and ends before the window in hand (Directories); an answer "ok"   *)
(* is true (AnswersTrue), so that what a collector lets go of is kept      *)
(* (NoSilentLoss); and attempts still under way count like commits, so     *)
(* that a window which may be sent again has a cause to spare (Counted).   *)
(***************************************************************************)
EXTENDS Delivery, SequenceTheorems, FiniteSetTheorems, TLAPS

\* A directory in order of time.
Ordered(files) ==
    \A i, j \in 1 .. Len(files) : i < j => files[i].window < files[j].window

Posted(c) == pc[c] \in {"posted", "reposted"}

\* TypeOK without its last conjunct.
Types ==
    /\ pc \in [Collectors -> {"tick", "post", "posted", "failed", "cap", "flush",
                              "reposted"}]
    /\ win \in [Collectors -> 0 .. MaxWindows]
    /\ disk \in [Collectors -> Seq(Files)] /\ todo \in [Collectors -> Seq(Files)]
    /\ waits \in [Collectors -> CallIds \cup {None}]
    /\ calls \in [CallIds -> Call \cup {NoCall}]
    /\ stored \in [Batches -> Nat] /\ doubts \in [Batches -> Nat]
    /\ leftovers \in [Batches -> Nat]
    /\ old \subseteq Batches /\ lost \subseteq Batches /\ evicted \subseteq Batches
    /\ stuck \subseteq Batches /\ hitches \in [Collectors -> Nat]
    /\ reachable \in BOOLEAN /\ faults \in 0 .. MaxFaults

\* Where a collector stands fits what it holds and what it awaits.
Loop(c) ==
    /\ Fresh(c) => win[c] \in Windows
    /\ pc[c] = "reposted" => todo[c] # <<>> /\ ~Head(todo[c]).torn
    /\ waits[c] # None =>
          /\ Posted(c)
          /\ calls[waits[c]] # NoCall /\ calls[waits[c]].live
          /\ calls[waits[c]].batch = <<c, InHand(c)>>

\* Nobody awaits a task that outlived its handler.
Detached == \A i \in CallIds : calls[i].stage = "detached" => ~calls[i].live

Typed == Types /\ Detached /\ \A c \in Collectors : Loop(c)

\* The window in hand is newer than every file; what the cap dropped is older,
\* unless the cap could not drop it; and while enforce_cap walks, the files
\* behind it are those it could not drop, each an error it has counted.
Directory(c) ==
    /\ Ordered(disk[c]) /\ Ordered(todo[c])
    /\ ToSet(todo[c]) \subseteq ToSet(disk[c])
    /\ Len(disk[c]) <= Cap + 1 + hitches[c]
    /\ \A f \in ToSet(disk[c]) :
          f.window <= win[c] /\ (Fresh(c) => f.window < win[c])
    /\ \A w \in Windows : <<c, w>> \in evicted =>
          /\ w <= win[c] /\ (Fresh(c) => w < win[c])
          /\ \A f \in ToSet(disk[c]) : w < f.window \/ <<c, f.window>> \in stuck
    /\ pc[c] = "cap" =>
          /\ Len(disk[c]) <= Cap + hitches[c] \/ todo[c] = disk[c]
          /\ todo[c] # <<>> => \A f \in ToSet(disk[c]) :
                f \in ToSet(todo[c]) \/ <<c, f.window>> \in stuck

Directories == \A c \in Collectors : Directory(c)

Handled(b) == stored[b] > 0 \/ b \in old

\* A handler answers 200 for a batch it made something of.
AnswersTrue ==
    \A i \in CallIds : calls[i].stage = "ok" => Handled(calls[i].batch)

\* Calls that may still commit b.
Pending(b) ==
    {i \in CallIds : /\ calls[i] # NoCall /\ calls[i].batch = b
                     /\ calls[i].stage \in {"door", "prepare", "queued", "detached"}}
Attempts(b) == stored[b] + Cardinality(Pending(b))

Awaited(c, w) == Posted(c) /\ w = InHand(c)

\* c has yet to send w, or would send it again if it failed now.
Sendable(c, w) ==
    \/ w > win[c]
    \/ Readable(c, w) /\ ~Awaited(c, w)
    \/ pc[c] \in {"post", "failed", "cap"} /\ w = win[c]
    \/ Awaited(c, w) /\ waits[c] # None /\ calls[waits[c]].stage = "err"

Causes(b) == doubts[b] + leftovers[b]

\* Each attempt but one has its cause, and a window that can be sent again has
\* none under way or committed that has not.
Counted ==
    \A c \in Collectors, w \in Windows :
        /\ Attempts(<<c, w>>) <= Causes(<<c, w>>) + 1
        /\ Sendable(c, w) => Attempts(<<c, w>>) <= Causes(<<c, w>>)

\* The inductive invariant.
IInv == Typed /\ Directories /\ AnswersTrue /\ NoSilentLoss /\ Counted

LEMMA Bounds ==
    /\ Cap \in Nat /\ Slots \in Nat \ {0} /\ MaxFaults \in Nat
    /\ MaxWindows \in Nat \ {0} /\ MaxCalls \in Nat \ {0}
  BY DeliveryAssumption

USE Bounds

---------------------------------------------------------------------------
\* Sequences of files.

LEMMA MemberOf ==
    ASSUME NEW s \in Seq(Files)
    PROVE  /\ \A f : f \in ToSet(s) <=> \E i \in 1 .. Len(s) : f = s[i]
           /\ \A i \in 1 .. Len(s) : s[i] \in ToSet(s) /\ s[i] \in Files
           /\ ToSet(s) \subseteq Files
  BY DEF ToSet

LEMMA TailFiles ==
    ASSUME NEW s \in Seq(Files), s # <<>>, Ordered(s)
    PROVE  /\ Tail(s) \in Seq(Files) /\ Ordered(Tail(s))
           /\ Head(s) \in Files /\ Head(s) \in ToSet(s)
           /\ ToSet(Tail(s)) = ToSet(s) \ {Head(s)}
           /\ \A f \in ToSet(Tail(s)) : Head(s).window < f.window
  <1>1. /\ Tail(s) \in Seq(Files) /\ Len(Tail(s)) = Len(s) - 1
        /\ Head(s) \in Files /\ Head(s) = s[1] /\ Len(s) >= 1
        /\ \A i \in 1 .. Len(Tail(s)) : Tail(s)[i] = s[i + 1]
    OBVIOUS
  <1>2. Ordered(Tail(s))
    BY <1>1 DEF Ordered
  <1>3. ASSUME NEW f \in ToSet(Tail(s))
        PROVE  f \in ToSet(s) /\ f # Head(s) /\ Head(s).window < f.window
    <2>1. PICK i \in 1 .. Len(Tail(s)) : f = Tail(s)[i]
      BY <1>1, <1>3 DEF ToSet
    <2>2. f = s[i + 1] /\ i + 1 \in 1 .. Len(s) /\ 1 < i + 1 /\ 1 \in 1 .. Len(s)
      BY <1>1, <2>1
    <2>3. s[1].window < s[i + 1].window
      BY <2>2 DEF Ordered
    <2>4. s[1] \in Files
      BY <1>1
    <2> QED BY <1>1, <2>2, <2>3, <2>4 DEF ToSet, Files, Windows
  <1>4. Head(s) \in ToSet(s)
    BY <1>1 DEF ToSet
  <1>5. ASSUME NEW f \in ToSet(s), f # Head(s) PROVE f \in ToSet(Tail(s))
    <2>1. PICK j \in 1 .. Len(s) : f = s[j]
      BY <1>5 DEF ToSet
    <2>2. j # 1
      BY <1>1, <1>5, <2>1
    <2>3. j - 1 \in 1 .. Len(Tail(s)) /\ (j - 1) + 1 = j
      BY <1>1, <2>2
    <2>4. Tail(s)[j - 1] = f
      BY <1>1, <2>1, <2>3
    <2> QED BY <1>1, <2>3, <2>4, MemberOf
  <1> QED BY <1>1, <1>2, <1>3, <1>4, <1>5

LEMMA ConcatFiles ==
    ASSUME NEW a \in Seq(Files), NEW b \in Seq(Files)
    PROVE  /\ a \o b \in Seq(Files) /\ Len(a \o b) = Len(a) + Len(b)
           /\ \A i \in 1 .. Len(a) : (a \o b)[i] = a[i]
           /\ \A i \in 1 .. Len(b) : (a \o b)[Len(a) + i] = b[i]
  BY ConcatProperties

LEMMA PartOfFiles ==
    ASSUME NEW s \in Seq(Files), NEW d \in 0 .. Len(s), NEW e \in d .. Len(s)
    PROVE  \E r \in Seq(Files) : /\ r = SubSeq(s, d + 1, e) /\ Len(r) = e - d
                                 /\ \A i \in 1 .. e - d : r[i] = s[d + i]
  <1> DEFINE t == SubSeq(s, d + 1, e)
  <1>1. d + 1 \in Int /\ e \in Int /\ Len(s) \in Nat
    OBVIOUS
  <1>2. \A i \in (d + 1) .. e : s[i] \in Files
    <2> TAKE i \in (d + 1) .. e
    <2>1. i \in 1 .. Len(s)
      OBVIOUS
    <2> QED BY <2>1
  <1>3. t \in Seq(Files)
    BY <1>1, <1>2, SubSeqProperties
  <1>4. Len(t) = IF d + 1 <= e THEN e - (d + 1) + 1 ELSE 0
    BY <1>1, <1>2, SubSeqProperties
  <1>5. \A i \in 1 .. e - (d + 1) + 1 : t[i] = s[d + 1 + i - 1]
    BY <1>1, <1>2, SubSeqProperties
  <1> HIDE DEF t
  <1>6. Len(t) = e - d
    BY <1>4
  <1>7. \A i \in 1 .. e - d : t[i] = s[d + i]
    <2> TAKE i \in 1 .. e - d
    <2>1. i \in 1 .. e - (d + 1) + 1 /\ d + 1 + i - 1 = d + i
      BY <1>1
    <2> QED BY <1>5, <2>1
  <1> WITNESS t \in Seq(Files)
  <1> QED BY <1>6, <1>7 DEF t

LEMMA RemoveAtFiles ==
    ASSUME NEW s \in Seq(Files), NEW k \in 1 .. Len(s)
    PROVE  /\ RemoveAt(s, k) \in Seq(Files)
           /\ Len(RemoveAt(s, k)) = Len(s) - 1
           /\ \A i \in 1 .. Len(s) - 1 :
                 RemoveAt(s, k)[i] = IF i < k THEN s[i] ELSE s[i + 1]
  <1>1. PICK a \in Seq(Files) : /\ a = SubSeq(s, 1, k - 1) /\ Len(a) = k - 1
                                /\ \A i \in 1 .. k - 1 : a[i] = s[i]
    <2>1. 0 \in 0 .. Len(s) /\ k - 1 \in 0 .. Len(s) /\ 0 + 1 = 1 /\ k - 1 - 0 = k - 1
      OBVIOUS
    <2>2. PICK a \in Seq(Files) : /\ a = SubSeq(s, 0 + 1, k - 1) /\ Len(a) = k - 1 - 0
                                  /\ \A i \in 1 .. k - 1 - 0 : a[i] = s[0 + i]
      BY <2>1, PartOfFiles
    <2>3. \A i \in 1 .. k - 1 : a[i] = s[i]
      BY <2>2
    <2> WITNESS a \in Seq(Files)
    <2> QED BY <2>1, <2>2, <2>3
  <1>2. PICK b \in Seq(Files) : /\ b = SubSeq(s, k + 1, Len(s)) /\ Len(b) = Len(s) - k
                                /\ \A i \in 1 .. Len(s) - k : b[i] = s[k + i]
    <2>1. k \in 0 .. Len(s) /\ Len(s) \in k .. Len(s)
      OBVIOUS
    <2> QED BY <2>1, PartOfFiles
  <1>3. RemoveAt(s, k) = a \o b
    <2>1. RemoveAt(s, k) = SubSeq(s, 1, k - 1) \o SubSeq(s, k + 1, Len(s))
      BY DEF RemoveAt
    <2> QED BY <2>1, <1>1, <1>2, Zenon
  <1>4. a \o b \in Seq(Files) /\ Len(a \o b) = Len(s) - 1
    <2>1. a \o b \in Seq(Files) /\ Len(a \o b) = Len(a) + Len(b)
      BY ConcatFiles
    <2>2. Len(a) = k - 1
      BY <1>1
    <2>3. Len(b) = Len(s) - k
      BY <1>2
    <2> QED BY <2>1, <2>2, <2>3
  <1>5. ASSUME NEW i \in 1 .. Len(s) - 1
        PROVE  (a \o b)[i] = IF i < k THEN s[i] ELSE s[i + 1]
    <2>1. CASE i < k
      BY <2>1, <1>1, ConcatFiles
    <2>2. CASE i >= k
      <3>1. PICK m \in 1 .. Len(s) - k : i = Len(a) + m
        BY <2>2, <1>1
      <3>2. (a \o b)[Len(a) + m] = b[m]
        BY <1>2, ConcatFiles
      <3>3. k + m = i + 1
        BY <3>1, <1>1
      <3> QED BY <2>2, <3>1, <3>2, <3>3, <1>2
    <2>3. i < k \/ i >= k
      OBVIOUS
    <2> QED BY <2>1, <2>2, <2>3, Zenon
  <1> QED BY <1>3, <1>4, <1>5

\* What removing a file by its name leaves.
LEMMA WithoutFile ==
    ASSUME NEW s \in Seq(Files), Ordered(s), NEW f \in ToSet(s)
    PROVE  /\ Without(s, f) \in Seq(Files) /\ Ordered(Without(s, f))
           /\ Len(Without(s, f)) = Len(s) - 1
           /\ ToSet(Without(s, f)) = ToSet(s) \ {f}
  <1>1. PICK k \in 1 .. Len(s) : s[k] = f /\ Without(s, f) = RemoveAt(s, k)
    <2>1. \E i \in DOMAIN s : s[i] = f
      BY DEF ToSet
    <2> DEFINE c == CHOOSE i \in DOMAIN s : s[i] = f
    <2>2. c \in DOMAIN s /\ s[c] = f
      BY <2>1
    <2>3. Without(s, f) = RemoveAt(s, c)
      BY DEF Without
    <2> HIDE DEF c
    <2> QED BY <2>2, <2>3
  <1>2. \A i \in 1 .. Len(s) : i # k => s[i] # f
    <2> SUFFICES ASSUME NEW i \in 1 .. Len(s), i # k, s[i] = s[k] PROVE FALSE
      BY <1>1
    <2>1. i < k \/ k < i
      OBVIOUS
    <2>2. s[i].window < s[k].window \/ s[k].window < s[i].window
      BY <2>1 DEF Ordered
    <2>3. s[k] \in Files
      OBVIOUS
    <2>4. s[k].window \in Int
      BY <2>3 DEF Files, Windows
    <2> QED BY <2>2, <2>4
  <1>3. PICK r \in Seq(Files) :
          /\ r = RemoveAt(s, k) /\ Len(r) = Len(s) - 1
          /\ \A i \in 1 .. Len(s) - 1 : r[i] = IF i < k THEN s[i] ELSE s[i + 1]
    BY RemoveAtFiles
  <1>4. \A i \in 1 .. Len(r) : \E m \in 1 .. Len(s) :
           m # k /\ r[i] = s[m] /\ ((m = i /\ i < k) \/ (m = i + 1 /\ i >= k))
    <2> TAKE i \in 1 .. Len(r)
    <2>1. CASE i < k
      <3> i \in 1 .. Len(s) /\ i # k /\ r[i] = s[i]
        BY <2>1, <1>3
      <3> WITNESS i \in 1 .. Len(s)
      <3> QED BY <2>1
    <2>2. CASE i >= k
      <3>1. i + 1 \in 1 .. Len(s) /\ i + 1 # k /\ r[i] = s[i + 1]
        BY <2>2, <1>3
      <3> QED BY <3>1, <2>2
    <2> QED BY <2>1, <2>2
  <1>5. Ordered(r)
    <2> SUFFICES ASSUME NEW i \in 1 .. Len(r), NEW j \in 1 .. Len(r), i < j
                 PROVE  r[i].window < r[j].window
      BY DEF Ordered
    <2>1. PICK m \in 1 .. Len(s), n \in 1 .. Len(s) : m < n /\ r[i] = s[m] /\ r[j] = s[n]
      BY <1>4
    <2> QED BY <2>1 DEF Ordered
  <1>6. ToSet(r) \subseteq ToSet(s) \ {f}
    BY <1>2, <1>4, MemberOf
  <1>7. ASSUME NEW m \in 1 .. Len(s), m # k PROVE \E i \in 1 .. Len(r) : r[i] = s[m]
    <2>1. CASE m < k
      BY <2>1, <1>3
    <2>2. CASE m > k
      <3>1. m - 1 \in 1 .. Len(r) /\ ~(m - 1 < k) /\ (m - 1) + 1 = m
        BY <2>2, <1>3
      <3> QED BY <3>1, <1>3
    <2> QED BY <1>7, <2>1, <2>2
  <1>8. ToSet(s) \ {f} \subseteq ToSet(r)
    <2> SUFFICES ASSUME NEW g \in ToSet(s), g # f PROVE g \in ToSet(r)
      OBVIOUS
    <2>1. PICK m \in 1 .. Len(s) : g = s[m]
      BY MemberOf
    <2>2. PICK i \in 1 .. Len(r) : r[i] = s[m]
      BY <1>1, <1>7, <2>1
    <2> QED BY <2>1, <2>2, MemberOf
  <1> QED BY <1>1, <1>3, <1>5, <1>6, <1>8

\* buffer_write puts a newer file behind the others.
LEMMA AppendedFiles ==
    ASSUME NEW s \in Seq(Files), Ordered(s), NEW f \in Files,
           \A g \in ToSet(s) : g.window < f.window
    PROVE  /\ Append(s, f) \in Seq(Files) /\ Ordered(Append(s, f))
           /\ Len(Append(s, f)) = Len(s) + 1
           /\ ToSet(Append(s, f)) = ToSet(s) \cup {f}
  <1>1. PICK b \in Seq(Files) : /\ b = Append(s, f) /\ Len(b) = Len(s) + 1
                                /\ b[Len(b)] = f
                                /\ \A i \in 1 .. Len(s) : b[i] = s[i]
    <2>1. /\ Append(s, f) \in Seq(Files) /\ Len(Append(s, f)) = Len(s) + 1
          /\ Append(s, f)[Len(s) + 1] = f
          /\ \A i \in 1 .. Len(s) : Append(s, f)[i] = s[i]
      OBVIOUS
    <2> QED BY <2>1, Zenon
  <1>2. ToSet(b) = ToSet(s) \cup {f}
    <2>1. \A i \in 1 .. Len(b) : i \in 1 .. Len(s) \/ i = Len(b)
      BY <1>1
    <2>2. 1 .. Len(s) \subseteq 1 .. Len(b) /\ Len(b) \in 1 .. Len(b)
      BY <1>1
    <2>3. \A g : g \in ToSet(b) <=> \E i \in 1 .. Len(b) : g = b[i]
      BY MemberOf
    <2>4. \A g : g \in ToSet(s) <=> \E i \in 1 .. Len(s) : g = s[i]
      BY MemberOf
    <2>5. \A i \in 1 .. Len(s) : b[i] = s[i]
      BY <1>1
    <2>6. b[Len(b)] = f
      BY <1>1
    <2>7. ASSUME NEW g PROVE g \in ToSet(b) <=> g \in ToSet(s) \cup {f}
      <3>1. ASSUME g \in ToSet(b) PROVE g \in ToSet(s) \cup {f}
        BY <3>1, <2>1, <2>3, <2>4, <2>5, <2>6
      <3>2. ASSUME g \in ToSet(s) PROVE g \in ToSet(b)
        BY <3>2, <2>2, <2>3, <2>4, <2>5
      <3>3. ASSUME g = f PROVE g \in ToSet(b)
        BY <3>3, <2>2, <2>3, <2>6
      <3> QED BY <3>1, <3>2, <3>3
    <2> QED BY <2>7
  <1>3. Ordered(b)
    <2> SUFFICES ASSUME NEW i \in 1 .. Len(b), NEW j \in 1 .. Len(b), i < j
                 PROVE  b[i].window < b[j].window
      BY DEF Ordered
    <2>1. i \in 1 .. Len(s) /\ b[i] = s[i]
      BY <1>1
    <2>2. CASE j = Len(b)
      BY <2>1, <2>2, <1>1, MemberOf
    <2>3. CASE j # Len(b)
      <3>1. j \in 1 .. Len(s)
        BY <2>3, <1>1
      <3> QED BY <2>1, <3>1, <1>1 DEF Ordered
    <2> QED BY <2>2, <2>3
  <1> QED BY <1>1, <1>2, <1>3

LEMMA WindowsOfFiles ==
    ASSUME NEW s \in Seq(Files), NEW w
    PROVE  w \in WindowsOf(s) <=> \E f \in ToSet(s) : f.window = w
  BY DEF WindowsOf, ToSet

---------------------------------------------------------------------------
\* The calls the server knows of.

Stages == {"door", "prepare", "queued", "detached", "ok", "err"}

LEMMA CallFields ==
    ASSUME NEW r \in Call
    PROVE  /\ r.stage \in Stages /\ r.batch \in Batches /\ r.live \in BOOLEAN
           /\ r # NoCall
           /\ \A s \in Stages : LET q == [r EXCEPT !.stage = s]
                                IN /\ q \in Call /\ q # NoCall /\ q.stage = s
                                   /\ q.batch = r.batch /\ q.live = r.live
           /\ LET q == [r EXCEPT !.live = FALSE]
              IN /\ q \in Call /\ q # NoCall /\ q.stage = r.stage
                 /\ q.batch = r.batch /\ q.live = FALSE
  <1>1. \A q \in Call : q # NoCall /\ q.stage \in Stages
    <2> TAKE q \in Call
    <2>1. q.stage \in Stages
      BY DEF Call, Stages
    <2>2. NoCall.stage = "free"
      BY DEF NoCall
    <2> QED BY <2>1, <2>2 DEF Stages
  <1>2. ASSUME NEW s \in Stages
        PROVE  LET q == [r EXCEPT !.stage = s]
               IN /\ q \in Call /\ q.stage = s
                  /\ q.batch = r.batch /\ q.live = r.live
    BY DEF Call, Stages
  <1>3. LET q == [r EXCEPT !.live = FALSE]
        IN /\ q \in Call /\ q.stage = r.stage
           /\ q.batch = r.batch /\ q.live = FALSE
    BY DEF Call
  <1>4. r.batch \in Batches /\ r.live \in BOOLEAN
    BY DEF Call
  <1> QED BY <1>1, <1>2, <1>3, <1>4

\* What a handler's step does to the calls.
LEMMA StageStep ==
    ASSUME calls \in [CallIds -> Call \cup {NoCall}], NEW i \in CallIds,
           calls[i] # NoCall, NEW s \in Stages, Stage(i, s)
    PROVE  /\ calls' \in [CallIds -> Call \cup {NoCall}]
           /\ calls'[i] \in Call /\ calls'[i].stage = s
           /\ calls'[i].batch = calls[i].batch /\ calls'[i].live = calls[i].live
           /\ \A j \in CallIds : j # i => calls'[j] = calls[j]
  <1>1. calls[i] \in Call
    OBVIOUS
  <1>2. calls' = [calls EXCEPT ![i] = [calls[i] EXCEPT !.stage = s]]
    BY DEF Stage
  <1> QED BY <1>1, <1>2, CallFields

LEMMA ForgetStep ==
    ASSUME calls \in [CallIds -> Call \cup {NoCall}], NEW i \in CallIds, Forget(i)
    PROVE  /\ calls' \in [CallIds -> Call \cup {NoCall}]
           /\ calls'[i] = NoCall
           /\ \A j \in CallIds : j # i => calls'[j] = calls[j]
  BY DEF Forget

LEMMA HangUpStep ==
    ASSUME calls \in [CallIds -> Call \cup {NoCall}], NEW c,
           waits[c] \in CallIds, calls[waits[c]] # NoCall, HangUp(c)
    PROVE  /\ calls' \in [CallIds -> Call \cup {NoCall}]
           /\ calls'[waits[c]] \in Call
           /\ calls'[waits[c]].stage = calls[waits[c]].stage
           /\ calls'[waits[c]].batch = calls[waits[c]].batch
           /\ calls'[waits[c]].live = FALSE
           /\ \A j \in CallIds : j # waits[c] => calls'[j] = calls[j]
  <1>1. calls[waits[c]] \in Call
    OBVIOUS
  <1>2. calls' = [calls EXCEPT ![waits[c]] = [calls[waits[c]] EXCEPT !.live = FALSE]]
    BY DEF HangUp
  <1> QED BY <1>1, <1>2, CallFields

\* No two collectors await one call.
LEMMA OwnCall ==
    ASSUME Typed, NEW c \in Collectors, NEW d \in Collectors, c # d,
           waits[c] # None
    PROVE  waits[d] # waits[c]
  BY DEF Typed, Loop

LEMMA HandTyped ==
    ASSUME Typed, NEW c \in Collectors, Fresh(c) \/ todo[c] # <<>>
    PROVE  InHand(c) \in Windows /\ <<c, InHand(c)>> \in Batches
  <1>1. CASE Fresh(c)
    BY <1>1 DEF Typed, Loop, InHand, Batches
  <1>2. CASE ~Fresh(c)
    <2>1. todo[c] \in Seq(Files) /\ todo[c] # <<>>
      BY <1>2 DEF Typed, Types
    <2>2. Head(todo[c]) \in Files
      BY <2>1
    <2> QED BY <1>2, <2>2 DEF InHand, Files, Batches
  <1> QED BY <1>1, <1>2

---------------------------------------------------------------------------
\* How the outcomes of a POST, and enforce_cap, change the buffer.

LoopTypes ==
    /\ pc \in [Collectors -> {"tick", "post", "posted", "failed", "cap", "flush",
                              "reposted"}]
    /\ disk \in [Collectors -> Seq(Files)] /\ todo \in [Collectors -> Seq(Files)]
    /\ waits \in [Collectors -> CallIds \cup {None}]
    /\ evicted \subseteq Batches /\ stuck \subseteq Batches
    /\ hitches \in [Collectors -> Nat]

\* The step is c's own.
OnlyOf(c) ==
    \A d \in Collectors : d # c =>
        /\ pc'[d] = pc[d] /\ disk'[d] = disk[d] /\ todo'[d] = todo[d]
        /\ waits'[d] = waits[d] /\ hitches'[d] = hitches[d]
        /\ \A w \in Windows : /\ <<d, w>> \in evicted' <=> <<d, w>> \in evicted
                              /\ <<d, w>> \in stuck' <=> <<d, w>> \in stuck

\* The directory loses no file and gains none.
LEMMA SameDirectory ==
    ASSUME Typed, NEW c \in Collectors, Directory(c),
           disk'[c] = disk[c], win'[c] = win[c],
           todo'[c] \in {todo[c], <<>>, disk[c]}
             \/ (todo[c] # <<>> /\ todo'[c] = Tail(todo[c])),
           Fresh(c)' => Fresh(c), pc'[c] # "cap",
           evicted' = evicted, stuck' = stuck, hitches' = hitches
    PROVE  Directory(c)'
  <1>1. disk[c] \in Seq(Files) /\ todo[c] \in Seq(Files)
    BY DEF Typed, Types
  <1>2. Ordered(todo'[c]) /\ ToSet(todo'[c]) \subseteq ToSet(disk[c])
    <2>1. CASE todo'[c] = <<>>
      BY <2>1 DEF Ordered, ToSet
    <2>2. CASE todo'[c] \in {todo[c], disk[c]}
      BY <2>2 DEF Directory
    <2>3. CASE todo[c] # <<>> /\ todo'[c] = Tail(todo[c])
      BY <2>3, <1>1, TailFiles DEF Directory
    <2> QED BY <2>1, <2>2, <2>3
  <1> QED BY <1>2 DEF Directory

LEMMA HeadRemoved ==
    ASSUME Typed, NEW c \in Collectors, Directory(c), todo[c] # <<>>,
           disk' = [disk EXCEPT ![c] = Without(@, Head(todo[c]))],
           todo' = [todo EXCEPT ![c] = Tail(@)]
    PROVE  /\ disk' \in [Collectors -> Seq(Files)]
           /\ todo' \in [Collectors -> Seq(Files)]
           /\ Ordered(disk'[c]) /\ Ordered(todo'[c])
           /\ Len(disk'[c]) = Len(disk[c]) - 1
           /\ Head(todo[c]) \in ToSet(disk[c]) /\ Head(todo[c]) \in Files
           /\ ToSet(disk'[c]) = ToSet(disk[c]) \ {Head(todo[c])}
           /\ ToSet(todo'[c]) = ToSet(todo[c]) \ {Head(todo[c])}
           /\ \A f \in ToSet(todo'[c]) : Head(todo[c]).window < f.window
  <1>1. /\ disk[c] \in Seq(Files) /\ todo[c] \in Seq(Files)
        /\ Ordered(disk[c]) /\ Ordered(todo[c])
        /\ ToSet(todo[c]) \subseteq ToSet(disk[c])
    BY DEF Typed, Types, Directory
  <1>2. PICK t \in Seq(Files) :
          /\ t = Tail(todo[c]) /\ Ordered(t)
          /\ ToSet(t) = ToSet(todo[c]) \ {Head(todo[c])}
          /\ \A f \in ToSet(t) : Head(todo[c]).window < f.window
    BY <1>1, TailFiles
  <1>3. Head(todo[c]) \in ToSet(disk[c]) /\ Head(todo[c]) \in Files
    BY <1>1, TailFiles
  <1>4. PICK r \in Seq(Files) :
          /\ r = Without(disk[c], Head(todo[c])) /\ Ordered(r)
          /\ Len(r) = Len(disk[c]) - 1
          /\ ToSet(r) = ToSet(disk[c]) \ {Head(todo[c])}
    BY <1>1, <1>3, WithoutFile
  <1>5. disk'[c] = r /\ todo'[c] = t
    BY <1>2, <1>4 DEF Typed, Types
  <1> QED BY <1>2, <1>3, <1>4, <1>5 DEF Typed, Types

\* flush_buffer removes the oldest file it has left.
LEMMA HeadGone ==
    ASSUME Typed, NEW c \in Collectors, Directory(c), todo[c] # <<>>,
           win' = win, Fresh(c)' => Fresh(c), pc'[c] # "cap",
           disk' = [disk EXCEPT ![c] = Without(@, Head(todo[c]))],
           todo' = [todo EXCEPT ![c] = Tail(@)],
           evicted' = evicted, stuck' = stuck, hitches' = hitches
    PROVE  /\ disk' \in [Collectors -> Seq(Files)]
           /\ todo' \in [Collectors -> Seq(Files)]
           /\ Directory(c)'
           /\ ToSet(disk'[c]) = ToSet(disk[c]) \ {Head(todo[c])}
  <1>1. /\ disk' \in [Collectors -> Seq(Files)]
        /\ todo' \in [Collectors -> Seq(Files)]
        /\ Ordered(disk'[c]) /\ Ordered(todo'[c])
        /\ Len(disk'[c]) = Len(disk[c]) - 1
        /\ ToSet(disk'[c]) = ToSet(disk[c]) \ {Head(todo[c])}
        /\ ToSet(todo'[c]) = ToSet(todo[c]) \ {Head(todo[c])}
    BY HeadRemoved
  <1>2. Len(disk'[c]) <= Cap + 1 + hitches[c]
    <2>1. Len(disk[c]) <= Cap + 1 + hitches[c] /\ hitches[c] \in Nat
      BY DEF Directory, Typed, Types
    <2>2. Len(disk[c]) \in Nat
      BY DEF Typed, Types
    <2> QED BY <1>1, <2>1, <2>2
  <1>3. Directory(c)'
    BY <1>1, <1>2 DEF Directory
  <1> QED BY <1>1, <1>3

LEMMA PostFailedStep ==
    ASSUME Typed, Directories, NEW c \in Collectors, PostFailed(c),
           UNCHANGED <<win, disk, evicted, stuck, hitches>>
    PROVE  /\ LoopTypes' /\ OnlyOf(c) /\ Directory(c)'
           /\ waits'[c] = None
           /\ \/ Fresh(c) /\ Fresh(c)' /\ pc'[c] = "failed"
              \/ ~Fresh(c) /\ ~Fresh(c)' /\ pc'[c] = "tick"
  <1>1. CASE Fresh(c)
    <2>1. /\ todo' = todo /\ waits' = [waits EXCEPT ![c] = None]
          /\ pc' = [pc EXCEPT ![c] = "failed"]
      BY <1>1 DEF PostFailed
    <2>2. LoopTypes' /\ OnlyOf(c)
      BY <2>1 DEF LoopTypes, OnlyOf, Typed, Types
    <2>3. pc'[c] = "failed" /\ waits'[c] = None
      BY <2>1 DEF Typed, Types
    <2>4. Fresh(c)'
      BY <2>3 DEF Fresh
    <2>5. Directory(c)'
      BY <1>1, <2>1, <2>3, SameDirectory DEF Directories
    <2> QED BY <1>1, <2>2, <2>3, <2>4, <2>5
  <1>2. CASE ~Fresh(c)
    <2>1. /\ waits' = [waits EXCEPT ![c] = None]
          /\ todo' = [todo EXCEPT ![c] = <<>>] /\ pc' = [pc EXCEPT ![c] = "tick"]
      BY <1>2 DEF PostFailed, EndFlush
    <2>2. LoopTypes' /\ OnlyOf(c)
      BY <2>1 DEF LoopTypes, OnlyOf, Typed, Types
    <2>3. pc'[c] = "tick" /\ waits'[c] = None /\ todo'[c] = <<>>
      BY <2>1 DEF Typed, Types
    <2>4. ~Fresh(c)'
      BY <2>3 DEF Fresh
    <2>5. Directory(c)'
      BY <2>3, <2>4, SameDirectory DEF Directories
    <2> QED BY <1>2, <2>2, <2>3, <2>4, <2>5
  <1> QED BY <1>1, <1>2

LEMMA PostSucceededStep ==
    ASSUME Typed, Directories, NEW c \in Collectors,
           Posted(c), PostSucceeded(c),
           UNCHANGED <<win, evicted, stuck, hitches>>
    PROVE  /\ LoopTypes' /\ OnlyOf(c) /\ Directory(c)'
           /\ pc'[c] = "flush" /\ waits'[c] = None
           /\ \A w \in Windows :
                 Readable(c, w)' <=> Readable(c, w) /\ w # InHand(c)
  <1>1. CASE Fresh(c)
    <2>1. /\ disk' = disk /\ waits' = [waits EXCEPT ![c] = None]
          /\ todo' = [todo EXCEPT ![c] = disk[c]] /\ pc' = [pc EXCEPT ![c] = "flush"]
      BY <1>1 DEF PostSucceeded, StartFlush
    <2>2. LoopTypes' /\ OnlyOf(c)
      BY <2>1 DEF LoopTypes, OnlyOf, Typed, Types
    <2>3. pc'[c] = "flush" /\ waits'[c] = None /\ todo'[c] = disk[c]
      BY <2>1 DEF Typed, Types
    <2>4. Directory(c)'
      BY <2>1, <2>3, SameDirectory DEF Directories, Fresh
    <2>5. \A w \in Windows : Readable(c, w) => w # InHand(c)
      <3> TAKE w \in Windows
      <3>1. \A f \in ToSet(disk[c]) : f.window < win[c]
        BY <1>1 DEF Directories, Directory
      <3>2. File(w).window = w
        BY DEF File
      <3> QED BY <1>1, <3>1, <3>2 DEF Readable, InHand, Windows, Typed, Types
    <2> QED BY <2>1, <2>2, <2>3, <2>4, <2>5 DEF Readable
  <1>2. CASE ~Fresh(c)
    <2>1. /\ waits' = [waits EXCEPT ![c] = None]
          /\ disk' = [disk EXCEPT ![c] = Without(@, Head(todo[c]))]
          /\ todo' = [todo EXCEPT ![c] = Tail(@)] /\ pc' = [pc EXCEPT ![c] = "flush"]
      BY <1>2 DEF PostSucceeded, StartFlush, Typed, Types
    <2>2. todo[c] # <<>> /\ ~Head(todo[c]).torn
      BY <1>2 DEF Posted, Fresh, Typed, Loop
    <2>3. pc'[c] = "flush" /\ waits'[c] = None
      BY <2>1 DEF Typed, Types
    <2>4. /\ disk' \in [Collectors -> Seq(Files)]
          /\ todo' \in [Collectors -> Seq(Files)]
          /\ Directory(c)'
          /\ ToSet(disk'[c]) = ToSet(disk[c]) \ {Head(todo[c])}
      BY <2>1, <2>2, <2>3, HeadGone DEF Directories, Fresh
    <2>5. LoopTypes' /\ OnlyOf(c)
      BY <2>1, <2>4 DEF LoopTypes, OnlyOf, Typed, Types
    <2>6. \A w \in Windows : File(w) = Head(todo[c]) <=> w = InHand(c)
      <3>1. todo[c] \in Seq(Files)
        BY DEF Typed, Types
      <3>2. Head(todo[c]) \in Files
        BY <2>2, <3>1
      <3>3. Head(todo[c]) = File(Head(todo[c]).window)
        BY <2>2, <3>2 DEF File, Files
      <3>4. \A w : File(w).window = w
        BY DEF File
      <3> QED BY <1>2, <3>3, <3>4 DEF InHand
    <2> QED BY <2>1, <2>3, <2>4, <2>5, <2>6 DEF Readable
  <1> QED BY <1>1, <1>2

\* enforce_cap removes the oldest file it has left to try.
LEMMA EvictStep ==
    ASSUME Typed, Directories, NEW c \in Collectors, Evict(c)
    PROVE  /\ LoopTypes' /\ OnlyOf(c) /\ Directory(c)'
           /\ pc' = pc /\ waits' = waits
           /\ \A w \in Windows : Readable(c, w)' => Readable(c, w)
           /\ \A w \in Windows :
                 Readable(c, w) => Readable(c, w)' \/ <<c, w>> \in evicted'
  <1> DEFINE h == Head(todo[c])
  <1>1. /\ pc[c] = "cap" /\ todo[c] # <<>> /\ Len(disk[c]) > Cap
        /\ disk' = [disk EXCEPT ![c] = Without(@, Head(todo[c]))]
        /\ todo' = [todo EXCEPT ![c] = Tail(@)]
        /\ evicted' = evicted \cup {<<c, h.window>>}
        /\ UNCHANGED <<pc, win, waits, stuck, hitches>>
    BY DEF Evict, OverCap, Oldest
  <1>2. Directory(c) /\ hitches[c] \in Nat /\ Len(disk[c]) \in Nat
    BY DEF Directories, Typed, Types
  <1>3. /\ disk' \in [Collectors -> Seq(Files)]
        /\ todo' \in [Collectors -> Seq(Files)]
        /\ Ordered(disk'[c]) /\ Ordered(todo'[c])
        /\ Len(disk'[c]) = Len(disk[c]) - 1
        /\ h \in ToSet(disk[c]) /\ h \in Files
        /\ ToSet(disk'[c]) = ToSet(disk[c]) \ {h}
        /\ ToSet(todo'[c]) = ToSet(todo[c]) \ {h}
        /\ \A f \in ToSet(todo'[c]) : h.window < f.window
    BY <1>1, <1>2, HeadRemoved
  <1> HIDE DEF h
  <1>4. h.window \in Windows
    BY <1>3 DEF Files
  <1>5. LoopTypes'
    BY <1>1, <1>3, <1>4 DEF LoopTypes, Typed, Types, Batches
  <1>6. OnlyOf(c)
    BY <1>1 DEF OnlyOf, Typed, Types
  <1>7. \A f \in ToSet(disk'[c]) : f \in ToSet(todo'[c]) \/ <<c, f.window>> \in stuck
    BY <1>1, <1>2, <1>3 DEF Directory
  <1>8. Len(disk'[c]) <= Cap + hitches[c]
    BY <1>1, <1>2, <1>3 DEF Directory
  <1>9. Len(disk'[c]) <= Cap + 1 + hitches[c]
    <2>1. Len(disk'[c]) \in Nat
      BY <1>3
    <2> QED BY <1>2, <1>8, <2>1
  <1>10. ASSUME NEW w \in Windows, <<c, w>> \in evicted'
         PROVE  /\ w < win[c]
                /\ \A f \in ToSet(disk'[c]) : w < f.window \/ <<c, f.window>> \in stuck
    <2>1. Fresh(c)
      BY <1>1 DEF Fresh
    <2>2. CASE <<c, w>> \in evicted
      BY <1>2, <1>3, <2>1, <2>2 DEF Directory
    <2>3. CASE w = h.window
      BY <1>2, <1>3, <1>7, <2>1, <2>3 DEF Directory
    <2> QED BY <1>1, <1>10, <2>2, <2>3
  <1>11. \A f \in ToSet(disk'[c]) : f.window <= win[c] /\ f.window < win[c]
    BY <1>1, <1>2, <1>3 DEF Directory, Fresh
  <1>12. Directory(c)'
    <2>1. \A w \in Windows : <<c, w>> \in evicted' => w <= win[c]
      BY <1>10 DEF Windows, Typed, Types
    <2>2. ToSet(todo'[c]) \subseteq ToSet(disk'[c])
      BY <1>2, <1>3 DEF Directory
    <2> QED BY <1>1, <1>3, <1>7, <1>8, <1>9, <1>10, <1>11, <2>1, <2>2 DEF Directory
  <1>13. \A w \in Windows : File(w) = h => w = h.window
    BY DEF File
  <1> QED BY <1>1, <1>3, <1>5, <1>6, <1>12, <1>13 DEF Readable

\* What is on disk when buffer_write is through: the rest, and maybe a file
\* of the window in hand.
LEMMA BufferStep ==
    ASSUME Typed, Directories, NEW c \in Collectors, NEW files, Buffer(c, files),
           UNCHANGED <<win, waits, evicted, stuck>>,
           files # disk[c] =>
              \E f \in Files : f.window = win[c] /\ files = Append(disk[c], f)
    PROVE  /\ LoopTypes' /\ OnlyOf(c) /\ Directory(c)'
           /\ pc[c] = "cap" /\ pc'[c] = "flush" /\ disk'[c] = files
           /\ \A f \in Files : f.window = win[c] /\ files = Append(disk[c], f) =>
                 ToSet(disk'[c]) = ToSet(disk[c]) \cup {f}
  <1>1. /\ pc[c] = "cap" /\ (todo[c] = <<>> \/ ~(Len(disk[c]) > Cap))
        /\ disk' = [disk EXCEPT ![c] = files] /\ todo' = [todo EXCEPT ![c] = files]
        /\ pc' = [pc EXCEPT ![c] = "flush"]
        /\ hitches' = [hitches EXCEPT ![c] = IF Len(disk[c]) <= Cap THEN 0
                                             ELSE hitches[c]]
    BY DEF Buffer, StartFlush, OverCap
  <1>2. /\ Directory(c) /\ Fresh(c) /\ disk[c] \in Seq(Files) /\ Ordered(disk[c])
        /\ hitches[c] \in Nat /\ Len(disk[c]) \in Nat /\ win[c] \in Windows
    BY <1>1 DEF Directories, Directory, Typed, Types, Fresh, Loop
  <1>3. \A f \in ToSet(disk[c]) : f.window < win[c]
    BY <1>2 DEF Directory
  <1>4. ASSUME NEW f \in Files, f.window = win[c], files = Append(disk[c], f)
        PROVE  /\ files \in Seq(Files) /\ Ordered(files)
               /\ Len(files) = Len(disk[c]) + 1
               /\ ToSet(files) = ToSet(disk[c]) \cup {f}
    BY <1>2, <1>3, <1>4, AppendedFiles
  <1>5. /\ files \in Seq(Files) /\ Ordered(files)
        /\ Len(files) <= Len(disk[c]) + 1 /\ Len(files) \in Nat
        /\ \A f \in ToSet(files) : f \in ToSet(disk[c]) \/ f.window = win[c]
    <2>1. CASE files = disk[c]
      BY <1>2, <2>1
    <2>2. CASE files # disk[c]
      <3>1. PICK f \in Files : f.window = win[c] /\ files = Append(disk[c], f)
        BY <2>2
      <3>2. /\ files \in Seq(Files) /\ Ordered(files)
            /\ Len(files) = Len(disk[c]) + 1
            /\ ToSet(files) = ToSet(disk[c]) \cup {f}
        BY <1>4, <3>1
      <3> QED BY <1>2, <3>1, <3>2
    <2> QED BY <2>1, <2>2
  <1>6. /\ disk'[c] = files /\ todo'[c] = files /\ pc'[c] = "flush"
        /\ hitches'[c] = IF Len(disk[c]) <= Cap THEN 0 ELSE hitches[c]
    BY <1>1 DEF Typed, Types
  <1>7. Len(files) <= Cap + 1 + hitches'[c]
    <2>1. CASE Len(disk[c]) <= Cap
      BY <1>5, <1>6, <2>1, <1>2
    <2>2. CASE ~(Len(disk[c]) <= Cap)
      <3>1. todo[c] = <<>>
        BY <1>1, <1>2, <2>2
      <3>2. disk[c] # <<>>
        <4>1. Len(<<>>) = 0
          OBVIOUS
        <4> QED BY <2>2, <4>1
      <3>3. Len(disk[c]) <= Cap + hitches[c]
        BY <1>1, <1>2, <3>1, <3>2 DEF Directory
      <3> QED BY <1>2, <1>5, <1>6, <2>2, <3>3
    <2> QED BY <2>1, <2>2
  <1>8. LoopTypes' /\ OnlyOf(c)
    BY <1>1, <1>2, <1>5 DEF LoopTypes, OnlyOf, Typed, Types
  <1>9. Directory(c)'
    <2>1. ~Fresh(c)'
      BY <1>6 DEF Fresh
    <2>2. \A f \in ToSet(files) : f.window <= win[c]
      BY <1>2, <1>5 DEF Directory, Windows
    <2>3. ASSUME NEW w \in Windows, <<c, w>> \in evicted
          PROVE  /\ w <= win[c]
                 /\ \A f \in ToSet(files) : w < f.window \/ <<c, f.window>> \in stuck
      <3>1. w <= win[c] /\ w < win[c]
        BY <1>2, <2>3 DEF Directory
      <3>2. \A f \in ToSet(disk[c]) : w < f.window \/ <<c, f.window>> \in stuck
        BY <1>2, <2>3 DEF Directory
      <3> QED BY <1>5, <3>1, <3>2
    <2> QED BY <1>5, <1>6, <1>7, <2>1, <2>2, <2>3 DEF Directory
  <1>10. \A f \in Files : f.window = win[c] /\ files = Append(disk[c], f) =>
            ToSet(disk'[c]) = ToSet(disk[c]) \cup {f}
    BY <1>4, <1>6
  <1> QED BY <1>1, <1>6, <1>8, <1>9, <1>10

\* The steps of enforce_cap that remove nothing.
LEMMA CapStep ==
    ASSUME Typed, Directories, NEW c \in Collectors,
           EnforceCap(c) \/ ListFails(c) \/ EvictFails(c)
    PROVE  /\ LoopTypes' /\ OnlyOf(c) /\ Directory(c)'
           /\ pc[c] \in {"failed", "cap"} /\ pc'[c] = "cap"
           /\ UNCHANGED <<win, disk, waits, evicted>>
  <1>1. Directory(c) /\ Types /\ hitches[c] \in Nat /\ Len(disk[c]) \in Nat
    BY DEF Directories, Typed, Types
  <1>2. CASE EnforceCap(c)
    <2>1. /\ pc[c] = "failed" /\ pc' = [pc EXCEPT ![c] = "cap"]
          /\ todo' = [todo EXCEPT ![c] = disk[c]]
          /\ UNCHANGED <<win, disk, waits, evicted, stuck, hitches>>
      BY <1>2 DEF EnforceCap, histories, capVars
    <2>2. LoopTypes' /\ OnlyOf(c)
      BY <1>1, <2>1 DEF LoopTypes, OnlyOf, Types
    <2>3. pc'[c] = "cap" /\ todo'[c] = disk[c]
      BY <1>1, <2>1 DEF Types
    <2>4. Directory(c)'
      BY <1>1, <2>1, <2>3 DEF Directory, Fresh
    <2> QED BY <2>1, <2>2, <2>3, <2>4
  <1>3. CASE ListFails(c)
    <2>1. /\ pc[c] = "failed" /\ pc' = [pc EXCEPT ![c] = "cap"]
          /\ hitches' = [hitches EXCEPT ![c] = hitches[c] + 1]
          /\ todo' = [todo EXCEPT ![c] = <<>>]
          /\ UNCHANGED <<win, disk, waits, evicted, stuck>>
      BY <1>3 DEF ListFails, Hitch
    <2>2. LoopTypes' /\ OnlyOf(c)
      BY <1>1, <2>1 DEF LoopTypes, OnlyOf, Types
    <2>3. pc'[c] = "cap" /\ hitches'[c] = hitches[c] + 1 /\ todo'[c] = <<>>
      BY <1>1, <2>1 DEF Types
    <2>4. Len(disk[c]) <= Cap + hitches'[c] /\ Len(disk[c]) <= Cap + 1 + hitches'[c]
      BY <1>1, <2>3 DEF Directory
    <2>5. Ordered(todo'[c]) /\ ToSet(todo'[c]) = {}
      BY <2>3 DEF Ordered, ToSet
    <2>6. Directory(c)'
      BY <1>1, <2>1, <2>3, <2>4, <2>5 DEF Directory, Fresh
    <2> QED BY <2>1, <2>2, <2>3, <2>6
  <1>4. CASE EvictFails(c)
    <2> DEFINE h == Head(todo[c])
    <2>1. /\ pc[c] = "cap" /\ todo[c] # <<>>
          /\ todo' = [todo EXCEPT ![c] = Tail(todo[c])]
          /\ stuck' = stuck \cup {<<c, h.window>>}
          /\ hitches' = [hitches EXCEPT ![c] = hitches[c] + 1]
          /\ UNCHANGED <<pc, win, disk, waits, evicted>>
      BY <1>4 DEF EvictFails, Hitch, OverCap, Oldest
    <2>2. todo[c] \in Seq(Files) /\ Ordered(todo[c])
      BY <1>1 DEF Types, Directory
    <2>3. /\ Tail(todo[c]) \in Seq(Files) /\ Ordered(Tail(todo[c]))
          /\ h \in Files /\ h \in ToSet(todo[c])
          /\ ToSet(Tail(todo[c])) = ToSet(todo[c]) \ {h}
      BY <2>1, <2>2, TailFiles
    <2> HIDE DEF h
    <2>4. h.window \in Windows
      BY <2>3 DEF Files
    <2>5. LoopTypes' /\ OnlyOf(c)
      <3>1. /\ hitches' \in [Collectors -> Nat]
            /\ \A d \in Collectors : d # c => hitches'[d] = hitches[d]
        BY <1>1, <2>1 DEF Types
      <3>2. /\ todo' \in [Collectors -> Seq(Files)]
            /\ \A d \in Collectors : d # c => todo'[d] = todo[d]
        BY <1>1, <2>1, <2>3 DEF Types
      <3>3. stuck' \subseteq Batches
        BY <1>1, <2>1, <2>4 DEF Types, Batches
      <3>4. \A d \in Collectors, w \in Windows : d # c =>
               (<<d, w>> \in stuck' <=> <<d, w>> \in stuck)
        BY <2>1
      <3> QED BY <1>1, <2>1, <3>1, <3>2, <3>3, <3>4 DEF LoopTypes, OnlyOf, Types
    <2>6. hitches'[c] = hitches[c] + 1 /\ todo'[c] = Tail(todo[c])
      BY <1>1, <2>1 DEF Types
    <2>7. Len(disk[c]) <= Cap + hitches'[c] /\ Len(disk[c]) <= Cap + 1 + hitches'[c]
      BY <1>1, <2>6 DEF Directory
    <2>8. \A f \in ToSet(disk[c]) :
             f \in ToSet(Tail(todo[c])) \/ <<c, f.window>> \in stuck'
      BY <1>1, <2>1, <2>3 DEF Directory
    <2>9. Directory(c)'
      BY <1>1, <2>1, <2>3, <2>6, <2>7, <2>8 DEF Directory, Fresh
    <2> QED BY <2>1, <2>5, <2>9
  <1> QED BY <1>2, <1>3, <1>4

---------------------------------------------------------------------------
\* Types, and the order of the directory.

RestTypes ==
    /\ win \in [Collectors -> 0 .. MaxWindows]
    /\ calls \in [CallIds -> Call \cup {NoCall}]
    /\ stored \in [Batches -> Nat] /\ doubts \in [Batches -> Nat]
    /\ leftovers \in [Batches -> Nat]
    /\ old \subseteq Batches /\ lost \subseteq Batches
    /\ reachable \in BOOLEAN /\ faults \in 0 .. MaxFaults

LEMMA CollectorTyped ==
    ASSUME Typed, Directories, NEW c \in Collectors,
           LoopTypes', RestTypes', Detached', OnlyOf(c), Loop(c)', Directory(c)',
           \A d \in Collectors : d # c => win'[d] = win[d],
           \A d \in Collectors : d # c /\ waits[d] # None =>
               calls'[waits[d]] = calls[waits[d]]
    PROVE  Typed' /\ Directories'
  <1>1. Types'
    BY DEF Types, LoopTypes, RestTypes
  <1>2. ASSUME NEW d \in Collectors, d # c PROVE Loop(d)' /\ Directory(d)'
    <2>1. /\ pc'[d] = pc[d] /\ disk'[d] = disk[d] /\ todo'[d] = todo[d]
          /\ waits'[d] = waits[d] /\ win'[d] = win[d] /\ hitches'[d] = hitches[d]
          /\ \A w \in Windows : /\ <<d, w>> \in evicted' <=> <<d, w>> \in evicted
                                /\ <<d, w>> \in stuck' <=> <<d, w>> \in stuck
          /\ waits[d] # None => calls'[waits[d]] = calls[waits[d]]
      BY <1>2 DEF OnlyOf
    <2>2. Loop(d) /\ Directory(d)
      BY DEF Typed, Directories
    <2>3. Fresh(d)' <=> Fresh(d)
      BY <2>1 DEF Fresh
    <2>4. InHand(d)' = InHand(d) /\ (Posted(d)' <=> Posted(d))
      BY <2>1, <2>3 DEF InHand, Posted
    <2>5. Loop(d)'
      BY <2>1, <2>2, <2>3, <2>4 DEF Loop
    <2>6. \A f \in ToSet(disk[d]) : f.window \in Windows
      <3>1. disk[d] \in Seq(Files)
        BY DEF Typed, Types
      <3> QED BY <3>1, MemberOf DEF Files
    <2>7. Directory(d)'
      BY <2>1, <2>2, <2>3, <2>6 DEF Directory
    <2> QED BY <2>5, <2>7
  <1> QED BY <1>1, <1>2 DEF Typed, Directories

LEMMA HandlerTyped ==
    ASSUME Typed, Directories,
           UNCHANGED <<pc, win, disk, todo, waits, evicted, stuck, hitches>>,
           RestTypes', Detached',
           \A d \in Collectors : waits[d] # None =>
              /\ calls'[waits[d]] # NoCall
              /\ calls'[waits[d]].live = calls[waits[d]].live
              /\ calls'[waits[d]].batch = calls[waits[d]].batch
    PROVE  Typed' /\ Directories'
  <1>1. Types'
    BY DEF Types, RestTypes, Typed
  <1>2. ASSUME NEW d \in Collectors PROVE Loop(d)'
    <2>1. InHand(d)' = InHand(d) /\ (Posted(d)' <=> Posted(d)) /\ Fresh(d)' = Fresh(d)
      BY DEF InHand, Posted, Fresh
    <2> QED BY <2>1 DEF Loop, Typed
  <1>3. Directories'
    BY DEF Directories, Directory, Fresh
  <1> QED BY <1>1, <1>2, <1>3 DEF Typed

\* A step of c that leaves the server's calls alone.
LEMMA CallsKept ==
    ASSUME Typed, calls' = calls
    PROVE  Detached' /\ calls' \in [CallIds -> Call \cup {NoCall}]
  BY DEF Typed, Types, Detached

LEMMA CallsForgotten ==
    ASSUME Typed, NEW c \in Collectors, waits[c] # None, Forget(waits[c])
    PROVE  /\ Detached' /\ calls' \in [CallIds -> Call \cup {NoCall}]
           /\ \A d \in Collectors : d # c /\ waits[d] # None =>
                 calls'[waits[d]] = calls[waits[d]]
           /\ \A i \in CallIds : i # waits[c] => calls'[i] = calls[i]
           /\ calls'[waits[c]] = NoCall
  <1>1. waits[c] \in CallIds /\ \A d \in Collectors : waits[d] \in CallIds \cup {None}
    BY DEF Typed, Types
  <1>2. /\ calls' \in [CallIds -> Call \cup {NoCall}]
        /\ calls'[waits[c]] = NoCall
        /\ \A j \in CallIds : j # waits[c] => calls'[j] = calls[j]
    BY <1>1, ForgetStep DEF Typed, Types
  <1>3. NoCall.stage # "detached"
    BY DEF NoCall
  <1>4. Detached'
    BY <1>2, <1>3 DEF Detached, Typed
  <1> QED BY <1>1, <1>2, <1>4, OwnCall

LEMMA CallsHungUp ==
    ASSUME Typed, NEW c \in Collectors, waits[c] # None, HangUp(c)
    PROVE  /\ Detached' /\ calls' \in [CallIds -> Call \cup {NoCall}]
           /\ \A d \in Collectors : d # c /\ waits[d] # None =>
                 calls'[waits[d]] = calls[waits[d]]
           /\ \A i \in CallIds :
                 /\ calls'[i] = NoCall <=> calls[i] = NoCall
                 /\ calls'[i].stage = calls[i].stage
                 /\ calls[i] # NoCall => calls'[i].batch = calls[i].batch
  <1>1. waits[c] \in CallIds /\ \A d \in Collectors : waits[d] \in CallIds \cup {None}
    BY DEF Typed, Types
  <1>2. calls[waits[c]] # NoCall
    BY DEF Typed, Loop
  <1>3. /\ calls' \in [CallIds -> Call \cup {NoCall}]
        /\ calls'[waits[c]] \in Call
        /\ calls'[waits[c]].stage = calls[waits[c]].stage
        /\ calls'[waits[c]].batch = calls[waits[c]].batch
        /\ calls'[waits[c]].live = FALSE
        /\ \A j \in CallIds : j # waits[c] => calls'[j] = calls[j]
    BY <1>1, <1>2, HangUpStep DEF Typed, Types
  <1>4. calls'[waits[c]] # NoCall
    BY <1>3, CallFields
  <1>5. Detached'
    BY <1>3 DEF Detached, Typed
  <1>6. \A i \in CallIds :
           /\ calls'[i] = NoCall <=> calls[i] = NoCall
           /\ calls'[i].stage = calls[i].stage
           /\ calls[i] # NoCall => calls'[i].batch = calls[i].batch
    BY <1>2, <1>3, <1>4
  <1> QED BY <1>1, <1>3, <1>5, <1>6, OwnCall

LEMMA FaultTyped == ASSUME faults \in 0 .. MaxFaults, Fault
                    PROVE  faults' \in 0 .. MaxFaults
  BY DEF Fault

LEMMA DoubtTyped ==
    ASSUME Typed, NEW c \in Collectors, Posted(c), Doubt(c)
    PROVE  /\ doubts' \in [Batches -> Nat]
           /\ doubts'[<<c, InHand(c)>>] = doubts[<<c, InHand(c)>>] + 1
           /\ \A b \in Batches : b # <<c, InHand(c)>> => doubts'[b] = doubts[b]
  <1>1. Fresh(c) \/ todo[c] # <<>>
    BY DEF Posted, Fresh, Typed, Loop
  <1>2. <<c, InHand(c)>> \in Batches
    BY <1>1, HandTyped
  <1> QED BY <1>2 DEF Doubt, Typed, Types

LEMMA LoopAtRest ==
    ASSUME NEW c \in Collectors, waits'[c] = None,
           pc'[c] \in {"tick", "flush", "failed", "cap"},
           Fresh(c)' => win'[c] \in Windows
    PROVE  Loop(c)'
  BY DEF Loop

LEMMA OwnStepsTyped ==
    ASSUME Typed, Directories, NEW c \in Collectors,
           \/ CloseWindow(c) \/ CloseLaterWindow(c) \/ FlushDone(c)
           \/ DropUnreadable(c) \/ SkipUnread(c) \/ \E i \in CallIds : Send(c, i)
    PROVE  Typed' /\ Directories'
  <1>1. Types /\ Loop(c) /\ Directory(c) /\ win[c] \in 0 .. MaxWindows
    BY DEF Typed, Types, Directories
  <1>2. CASE CloseWindow(c)
    <2>1. /\ win' = [win EXCEPT ![c] = win[c] + 1] /\ pc' = [pc EXCEPT ![c] = "post"]
          /\ win[c] < MaxWindows /\ pc[c] = "tick"
          /\ UNCHANGED <<disk, todo, waits, calls, reachable, stored, old, lost,
                         evicted, stuck, hitches, doubts, leftovers, faults>>
      BY <1>2 DEF CloseWindow, serverVars, histories, capVars, causes
    <2>2. LoopTypes' /\ RestTypes' /\ OnlyOf(c)
      BY <1>1, <2>1 DEF LoopTypes, RestTypes, Types, OnlyOf
    <2>3. pc'[c] = "post" /\ win'[c] = win[c] + 1
      BY <1>1, <2>1 DEF Types
    <2>4. Loop(c)'
      BY <1>1, <2>1, <2>3 DEF Loop, Posted, Windows, Types
    <2>5. Directory(c)'
      <3>1. ~Fresh(c)
        BY <2>1 DEF Fresh
      <3>2. disk[c] \in Seq(Files) /\ \A f \in ToSet(disk[c]) : f.window \in Int
        <4>1. disk[c] \in Seq(Files)
          BY <1>1 DEF Types
        <4>2. ToSet(disk[c]) \subseteq Files
          BY <4>1, MemberOf
        <4> QED BY <4>1, <4>2 DEF Files, Windows
      <3>3. \A f \in ToSet(disk[c]) : f.window < win[c] + 1
        BY <1>1, <3>2 DEF Directory
      <3>4. \A w \in Windows : <<c, w>> \in evicted => w < win[c] + 1
        BY <1>1 DEF Directory, Windows
      <3> QED BY <1>1, <2>1, <2>3, <3>2, <3>3, <3>4 DEF Directory, Windows
    <2>6. \A d \in Collectors : d # c => win'[d] = win[d]
      BY <1>1, <2>1 DEF Types
    <2> QED BY <2>1, <2>2, <2>4, <2>5, <2>6, CallsKept, CollectorTyped
  <1>3. CASE CloseLaterWindow(c) \/ FlushDone(c) \/ SkipUnread(c)
    <2>1. /\ UNCHANGED <<win, disk, waits, calls, reachable, stored, old, lost,
                         evicted, stuck, hitches, doubts, leftovers>>
          /\ faults' \in 0 .. MaxFaults
          /\ pc[c] \in {"tick", "flush"} /\ pc' \in {[pc EXCEPT ![c] = "flush"],
                                                    [pc EXCEPT ![c] = "tick"], pc}
      BY <1>1, <1>3, FaultTyped
         DEF CloseLaterWindow, FlushDone, SkipUnread, serverVars, histories,
             capVars, causes, Types
    <2>2. \/ todo' \in {todo, [todo EXCEPT ![c] = disk[c]], [todo EXCEPT ![c] = <<>>]}
          \/ todo[c] # <<>> /\ todo' = [todo EXCEPT ![c] = Tail(todo[c])]
      BY <1>3 DEF CloseLaterWindow, FlushDone, SkipUnread
    <2>3. waits[c] = None
      BY <1>1, <2>1 DEF Loop, Posted
    <2>4. todo' \in [Collectors -> Seq(Files)]
      <3>1. /\ todo[c] \in Seq(Files) /\ disk[c] \in Seq(Files)
            /\ todo \in [Collectors -> Seq(Files)] /\ <<>> \in Seq(Files)
        BY <1>1 DEF Types
      <3>2. todo[c] # <<>> => Tail(todo[c]) \in Seq(Files)
        BY <3>1
      <3> QED BY <2>2, <3>1, <3>2
    <2>5. LoopTypes' /\ RestTypes' /\ OnlyOf(c)
      BY <1>1, <2>1, <2>2, <2>4 DEF LoopTypes, RestTypes, Types, OnlyOf
    <2>6. pc'[c] \in {"tick", "flush"} /\ waits'[c] = None
      BY <1>1, <2>1, <2>3 DEF Types
    <2>7. \/ todo'[c] \in {todo[c], <<>>, disk[c]}
          \/ todo[c] # <<>> /\ todo'[c] = Tail(todo[c])
      BY <1>1, <2>2 DEF Types
    <2>8. ~Fresh(c)'
      BY <2>6 DEF Fresh
    <2>9. Directory(c)'
      <3>1. /\ disk'[c] = disk[c] /\ win'[c] = win[c] /\ pc'[c] # "cap"
            /\ evicted' = evicted /\ stuck' = stuck /\ hitches' = hitches
        BY <2>1, <2>6
      <3>2. Fresh(c)' => Fresh(c)
        BY <2>8
      <3> QED BY <1>1, <2>7, <3>1, <3>2, SameDirectory
    <2> QED BY <2>1, <2>5, <2>6, <2>8, <2>9, CallsKept, LoopAtRest, CollectorTyped
  <1>4. CASE DropUnreadable(c)
    <2>1. /\ UNCHANGED <<pc, win, waits, calls, reachable, stored, old, lost,
                         evicted, stuck, hitches, doubts, leftovers, faults>>
          /\ pc[c] = "flush" /\ todo[c] # <<>>
          /\ disk' = [disk EXCEPT ![c] = Without(@, Head(todo[c]))]
          /\ todo' = [todo EXCEPT ![c] = Tail(@)]
      BY <1>4 DEF DropUnreadable, serverVars, histories, capVars, causes
    <2>2. waits[c] = None
      BY <1>1, <2>1 DEF Loop, Posted
    <2>3. /\ disk' \in [Collectors -> Seq(Files)]
          /\ todo' \in [Collectors -> Seq(Files)]
          /\ Directory(c)'
      BY <1>1, <2>1, HeadGone DEF Fresh
    <2>4. LoopTypes' /\ RestTypes' /\ OnlyOf(c)
      BY <1>1, <2>1, <2>3 DEF LoopTypes, RestTypes, Types, OnlyOf
    <2>5. pc'[c] = "flush" /\ waits'[c] = None /\ ~Fresh(c)'
      BY <2>1, <2>2 DEF Fresh
    <2> QED BY <2>1, <2>3, <2>4, <2>5, CallsKept, LoopAtRest, CollectorTyped
  <1>5. CASE \E i \in CallIds : Send(c, i)
    <2>1. PICK i \in CallIds : Send(c, i)
      BY <1>5
    <2> DEFINE call == [stage |-> "door", batch |-> <<c, InHand(c)>>, live |-> TRUE]
               next == IF pc[c] = "post" THEN "posted" ELSE "reposted"
    <2>2. /\ UNCHANGED <<win, disk, todo, reachable, stored, old, lost, evicted,
                         stuck, hitches, doubts, leftovers, faults>>
          /\ calls' = [calls EXCEPT ![i] = call] /\ calls[i] = NoCall
          /\ waits' = [waits EXCEPT ![c] = i] /\ pc' = [pc EXCEPT ![c] = next]
          /\ pc[c] = "post" \/ (pc[c] = "flush" /\ todo[c] # <<>> /\ ~Head(todo[c]).torn)
      BY <2>1 DEF Send, ToSend, histories, capVars, causes
    <2>3. call \in Call /\ call # NoCall /\ call.stage = "door" /\ call.live
          /\ call.batch = <<c, InHand(c)>>
      <3>1. <<c, InHand(c)>> \in Batches
        BY <2>2, HandTyped DEF Fresh
      <3>2. call \in Call
        BY <3>1 DEF Call
      <3> QED BY <3>2, CallFields
    <2> HIDE DEF call
    <2>4. LoopTypes' /\ RestTypes' /\ OnlyOf(c)
      BY <1>1, <2>2, <2>3 DEF LoopTypes, RestTypes, Types, OnlyOf
    <2>5. /\ pc'[c] = next /\ waits'[c] = i /\ calls'[i] = call
          /\ win'[c] = win[c] /\ todo'[c] = todo[c]
      BY <1>1, <2>2 DEF Types
    <2>6. Fresh(c)' <=> Fresh(c)
      BY <2>2, <2>5 DEF Fresh
    <2>7. InHand(c)' = InHand(c)
      BY <2>2, <2>6 DEF InHand
    <2>8. Loop(c)'
      BY <1>1, <2>2, <2>3, <2>5, <2>6, <2>7 DEF Loop, Posted
    <2>9. Directory(c)'
      BY <1>1, <2>2, <2>5, <2>6 DEF Directory
    <2>10. Detached'
      BY <1>1, <2>2, <2>3 DEF Detached, Typed, Types
    <2>11. \A d \in Collectors : d # c /\ waits[d] # None =>
              calls'[waits[d]] = calls[waits[d]]
      <3> SUFFICES ASSUME NEW d \in Collectors, waits[d] # None
                   PROVE  calls'[waits[d]] = calls[waits[d]]
        OBVIOUS
      <3>1. calls[waits[d]] # NoCall /\ waits[d] \in CallIds
        BY <1>1 DEF Typed, Loop, Types
      <3> QED BY <1>1, <2>2, <3>1 DEF Types
    <2> QED BY <2>2, <2>4, <2>8, <2>9, <2>10, <2>11, CollectorTyped
  <1> QED BY <1>2, <1>3, <1>4, <1>5

LEMMA OutcomesTyped ==
    ASSUME Typed, Directories, NEW c \in Collectors,
           \/ Answered(c) \/ ConnectionReset(c) \/ Refused(c) \/ TimedOut(c)
           \/ RemoveFails(c) \/ CollectorCrash(c)
    PROVE  Typed' /\ Directories'
  <1>1. Types /\ Loop(c) /\ Directory(c)
    BY DEF Typed, Directories
  <1>2. UNCHANGED <<win, reachable, stored, old, evicted, stuck, hitches>>
    BY DEF Answered, ConnectionReset, Refused, TimedOut, RemoveFails,
           CollectorCrash, serverVars, histories, capVars
  <1>3. \A d \in Collectors : win'[d] = win[d]
    BY <1>2
  <1>4. ASSUME PostFailed(c), disk' = disk
        PROVE  LoopTypes' /\ OnlyOf(c) /\ Directory(c)' /\ Loop(c)'
    <2>1. /\ LoopTypes' /\ OnlyOf(c) /\ Directory(c)'
          /\ waits'[c] = None /\ pc'[c] \in {"tick", "failed"}
          /\ Fresh(c)' => Fresh(c)
      BY <1>2, <1>4, PostFailedStep
    <2>2. Fresh(c)' => win'[c] \in Windows
      BY <1>1, <1>2, <2>1 DEF Loop
    <2> QED BY <2>1, <2>2, LoopAtRest
  <1>5. CASE Answered(c)
    <2>1. /\ waits[c] # None /\ Forget(waits[c])
          /\ PostSucceeded(c) \/ (PostFailed(c) /\ disk' = disk)
          /\ UNCHANGED <<lost, doubts, leftovers, faults>>
      BY <1>5 DEF Answered, histories, causes
    <2>2. Posted(c)
      BY <1>1, <2>1 DEF Loop
    <2>3. LoopTypes' /\ OnlyOf(c) /\ Directory(c)' /\ Loop(c)'
      <3>1. CASE PostSucceeded(c)
        <4>1. /\ LoopTypes' /\ OnlyOf(c) /\ Directory(c)'
              /\ pc'[c] = "flush" /\ waits'[c] = None
          BY <1>2, <2>2, <3>1, PostSucceededStep
        <4>2. ~Fresh(c)'
          BY <4>1 DEF Fresh
        <4> QED BY <4>1, <4>2, LoopAtRest
      <3> QED BY <1>4, <2>1, <3>1
    <2>4. /\ Detached' /\ calls' \in [CallIds -> Call \cup {NoCall}]
          /\ \A d \in Collectors : d # c /\ waits[d] # None =>
                calls'[waits[d]] = calls[waits[d]]
      BY <2>1, CallsForgotten
    <2>5. RestTypes'
      BY <1>1, <1>2, <2>1, <2>4 DEF RestTypes, Types
    <2> QED BY <1>3, <2>3, <2>4, <2>5, CollectorTyped
  <1>6. CASE Refused(c) \/ ConnectionReset(c)
    <2>1. /\ PostFailed(c) /\ UNCHANGED <<disk, calls, lost, leftovers, faults>>
          /\ doubts' \in [Batches -> Nat]
      <3>1. CASE Refused(c)
        BY <1>1, <3>1 DEF Refused, serverVars, histories, causes, Types
      <3>2. CASE ConnectionReset(c)
        BY <1>1, <3>2, DoubtTyped DEF ConnectionReset, serverVars, Types, Posted
      <3> QED BY <1>6, <3>1, <3>2
    <2>2. LoopTypes' /\ OnlyOf(c) /\ Directory(c)' /\ Loop(c)'
      BY <1>4, <2>1
    <2>3. RestTypes'
      BY <1>1, <1>2, <2>1 DEF RestTypes, Types
    <2>4. \A d \in Collectors : d # c /\ waits[d] # None =>
             calls'[waits[d]] = calls[waits[d]]
      BY <2>1
    <2> QED BY <1>3, <2>1, <2>2, <2>3, <2>4, CallsKept, CollectorTyped
  <1>7. CASE TimedOut(c)
    <2>1. /\ waits[c] # None /\ Fault /\ PostFailed(c) /\ Doubt(c) /\ HangUp(c)
          /\ UNCHANGED <<disk, lost, leftovers>>
      BY <1>7 DEF TimedOut
    <2>2. LoopTypes' /\ OnlyOf(c) /\ Directory(c)' /\ Loop(c)'
      BY <1>4, <2>1
    <2>3. /\ Detached' /\ calls' \in [CallIds -> Call \cup {NoCall}]
          /\ \A d \in Collectors : d # c /\ waits[d] # None =>
                calls'[waits[d]] = calls[waits[d]]
      BY <2>1, CallsHungUp
    <2>4. doubts' \in [Batches -> Nat]
      BY <1>1, <2>1, DoubtTyped DEF Loop
    <2>5. RestTypes'
      BY <1>1, <1>2, <2>1, <2>3, <2>4, FaultTyped DEF RestTypes, Types
    <2> QED BY <1>3, <2>2, <2>3, <2>5, CollectorTyped
  <1>8. CASE RemoveFails(c)
    <2>1. /\ pc[c] = "reposted" /\ waits[c] # None /\ Fault
          /\ leftovers' = [leftovers EXCEPT ![<<c, InHand(c)>>] = @ + 1]
          /\ waits' = [waits EXCEPT ![c] = None] /\ pc' = [pc EXCEPT ![c] = "flush"]
          /\ todo' = [todo EXCEPT ![c] = Tail(todo[c])] /\ Forget(waits[c])
          /\ UNCHANGED <<disk, lost, doubts>>
      BY <1>8 DEF RemoveFails, StartFlush
    <2>2. todo[c] # <<>>
      BY <1>1, <2>1 DEF Loop
    <2>3. /\ Detached' /\ calls' \in [CallIds -> Call \cup {NoCall}]
          /\ \A d \in Collectors : d # c /\ waits[d] # None =>
                calls'[waits[d]] = calls[waits[d]]
      BY <2>1, CallsForgotten
    <2>4. leftovers' \in [Batches -> Nat]
      BY <2>1, <2>2, HandTyped DEF Typed, Types
    <2>5. RestTypes'
      BY <1>1, <1>2, <2>1, <2>3, <2>4, FaultTyped DEF RestTypes, Types
    <2>6. todo' \in [Collectors -> Seq(Files)]
      BY <1>1, <2>1, <2>2 DEF Types
    <2>7. LoopTypes' /\ OnlyOf(c)
      BY <1>1, <1>2, <2>1, <2>6 DEF LoopTypes, OnlyOf, Types
    <2>8. pc'[c] = "flush" /\ waits'[c] = None /\ todo'[c] = Tail(todo[c])
      BY <1>1, <2>1 DEF Types
    <2>9. ~Fresh(c)'
      BY <2>8 DEF Fresh
    <2>10. Directory(c)'
      BY <1>1, <1>2, <2>1, <2>2, <2>8, <2>9, SameDirectory
    <2> QED BY <1>3, <2>3, <2>5, <2>7, <2>8, <2>9, <2>10, LoopAtRest, CollectorTyped
  <1>9. CASE CollectorCrash(c)
    <2>1. /\ Fault /\ Abandon(c) /\ UNCHANGED <<disk, leftovers>>
          /\ lost' = IF Fresh(c) THEN lost \cup {<<c, win[c]>>} ELSE lost
          /\ todo' = [todo EXCEPT ![c] = <<>>] /\ pc' = [pc EXCEPT ![c] = "tick"]
          /\ waits' = [waits EXCEPT ![c] = None]
      BY <1>9 DEF CollectorCrash, EndFlush, Abandon
    <2>2. /\ Detached' /\ calls' \in [CallIds -> Call \cup {NoCall}]
          /\ \A d \in Collectors : d # c /\ waits[d] # None =>
                calls'[waits[d]] = calls[waits[d]]
      <3>1. CASE waits[c] # None
        BY <2>1, <3>1, CallsHungUp DEF Abandon
      <3>2. CASE waits[c] = None
        BY <2>1, <3>2, CallsKept DEF Abandon
      <3> QED BY <3>1, <3>2
    <2>3. doubts' \in [Batches -> Nat]
      BY <1>1, <2>1, DoubtTyped DEF Abandon, Posted, Types
    <2>4. lost' \subseteq Batches
      BY <1>1, <2>1 DEF Types, Loop, Batches
    <2>5. RestTypes'
      BY <1>1, <1>2, <2>1, <2>2, <2>3, <2>4, FaultTyped DEF RestTypes, Types
    <2>6. LoopTypes' /\ OnlyOf(c)
      <3>1. <<>> \in Seq(Files)
        OBVIOUS
      <3> QED BY <1>1, <1>2, <2>1, <3>1 DEF LoopTypes, OnlyOf, Types
    <2>7. pc'[c] = "tick" /\ waits'[c] = None /\ todo'[c] = <<>>
      BY <1>1, <2>1 DEF Types
    <2>8. ~Fresh(c)'
      BY <2>7 DEF Fresh
    <2>9. Directory(c)'
      BY <1>1, <1>2, <2>1, <2>7, <2>8, SameDirectory
    <2> QED BY <1>3, <2>2, <2>5, <2>6, <2>7, <2>8, <2>9, LoopAtRest, CollectorTyped
  <1> QED BY <1>5, <1>6, <1>7, <1>8, <1>9

\* The file of the window in hand, whole or truncated.
LEMMA NewFile ==
    ASSUME Typed, NEW c \in Collectors, Fresh(c)
    PROVE  /\ File(win[c]) \in Files /\ File(win[c]).window = win[c]
           /\ [window |-> win[c], torn |-> TRUE] \in Files
           /\ \A w : File(w) # [window |-> win[c], torn |-> TRUE]
           /\ \A w : File(w) = File(win[c]) => w = win[c]
  BY DEF Typed, Loop, File, Files

\* What is on disk is what was there, what the cap dropped left out, and the
\* window in hand once it is written.
LEMMA BufferingStep ==
    ASSUME Typed, Directories, NEW c \in Collectors,
           \/ EnforceCap(c) \/ ListFails(c) \/ Evict(c) \/ EvictFails(c)
           \/ WriteBuffer(c) \/ WriteFails(c)
    PROVE  /\ LoopTypes' /\ OnlyOf(c) /\ Directory(c)'
           /\ waits'[c] = waits[c]
           /\ pc[c] \in {"failed", "cap"} /\ pc'[c] \in {"cap", "flush"}
           /\ \A w \in Windows : Readable(c, w)' => Readable(c, w) \/ w = win[c]
           /\ \A w \in Windows : Readable(c, w) =>
                 Readable(c, w)' \/ <<c, w>> \in evicted'
           /\ pc'[c] = "flush" =>
                 File(win[c]) \in ToSet(disk'[c]) \/ <<c, win[c]>> \in lost'
           /\ evicted \subseteq evicted'
  <1>1. CASE EnforceCap(c) \/ ListFails(c) \/ EvictFails(c)
    BY <1>1, CapStep DEF Readable
  <1>2. CASE Evict(c)
    <2>1. pc[c] = "cap" /\ evicted \subseteq evicted'
      BY <1>2 DEF Evict, OverCap
    <2> QED BY <1>2, <2>1, EvictStep
  <1>3. CASE WriteBuffer(c)
    <2> DEFINE f == File(win[c])
    <2>1. /\ Buffer(c, Append(disk[c], f))
          /\ UNCHANGED <<win, waits, evicted, stuck>>
      BY <1>3 DEF WriteBuffer
    <2>2. Fresh(c)
      BY <2>1 DEF Buffer, Fresh
    <2>3. f \in Files /\ f.window = win[c] /\ \A w : File(w) = f => w = win[c]
      BY <2>2, NewFile
    <2> HIDE DEF f
    <2>4. /\ LoopTypes' /\ OnlyOf(c) /\ Directory(c)'
          /\ pc[c] = "cap" /\ pc'[c] = "flush"
          /\ ToSet(disk'[c]) = ToSet(disk[c]) \cup {f}
      BY <2>1, <2>3, BufferStep
    <2>5. File(win[c]) \in ToSet(disk'[c])
      BY <2>4 DEF f
    <2> QED BY <2>1, <2>3, <2>4, <2>5 DEF Readable
  <1>4. CASE WriteFails(c)
    <2> DEFINE f == [window |-> win[c], torn |-> TRUE]
    <2>1. /\ Buffer(c, disk[c]) \/ Buffer(c, Append(disk[c], f))
          /\ lost' = lost \cup {<<c, win[c]>>}
          /\ UNCHANGED <<win, waits, evicted, stuck>>
      BY <1>4 DEF WriteFails
    <2>2. Fresh(c)
      BY <2>1 DEF Buffer, Fresh
    <2>3. f \in Files /\ f.window = win[c] /\ \A w : File(w) # f
      BY <2>2, NewFile
    <2> HIDE DEF f
    <2>4. CASE Buffer(c, disk[c])
      <3>1. /\ LoopTypes' /\ OnlyOf(c) /\ Directory(c)'
            /\ pc[c] = "cap" /\ pc'[c] = "flush" /\ disk'[c] = disk[c]
        BY <2>1, <2>4, BufferStep
      <3> QED BY <2>1, <3>1 DEF Readable
    <2>5. CASE Buffer(c, Append(disk[c], f))
      <3>1. /\ LoopTypes' /\ OnlyOf(c) /\ Directory(c)'
            /\ pc[c] = "cap" /\ pc'[c] = "flush"
            /\ ToSet(disk'[c]) = ToSet(disk[c]) \cup {f}
        BY <2>1, <2>3, <2>5, BufferStep
      <3> QED BY <2>1, <2>3, <3>1 DEF Readable
    <2> QED BY <2>1, <2>4, <2>5
  <1> QED BY <1>1, <1>2, <1>3, <1>4

LEMMA BufferingTyped ==
    ASSUME Typed, Directories, NEW c \in Collectors,
           \/ EnforceCap(c) \/ ListFails(c) \/ Evict(c) \/ EvictFails(c)
           \/ WriteBuffer(c) \/ WriteFails(c)
    PROVE  Typed' /\ Directories'
  <1>1. Types /\ Loop(c)
    BY DEF Typed
  <1>2. /\ LoopTypes' /\ OnlyOf(c) /\ Directory(c)' /\ waits'[c] = waits[c]
        /\ pc[c] \in {"failed", "cap"} /\ pc'[c] \in {"cap", "flush"}
    BY BufferingStep
  <1>3. /\ UNCHANGED <<win, calls, reachable, stored, old, doubts, leftovers>>
        /\ lost' = lost \/ lost' = lost \cup {<<c, win[c]>>}
        /\ faults' \in 0 .. MaxFaults
    BY <1>1, FaultTyped
       DEF EnforceCap, ListFails, Evict, EvictFails, WriteBuffer, WriteFails,
           serverVars, histories, causes, Types
  <1>4. win[c] \in Windows /\ waits[c] = None
    BY <1>1, <1>2 DEF Loop, Fresh, Posted
  <1>5. RestTypes'
    <2>1. lost' \subseteq Batches
      BY <1>1, <1>3, <1>4 DEF Types, Batches
    <2> QED BY <1>1, <1>3, <2>1 DEF RestTypes, Types
  <1>6. Loop(c)'
    BY <1>2, <1>3, <1>4, LoopAtRest
  <1>7. /\ \A d \in Collectors : win'[d] = win[d]
        /\ \A d \in Collectors : d # c /\ waits[d] # None =>
              calls'[waits[d]] = calls[waits[d]]
    BY <1>3
  <1> QED BY <1>2, <1>3, <1>5, <1>6, <1>7, CallsKept, CollectorTyped

\* A handler goes on, or is gone together with a client that hung up.
Moves(i, s) ==
    /\ i \in CallIds /\ calls[i] # NoCall
    /\ \/ Stage(i, s) /\ s \in Stages /\ (s = "detached" => ~calls[i].live)
       \/ Forget(i) /\ ~calls[i].live

LEMMA CallMoves ==
    ASSUME Typed, NEW i, NEW s, Moves(i, s)
    PROVE  /\ Detached' /\ calls' \in [CallIds -> Call \cup {NoCall}]
           /\ \A d \in Collectors : waits[d] # None =>
                 /\ calls'[waits[d]] # NoCall
                 /\ calls'[waits[d]].live = calls[waits[d]].live
                 /\ calls'[waits[d]].batch = calls[waits[d]].batch
           /\ \A j \in CallIds : j # i => calls'[j] = calls[j]
           /\ calls'[i] # NoCall => /\ calls'[i].batch = calls[i].batch
                                    /\ calls'[i].stage = s
  <1>1. i \in CallIds /\ calls[i] # NoCall /\ calls \in [CallIds -> Call \cup {NoCall}]
    BY DEF Moves, Typed, Types
  <1>2. \A d \in Collectors : waits[d] # None =>
           waits[d] \in CallIds /\ calls[waits[d]] # NoCall /\ calls[waits[d]].live
    BY DEF Typed, Loop, Types
  <1>3. CASE Stage(i, s) /\ s \in Stages /\ (s = "detached" => ~calls[i].live)
    <2>1. /\ calls' \in [CallIds -> Call \cup {NoCall}]
          /\ calls'[i] \in Call /\ calls'[i].stage = s
          /\ calls'[i].batch = calls[i].batch /\ calls'[i].live = calls[i].live
          /\ \A j \in CallIds : j # i => calls'[j] = calls[j]
      BY <1>1, <1>3, StageStep
    <2>2. calls'[i] # NoCall
      BY <2>1, CallFields
    <2>3. Detached'
      BY <1>3, <2>1 DEF Detached, Typed
    <2> QED BY <1>2, <2>1, <2>2, <2>3
  <1>4. CASE Forget(i) /\ ~calls[i].live
    <2>1. /\ calls' \in [CallIds -> Call \cup {NoCall}]
          /\ calls'[i] = NoCall
          /\ \A j \in CallIds : j # i => calls'[j] = calls[j]
      BY <1>1, <1>4, ForgetStep
    <2>2. NoCall.stage # "detached"
      BY DEF NoCall
    <2>3. Detached'
      BY <2>1, <2>2 DEF Detached, Typed
    <2> QED BY <1>2, <1>4, <2>1, <2>3
  <1> QED BY <1>3, <1>4 DEF Moves

LEMMA Answers ==
    ASSUME Typed, NEW i \in CallIds, Runs(i), NEW s \in {"ok", "err"}, Reply(i, s)
    PROVE  Moves(i, s) /\ calls[i].batch \in Batches /\ calls[i] # NoCall
  <1>1. calls[i] # NoCall /\ calls[i] \in Call
    BY DEF Runs, NoCall, Typed, Types
  <1>2. calls[i].batch \in Batches
    BY <1>1, CallFields
  <1>3. CASE calls[i].stage = "detached"
    BY <1>1, <1>2, <1>3 DEF Reply, Moves, Typed, Detached
  <1>4. CASE calls[i].stage # "detached"
    BY <1>1, <1>2, <1>4 DEF Reply, Moves, Stages
  <1> QED BY <1>3, <1>4

\* What each step of a handler does to the calls.
LEMMA HandlerMoves ==
    ASSUME Typed, NEW i \in CallIds
    PROVE  /\ Admit(i) => Moves(i, "prepare")
           /\ Spawn(i) => Moves(i, "queued")
           /\ PrepareFails(i) => Moves(i, "err")
           /\ DropHandler(i) => Moves(i, "detached")
           /\ Apply(i) \/ ApplyDrops(i) => Moves(i, "ok")
           /\ ApplyFails(i) => Moves(i, "err")
           /\ Apply(i) \/ ApplyDrops(i) => calls[i].batch \in Batches
  <1>1. calls[i].stage \in {"door", "prepare"} => calls[i] # NoCall
    BY DEF NoCall
  <1>2. Admit(i) => Moves(i, "prepare")
    BY <1>1 DEF Admit, Moves, Stages
  <1>3. Spawn(i) => Moves(i, "queued")
    BY <1>1 DEF Spawn, Moves, Stages
  <1>4. PrepareFails(i) => Moves(i, "err")
    BY <1>1 DEF PrepareFails, Moves, Stages
  <1>5. DropHandler(i) => Moves(i, "detached")
    BY DEF DropHandler, Moves, Stages
  <1>6. Apply(i) \/ ApplyDrops(i) => Moves(i, "ok") /\ calls[i].batch \in Batches
    BY Answers DEF Apply, ApplyDrops
  <1>7. ApplyFails(i) => Moves(i, "err")
    BY Answers DEF ApplyFails
  <1> QED BY <1>2, <1>3, <1>4, <1>5, <1>6, <1>7

LEMMA HandlersTyped ==
    ASSUME Typed, Directories, NEW i \in CallIds, HandlerStep(i) \/ HandlerFault(i)
    PROVE  Typed' /\ Directories'
  <1>1. Types
    BY DEF Typed
  <1>2. \E s \in Stages : Moves(i, s)
    BY HandlerMoves DEF HandlerStep, HandlerFault, Stages
  <1>3. /\ Detached' /\ calls' \in [CallIds -> Call \cup {NoCall}]
        /\ \A d \in Collectors : waits[d] # None =>
              /\ calls'[waits[d]] # NoCall
              /\ calls'[waits[d]].live = calls[waits[d]].live
              /\ calls'[waits[d]].batch = calls[waits[d]].batch
    BY <1>2, CallMoves
  <1>4. UNCHANGED <<pc, win, disk, todo, waits, reachable, lost, evicted, stuck,
                    hitches, doubts, leftovers>>
    BY DEF HandlerStep, HandlerFault, Admit, Spawn, DropHandler, Apply,
           PrepareFails, ApplyDrops, ApplyFails, histories, capVars, causes
  <1>5. faults' \in 0 .. MaxFaults
    <2>1. HandlerStep(i) => faults' = faults
      BY DEF HandlerStep, Admit, Spawn, DropHandler, Apply
    <2>2. HandlerFault(i) => Fault
      BY DEF HandlerFault, PrepareFails, ApplyDrops, ApplyFails
    <2> QED BY <1>1, <2>1, <2>2, FaultTyped DEF Types
  <1>6. stored' \in [Batches -> Nat]
    <2>1. Apply(i) \/ stored' = stored
      BY DEF HandlerStep, HandlerFault, Admit, Spawn, DropHandler,
             PrepareFails, ApplyDrops, ApplyFails
    <2>2. Apply(i) => stored' = [stored EXCEPT ![calls[i].batch] = @ + 1]
      BY DEF Apply
    <2>3. Apply(i) => calls[i].batch \in Batches
      BY HandlerMoves
    <2>4. stored \in [Batches -> Nat]
      BY <1>1 DEF Types
    <2>5. Apply(i) => stored' \in [Batches -> Nat]
      BY <2>2, <2>3, <2>4
    <2> QED BY <2>1, <2>4, <2>5
  <1>7. old' \subseteq Batches
    BY <1>1, HandlerMoves
       DEF HandlerStep, HandlerFault, Admit, Spawn, DropHandler, Apply,
           PrepareFails, ApplyDrops, ApplyFails, Types
  <1>8. RestTypes'
    BY <1>1, <1>3, <1>4, <1>5, <1>6, <1>7 DEF RestTypes, Types
  <1> QED BY <1>3, <1>4, <1>8, HandlerTyped

LEMMA CrashTyped ==
    ASSUME Typed, Directories, ServerCrash
    PROVE  Typed' /\ Directories'
  <1>1. /\ UNCHANGED <<pc, win, disk, todo, stored, old, lost, evicted, stuck,
                       hitches, doubts, leftovers>>
        /\ faults' \in 0 .. MaxFaults /\ reachable' = FALSE
        /\ calls' = [i \in CallIds |-> NoCall] /\ waits' = [c \in Collectors |-> None]
    BY FaultTyped DEF ServerCrash, histories, capVars, causes, Typed, Types
  <1>2. Types'
    BY <1>1 DEF Types, Typed
  <1>3. Detached'
    BY <1>1 DEF Detached, NoCall
  <1>4. \A c \in Collectors : Loop(c)'
    BY <1>1 DEF Loop, Fresh, Typed
  <1>5. Directories'
    BY <1>1 DEF Directories, Directory, Fresh
  <1> QED BY <1>2, <1>3, <1>4, <1>5 DEF Typed

\* A step about who answers, or no step.
LEMMA Elsewhere ==
    ASSUME Outage \/ Recovers \/ UNCHANGED vars
    PROVE  UNCHANGED <<pc, win, disk, todo, waits, calls, stored, old, lost,
                       evicted, stuck, hitches, doubts, leftovers>>
  BY DEF Outage, Recovers, vars, histories, capVars, causes

LEMMA BasicInit == Init => Typed /\ Directories
  <1> SUFFICES ASSUME Init PROVE Typed /\ Directories
    OBVIOUS
  <1>1. Types
    BY DEF Init, Types
  <1>2. Detached
    BY DEF Init, Detached, NoCall
  <1>3. \A c \in Collectors : Loop(c)
    BY DEF Init, Loop, Fresh
  <1>4. \A c \in Collectors : Directory(c)
    BY DEF Init, Directory, Ordered, ToSet
  <1> QED BY <1>1, <1>2, <1>3, <1>4 DEF Typed, Directories

LEMMA BasicStep == Typed /\ Directories /\ [Next]_vars => Typed' /\ Directories'
  <1> SUFFICES ASSUME Typed, Directories, [Next]_vars PROVE Typed' /\ Directories'
    OBVIOUS
  <1>1. ASSUME NEW c \in Collectors, CollectorStep(c) \/ CollectorFault(c)
        PROVE  Typed' /\ Directories'
    BY <1>1, OwnStepsTyped, OutcomesTyped, BufferingTyped
       DEF CollectorStep, CollectorFault
  <1>2. ASSUME NEW i \in CallIds, HandlerStep(i) \/ HandlerFault(i)
        PROVE  Typed' /\ Directories'
    BY <1>2, HandlersTyped
  <1>3. CASE Outage \/ Recovers \/ UNCHANGED vars
    <2>1. UNCHANGED <<pc, win, disk, todo, waits, calls, stored, old, lost,
                      evicted, stuck, hitches, doubts, leftovers>>
      BY <1>3, Elsewhere
    <2>2. reachable' \in BOOLEAN /\ faults' \in 0 .. MaxFaults
      BY <1>3, FaultTyped DEF Outage, Recovers, vars, Typed, Types
    <2>3. Types'
      BY <2>1, <2>2 DEF Typed, Types
    <2>4. Detached' /\ \A c \in Collectors : Loop(c)'
      BY <2>1 DEF Typed, Detached, Loop, Fresh, Posted, InHand
    <2>5. Directories'
      BY <2>1 DEF Directories, Directory, Fresh
    <2> QED BY <2>3, <2>4, <2>5 DEF Typed
  <1> QED BY <1>1, <1>2, <1>3, CrashTyped DEF Next

---------------------------------------------------------------------------
\* Nothing is lost silently.

Kept == AnswersTrue /\ NoSilentLoss

\* NoSilentLoss of one collector.
Accounted(c) ==
    \A w \in 1 .. win[c] :
        \/ Handled(<<c, w>>)
        \/ <<c, w>> \in lost \cup evicted
        \/ Readable(c, w)
        \/ Fresh(c) /\ w = win[c]

LEMMA LossByCollector == NoSilentLoss <=> \A c \in Collectors : Accounted(c)
  BY DEF NoSilentLoss, Accounted, Handled

LEMMA CollectorKeeps ==
    ASSUME Typed, Kept, NEW c \in Collectors,
           OnlyOf(c), stored' = stored, old' = old,
           lost \subseteq lost',
           \A d \in Collectors : d # c => win'[d] = win[d],
           \A i \in CallIds : calls'[i].stage = "ok" =>
               calls[i].stage = "ok" /\ calls'[i].batch = calls[i].batch,
           Accounted(c)'
    PROVE  Kept'
  <1>1. AnswersTrue'
    BY DEF Kept, AnswersTrue, Handled
  <1>2. ASSUME NEW d \in Collectors, d # c PROVE Accounted(d)'
    <2>1. /\ pc'[d] = pc[d] /\ disk'[d] = disk[d] /\ win'[d] = win[d]
          /\ \A w \in Windows : <<d, w>> \in evicted' <=> <<d, w>> \in evicted
      BY <1>2 DEF OnlyOf
    <2>2. win[d] \in 0 .. MaxWindows
      BY DEF Typed, Types
    <2>3. Accounted(d)
      BY LossByCollector DEF Kept
    <2> QED BY <2>1, <2>2, <2>3 DEF Accounted, Handled, Readable, Fresh, Windows
  <1>3. NoSilentLoss'
    BY <1>2 DEF NoSilentLoss, Accounted, Handled
  <1> QED BY <1>1, <1>3 DEF Kept

LEMMA OwnStepsKeep ==
    ASSUME Typed, Directories, Typed', Kept, NEW c \in Collectors,
           \/ CloseWindow(c) \/ CloseLaterWindow(c) \/ FlushDone(c)
           \/ DropUnreadable(c) \/ SkipUnread(c) \/ \E i \in CallIds : Send(c, i)
    PROVE  Kept'
  <1>1. Types /\ Directory(c) /\ win[c] \in 0 .. MaxWindows /\ Accounted(c)
    BY LossByCollector DEF Typed, Types, Directories, Kept
  <1>2. UNCHANGED <<stored, old, lost, evicted>>
    BY DEF CloseWindow, CloseLaterWindow, FlushDone, DropUnreadable, SkipUnread,
           Send, serverVars, histories, capVars
  <1>3. OnlyOf(c) /\ \A d \in Collectors : d # c => win'[d] = win[d]
    BY <1>1 DEF CloseWindow, CloseLaterWindow, FlushDone, DropUnreadable,
           SkipUnread, Send, serverVars, histories, capVars, OnlyOf, Types
  <1>4. ASSUME NEW i \in CallIds, calls'[i].stage = "ok"
        PROVE  calls[i].stage = "ok" /\ calls'[i].batch = calls[i].batch
    <2>1. CASE calls' = calls
      BY <1>4, <2>1
    <2>2. CASE \E j \in CallIds : Send(c, j)
      BY <1>1, <1>4, <2>2 DEF Send, Types
    <2> QED BY <2>1, <2>2 DEF CloseWindow, CloseLaterWindow, FlushDone,
               DropUnreadable, SkipUnread, serverVars
  <1>5. Accounted(c)'
    <2>1. CASE CloseWindow(c)
      <3>1. /\ pc'[c] = "post" /\ win'[c] = win[c] + 1 /\ disk' = disk /\ pc[c] = "tick"
        BY <1>1, <2>1 DEF CloseWindow, Types
      <3> QED BY <1>1, <1>2, <3>1 DEF Accounted, Handled, Readable, Fresh
    <2>2. CASE DropUnreadable(c)
      <3>1. /\ disk' = [disk EXCEPT ![c] = Without(@, Head(todo[c]))]
            /\ todo' = [todo EXCEPT ![c] = Tail(@)]
            /\ todo[c] # <<>> /\ Head(todo[c]).torn /\ pc' = pc /\ win' = win
        BY <2>2 DEF DropUnreadable
      <3>2. ToSet(disk'[c]) = ToSet(disk[c]) \ {Head(todo[c])}
        BY <1>1, <3>1, HeadRemoved
      <3>3. \A w : File(w).torn = FALSE
        BY DEF File
      <3> QED BY <1>1, <1>2, <3>1, <3>2, <3>3 DEF Accounted, Handled, Readable, Fresh
    <2>3. CASE \/ CloseLaterWindow(c) \/ FlushDone(c) \/ SkipUnread(c)
               \/ \E i \in CallIds : Send(c, i)
      <3>1. disk' = disk /\ win' = win
        BY <2>3 DEF CloseLaterWindow, FlushDone, SkipUnread, Send
      <3>2. CASE CloseLaterWindow(c) \/ FlushDone(c)
        <4>1. pc[c] \in {"tick", "flush"} /\ pc'[c] \in {"tick", "flush"}
          BY <1>1, <3>2 DEF CloseLaterWindow, FlushDone, Types
        <4> QED BY <1>1, <1>2, <3>1, <4>1 DEF Accounted, Handled, Readable, Fresh
      <3>3. CASE SkipUnread(c)
        <4>1. pc' = pc
          BY <3>3 DEF SkipUnread
        <4> QED BY <1>1, <1>2, <3>1, <4>1 DEF Accounted, Handled, Readable, Fresh
      <3>4. CASE \E i \in CallIds : Send(c, i)
        <4>1. pc' = [pc EXCEPT ![c] = IF @ = "post" THEN "posted" ELSE "reposted"]
              /\ pc[c] \in {"post", "flush"}
          BY <3>4 DEF Send, ToSend
        <4>2. \/ pc[c] = "post" /\ pc'[c] = "posted"
              \/ pc[c] = "flush" /\ pc'[c] = "reposted"
          BY <1>1, <4>1 DEF Types
        <4> QED BY <1>1, <1>2, <3>1, <4>2 DEF Accounted, Handled, Readable, Fresh
      <3> QED BY <2>3, <3>2, <3>3, <3>4
    <2> QED BY <2>1, <2>2, <2>3
  <1> QED BY <1>2, <1>3, <1>4, <1>5, CollectorKeeps

LEMMA OutcomesKeep ==
    ASSUME Typed, Directories, Kept, NEW c \in Collectors,
           \/ Answered(c) \/ ConnectionReset(c) \/ Refused(c) \/ TimedOut(c)
           \/ RemoveFails(c) \/ CollectorCrash(c)
    PROVE  Kept'
  <1>1. Types /\ Loop(c) /\ Directory(c) /\ win[c] \in 0 .. MaxWindows /\ Accounted(c)
    BY LossByCollector DEF Typed, Types, Directories, Kept
  <1>2. /\ UNCHANGED <<win, stored, old, evicted, stuck, hitches>>
        /\ lost \subseteq lost'
    BY DEF Answered, ConnectionReset, Refused, TimedOut, RemoveFails,
           CollectorCrash, serverVars, histories, capVars
  <1>3. ASSUME Forget(waits[c]) \/ HangUp(c), waits[c] # None, NEW i \in CallIds,
               calls'[i].stage = "ok"
        PROVE  calls[i].stage = "ok" /\ calls'[i].batch = calls[i].batch
    <2>1. NoCall.stage # "ok"
      BY DEF NoCall
    <2>2. CASE Forget(waits[c])
      BY <1>3, <2>1, <2>2, CallsForgotten
    <2>3. CASE HangUp(c)
      BY <1>3, <2>1, <2>3, CallsHungUp
    <2> QED BY <1>3, <2>2, <2>3
  <1>4. ASSUME NEW i \in CallIds, calls'[i].stage = "ok"
        PROVE  calls[i].stage = "ok" /\ calls'[i].batch = calls[i].batch
    <2>1. \/ calls' = calls
          \/ waits[c] # None /\ (Forget(waits[c]) \/ HangUp(c))
      BY DEF Answered, ConnectionReset, Refused, TimedOut, RemoveFails,
             CollectorCrash, Abandon, serverVars
    <2> QED BY <1>3, <1>4, <2>1
  <1>5. ASSUME PostFailed(c), disk' = disk PROVE OnlyOf(c) /\ Accounted(c)'
    <2>1. OnlyOf(c) /\ (Fresh(c) => Fresh(c)')
      BY <1>2, <1>5, PostFailedStep
    <2> QED BY <1>1, <1>2, <1>5, <2>1 DEF Accounted, Handled, Readable
  <1>6. CASE Refused(c) \/ ConnectionReset(c) \/ TimedOut(c)
    <2>1. PostFailed(c) /\ disk' = disk
      BY <1>6 DEF Refused, ConnectionReset, TimedOut
    <2> QED BY <1>2, <1>4, <1>5, <2>1, CollectorKeeps
  <1>7. CASE Answered(c)
    <2>1. CASE PostFailed(c) /\ disk' = disk
      BY <1>2, <1>4, <1>5, <2>1, CollectorKeeps
    <2>2. CASE PostSucceeded(c) /\ waits[c] # None /\ calls[waits[c]].stage = "ok"
      <3>1. Posted(c) /\ calls[waits[c]].batch = <<c, InHand(c)>> /\ waits[c] \in CallIds
        BY <1>1, <2>2 DEF Loop, Types
      <3>2. Handled(<<c, InHand(c)>>)
        BY <2>2, <3>1 DEF Kept, AnswersTrue
      <3>3. /\ OnlyOf(c)
            /\ \A w \in Windows : Readable(c, w)' <=> Readable(c, w) /\ w # InHand(c)
        BY <1>2, <2>2, <3>1, PostSucceededStep
      <3>4. Fresh(c) => InHand(c) = win[c]
        BY DEF InHand
      <3>5. Accounted(c)'
        BY <1>1, <1>2, <3>2, <3>3, <3>4 DEF Accounted, Handled, Windows
      <3> QED BY <1>2, <1>4, <3>3, <3>5, CollectorKeeps
    <2> QED BY <1>7, <2>1, <2>2 DEF Answered
  <1>8. CASE RemoveFails(c)
    <2>1. /\ waits' = [waits EXCEPT ![c] = None] /\ pc' = [pc EXCEPT ![c] = "flush"]
          /\ todo' = [todo EXCEPT ![c] = Tail(todo[c])]
          /\ UNCHANGED <<disk, lost>> /\ pc[c] = "reposted"
      BY <1>8 DEF RemoveFails, StartFlush
    <2>2. OnlyOf(c)
      BY <1>1, <1>2, <2>1 DEF OnlyOf, Types
    <2>3. Accounted(c)'
      BY <1>1, <1>2, <2>1 DEF Accounted, Handled, Readable, Fresh
    <2> QED BY <1>2, <1>4, <2>2, <2>3, CollectorKeeps
  <1>9. CASE CollectorCrash(c)
    <2>1. /\ disk' = disk /\ waits' = [waits EXCEPT ![c] = None]
          /\ lost' = IF Fresh(c) THEN lost \cup {<<c, win[c]>>} ELSE lost
          /\ todo' = [todo EXCEPT ![c] = <<>>] /\ pc' = [pc EXCEPT ![c] = "tick"]
      BY <1>9 DEF CollectorCrash, EndFlush, Abandon
    <2>2. OnlyOf(c)
      BY <1>1, <1>2, <2>1 DEF OnlyOf, Types
    <2>3. Accounted(c)'
      BY <1>1, <1>2, <2>1 DEF Accounted, Handled, Readable
    <2> QED BY <1>2, <1>4, <2>2, <2>3, CollectorKeeps
  <1> QED BY <1>6, <1>7, <1>8, <1>9

LEMMA BufferingKeeps ==
    ASSUME Typed, Directories, Kept, NEW c \in Collectors,
           \/ EnforceCap(c) \/ ListFails(c) \/ Evict(c) \/ EvictFails(c)
           \/ WriteBuffer(c) \/ WriteFails(c)
    PROVE  Kept'
  <1>1. Types /\ win[c] \in 0 .. MaxWindows /\ Accounted(c)
    BY LossByCollector DEF Typed, Types, Kept
  <1>2. UNCHANGED <<win, calls, stored, old>> /\ lost \subseteq lost'
    BY DEF EnforceCap, ListFails, Evict, EvictFails, WriteBuffer, WriteFails,
           serverVars, histories
  <1>3. /\ OnlyOf(c) /\ evicted \subseteq evicted'
        /\ pc'[c] \in {"cap", "flush"}
        /\ \A w \in Windows : Readable(c, w) =>
              Readable(c, w)' \/ <<c, w>> \in evicted'
        /\ pc'[c] = "flush" =>
              File(win[c]) \in ToSet(disk'[c]) \/ <<c, win[c]>> \in lost'
    BY BufferingStep
  <1>4. ASSUME NEW w \in 1 .. win[c]
        PROVE  \/ Handled(<<c, w>>)' \/ <<c, w>> \in lost' \cup evicted'
               \/ Readable(c, w)' \/ (Fresh(c)' /\ w = win'[c])
    <2>1. w \in Windows
      BY <1>1 DEF Windows
    <2>2. CASE Handled(<<c, w>>) \/ <<c, w>> \in lost \cup evicted
      BY <1>2, <1>3, <2>2 DEF Handled
    <2>3. CASE Readable(c, w)
      BY <1>3, <2>1, <2>3
    <2>4. CASE w = win[c]
      <3>1. CASE pc'[c] = "cap"
        BY <1>2, <2>4, <3>1 DEF Fresh
      <3>2. CASE pc'[c] = "flush"
        BY <1>3, <2>4, <3>2 DEF Readable
      <3> QED BY <1>3, <3>1, <3>2
    <2> QED BY <1>1, <2>2, <2>3, <2>4 DEF Accounted
  <1>5. Accounted(c)'
    BY <1>2, <1>4 DEF Accounted, Handled
  <1> QED BY <1>2, <1>3, <1>5, CollectorKeeps

LEMMA HandlersKeep ==
    ASSUME Typed, Kept, (\E i \in CallIds : HandlerStep(i) \/ HandlerFault(i)) \/ ServerCrash
    PROVE  Kept'
  <1>1. Types
    BY DEF Typed
  <1>2. UNCHANGED <<pc, win, disk, lost, evicted>>
    BY DEF HandlerStep, HandlerFault, Admit, Spawn, DropHandler, Apply,
           PrepareFails, ApplyDrops, ApplyFails, ServerCrash, histories, capVars
  <1>3. ASSUME NEW b \in Batches,
               \/ Handled(b)
               \/ \E i \in CallIds : calls[i].batch = b /\ (Apply(i) \/ ApplyDrops(i))
        PROVE  Handled(b)'
    <2>1. ASSUME NEW i \in CallIds, Apply(i)
          PROVE  /\ calls[i].batch \in Batches /\ old' = old
                 /\ stored' = [stored EXCEPT ![calls[i].batch] = @ + 1]
      BY <2>1, HandlerMoves DEF Apply
    <2>2. ASSUME NEW i \in CallIds, ApplyDrops(i)
          PROVE  stored' = stored /\ old' = old \cup {calls[i].batch}
      BY <2>2 DEF ApplyDrops
    <2>3. CASE Handled(b)
      <3>1. \/ UNCHANGED <<stored, old>>
            \/ \E i \in CallIds : Apply(i) \/ ApplyDrops(i)
        BY DEF HandlerStep, HandlerFault, Admit, Spawn, DropHandler,
               PrepareFails, ApplyFails, ServerCrash
      <3>2. stored \in [Batches -> Nat]
        BY <1>1 DEF Types
      <3> QED BY <2>1, <2>2, <2>3, <3>1, <3>2 DEF Handled
    <2>4. ASSUME NEW i \in CallIds, calls[i].batch = b, Apply(i) \/ ApplyDrops(i)
          PROVE  Handled(b)'
      BY <1>1, <2>1, <2>2, <2>4 DEF Handled, Types
    <2> QED BY <1>3, <2>3, <2>4
  <1>4. AnswersTrue'
    <2> SUFFICES ASSUME NEW j \in CallIds, calls'[j].stage = "ok",
                        NEW b, b = calls'[j].batch
                 PROVE  Handled(b)'
      BY DEF AnswersTrue, Handled
    <2>1. NoCall.stage # "ok"
      BY DEF NoCall
    <2>2. ~ServerCrash
      BY <2>1 DEF ServerCrash
    <2>3. PICK i \in CallIds, s \in Stages :
             Moves(i, s) /\ (s = "ok" => Apply(i) \/ ApplyDrops(i))
      BY <2>2, HandlerMoves DEF HandlerStep, HandlerFault, Stages
    <2>4. /\ \A k \in CallIds : k # i => calls'[k] = calls[k]
          /\ calls'[i] # NoCall => /\ calls'[i].batch = calls[i].batch
                                   /\ calls'[i].stage = s
      BY <2>3, CallMoves
    <2>5. CASE j # i
      <3>1. calls[j].stage = "ok" /\ calls[j] \in Call /\ calls[j].batch = b
        BY <1>1, <2>1, <2>4, <2>5 DEF Types
      <3>2. b \in Batches
        BY <3>1, CallFields
      <3>3. Handled(b)
        BY <3>1 DEF Kept, AnswersTrue
      <3> QED BY <1>3, <3>2, <3>3
    <2>6. CASE j = i
      <3>1. calls[i].batch = b /\ (Apply(i) \/ ApplyDrops(i))
        BY <2>1, <2>3, <2>4, <2>6
      <3>2. b \in Batches
        BY <3>1, HandlerMoves
      <3> QED BY <1>3, <3>1, <3>2
    <2> QED BY <2>5, <2>6
  <1>5. ASSUME NEW c \in Collectors PROVE Accounted(c)'
    <2>1. Accounted(c) /\ win[c] \in 0 .. MaxWindows
      BY <1>1, LossByCollector DEF Kept, Types
    <2>2. \A w \in 1 .. win[c] : <<c, w>> \in Batches
      BY <2>1 DEF Batches, Windows
    <2>3. \A w \in 1 .. win[c] : Handled(<<c, w>>) => Handled(<<c, w>>)'
      BY <1>3, <2>2
    <2>4. \A w \in 1 .. win'[c] :
             \/ Handled(<<c, w>>)'
             \/ <<c, w>> \in lost' \cup evicted'
             \/ Readable(c, w)'
             \/ Fresh(c)' /\ w = win'[c]
      BY <1>2, <2>1, <2>3 DEF Accounted, Readable, Fresh
    <2> QED BY <2>4 DEF Accounted, Handled
  <1>6. NoSilentLoss'
    BY <1>5 DEF NoSilentLoss, Accounted, Handled
  <1> QED BY <1>4, <1>6 DEF Kept

---------------------------------------------------------------------------
\* No more attempts than causes, and one.

LEMMA PendingFinite ==
    ASSUME NEW b
    PROVE  /\ IsFiniteSet(Pending(b)) /\ Cardinality(Pending(b)) \in Nat
           /\ IsFiniteSet(Pending(b)') /\ Cardinality(Pending(b)') \in Nat
  <1>1. IsFiniteSet(CallIds)
    BY FS_Interval DEF CallIds
  <1>2. Pending(b) \in SUBSET CallIds /\ Pending(b)' \in SUBSET CallIds
    BY DEF Pending
  <1> QED BY <1>1, <1>2, FS_Subset, FS_CardinalityType

\* What a step makes of the attempts at a batch.
LEMMA PendingSame ==
    ASSUME NEW b, Pending(b)' = Pending(b), stored'[b] = stored[b]
    PROVE  Attempts(b)' = Attempts(b)
  BY DEF Attempts

LEMMA PendingFewer ==
    ASSUME NEW b, stored[b] \in Nat, stored'[b] = stored[b],
           Pending(b)' \subseteq Pending(b)
    PROVE  /\ Attempts(b)' <= Attempts(b)
           /\ \A i \in Pending(b) : i \notin Pending(b)' =>
                 Attempts(b)' + 1 <= Attempts(b)
  <1> DEFINE P == Pending(b)
             Q == Pending(b)'
  <1>1. /\ IsFiniteSet(P) /\ Cardinality(P) \in Nat
        /\ IsFiniteSet(Q) /\ Cardinality(Q) \in Nat
    BY PendingFinite
  <1>2. Attempts(b) = stored[b] + Cardinality(P)
        /\ Attempts(b)' = stored[b] + Cardinality(Q)
    BY DEF Attempts
  <1>3. Q \subseteq P
    OBVIOUS
  <1> HIDE DEF P, Q
  <1>4. Cardinality(Q) <= Cardinality(P)
    BY <1>1, <1>3, FS_Subset
  <1>5. ASSUME NEW i \in P, i \notin Q PROVE Cardinality(Q) + 1 <= Cardinality(P)
    <2>1. IsFiniteSet(P \ {i}) /\ Cardinality(P \ {i}) = Cardinality(P) - 1
      BY <1>1, <1>5, FS_RemoveElement
    <2>2. Q \in SUBSET (P \ {i})
      BY <1>3, <1>5
    <2>3. Cardinality(Q) <= Cardinality(P \ {i})
      BY <2>1, <2>2, FS_Subset
    <2> QED BY <1>1, <2>1, <2>3
  <1> QED BY <1>1, <1>2, <1>4, <1>5 DEF P, Q

LEMMA PendingLater ==
    ASSUME NEW b, stored[b] \in Nat, NEW i \in CallIds,
           \/ Pending(b)' = Pending(b) \cup {i} /\ stored'[b] = stored[b]
           \/ i \in Pending(b) /\ Pending(b)' = Pending(b) \ {i}
                /\ stored'[b] = stored[b] + 1
    PROVE  /\ i \in Pending(b) => Attempts(b)' = Attempts(b)
           /\ Attempts(b)' <= Attempts(b) + 1
  <1> DEFINE P == Pending(b)
             Q == Pending(b)'
  <1>1. IsFiniteSet(P) /\ Cardinality(P) \in Nat
    BY PendingFinite
  <1>2. /\ Cardinality(P \cup {i}) = IF i \in P THEN Cardinality(P) ELSE Cardinality(P) + 1
        /\ Cardinality(P \ {i}) = IF i \in P THEN Cardinality(P) - 1 ELSE Cardinality(P)
    BY <1>1, FS_AddElement, FS_RemoveElement
  <1>3. /\ Attempts(b) = stored[b] + Cardinality(P)
        /\ Attempts(b)' = stored'[b] + Cardinality(Q)
    BY DEF Attempts
  <1>4. \/ Q = P \cup {i} /\ stored'[b] = stored[b]
        \/ i \in P /\ Q = P \ {i} /\ stored'[b] = stored[b] + 1
    OBVIOUS
  <1>5. Q = P \cup {i} /\ i \in P => Q = P
    OBVIOUS
  <1> HIDE DEF P, Q
  <1>6. (i \in P => Attempts(b)' = Attempts(b)) /\ Attempts(b)' <= Attempts(b) + 1
    <2>1. CASE Q = P \cup {i} /\ stored'[b] = stored[b]
      <3>1. CASE i \in P
        BY <1>1, <1>3, <1>5, <2>1, <3>1
      <3>2. CASE i \notin P
        BY <1>1, <1>2, <1>3, <2>1, <3>2
      <3> QED BY <3>1, <3>2
    <2>2. CASE i \in P /\ Q = P \ {i} /\ stored'[b] = stored[b] + 1
      <3>1. Cardinality(Q) = Cardinality(P) - 1
        BY <1>2, <2>2
      <3>2. Attempts(b)' = Attempts(b)
        BY <1>1, <1>3, <2>2, <3>1
      <3>3. Attempts(b) \in Nat
        BY <1>1, <1>3
      <3> QED BY <3>2, <3>3
    <2> QED BY <1>4, <2>1, <2>2
  <1> QED BY <1>6 DEF P

CountedAt(c, w) ==
    /\ Attempts(<<c, w>>) <= Causes(<<c, w>>) + 1
    /\ Sendable(c, w) => Attempts(<<c, w>>) <= Causes(<<c, w>>)

LEMMA AttemptsTyped ==
    ASSUME Typed, NEW b \in Batches
    PROVE  stored[b] \in Nat /\ Causes(b) \in Nat /\ Attempts(b) \in Nat
  BY PendingFinite DEF Typed, Types, Attempts, Causes

LEMMA SameCauses ==
    ASSUME doubts' = doubts, leftovers' = leftovers
    PROVE  \A b : Causes(b)' = Causes(b)
  BY DEF Causes

LEMMA CollectorCounts ==
    ASSUME Typed, Counted, NEW c \in Collectors, OnlyOf(c), stored' = stored,
           \A d \in Collectors : d # c => win'[d] = win[d],
           \A d \in Collectors : d # c /\ waits[d] # None =>
               calls'[waits[d]] = calls[waits[d]],
           \A b \in Batches : Pending(b)' = Pending(b),
           \A d \in Collectors, w \in Windows : d # c =>
               Causes(<<d, w>>)' = Causes(<<d, w>>),
           \A w \in Windows :
              \/ Causes(<<c, w>>)' = Causes(<<c, w>>) + 1
              \/ Causes(<<c, w>>)' = Causes(<<c, w>>) /\ (Sendable(c, w)' => Sendable(c, w))
    PROVE  Counted'
  <1> SUFFICES ASSUME NEW d \in Collectors, NEW w \in Windows PROVE CountedAt(d, w)'
    BY DEF Counted, CountedAt
  <1>1. CountedAt(d, w)
    BY DEF Counted, CountedAt
  <1>2. <<d, w>> \in Batches
    BY DEF Batches
  <1>3. Attempts(<<d, w>>)' = Attempts(<<d, w>>)
    BY <1>2, PendingSame
  <1>4. Causes(<<d, w>>) \in Nat /\ Attempts(<<d, w>>) \in Nat
    BY <1>2, AttemptsTyped
  <1>5. CASE d # c
    <2>1. /\ pc'[d] = pc[d] /\ disk'[d] = disk[d] /\ todo'[d] = todo[d]
          /\ waits'[d] = waits[d] /\ win'[d] = win[d]
          /\ waits[d] # None => calls'[waits[d]] = calls[waits[d]]
      BY <1>5 DEF OnlyOf
    <2>2. Awaited(d, w)' <=> Awaited(d, w)
      BY <2>1 DEF Awaited, Posted, InHand, Fresh
    <2>3. Sendable(d, w)' <=> Sendable(d, w)
      BY <2>1, <2>2 DEF Sendable, Readable
    <2> QED BY <1>1, <1>3, <1>5, <2>3 DEF CountedAt
  <1>6. CASE d = c
    BY <1>1, <1>3, <1>4, <1>6 DEF CountedAt
  <1> QED BY <1>5, <1>6

LEMMA HandlerCounts ==
    ASSUME Typed, Counted, doubts' = doubts, leftovers' = leftovers,
           \A b \in Batches : Attempts(b)' \in Nat /\ Attempts(b)' <= Attempts(b),
           \A c \in Collectors, w \in Windows :
              \/ Sendable(c, w)' => Sendable(c, w)
              \/ Attempts(<<c, w>>)' + 1 <= Attempts(<<c, w>>)
    PROVE  Counted'
  <1> SUFFICES ASSUME NEW c \in Collectors, NEW w \in Windows PROVE CountedAt(c, w)'
    BY DEF Counted, CountedAt
  <1>1. CountedAt(c, w)
    BY DEF Counted, CountedAt
  <1>2. <<c, w>> \in Batches
    BY DEF Batches
  <1>3. /\ Causes(<<c, w>>) \in Nat /\ Attempts(<<c, w>>) \in Nat
        /\ Attempts(<<c, w>>)' \in Nat /\ Attempts(<<c, w>>)' <= Attempts(<<c, w>>)
        /\ Causes(<<c, w>>)' = Causes(<<c, w>>)
    BY <1>2, AttemptsTyped, SameCauses
  <1> QED BY <1>1, <1>3 DEF CountedAt

LEMMA OwnStepsCount ==
    ASSUME Typed, Directories, Counted, NEW c \in Collectors,
           \/ CloseWindow(c) \/ CloseLaterWindow(c) \/ FlushDone(c)
           \/ DropUnreadable(c) \/ SkipUnread(c)
    PROVE  Counted'
  <1>1. Types /\ Loop(c) /\ Directory(c)
    BY DEF Typed, Directories
  <1>2. /\ UNCHANGED <<stored, doubts, leftovers, calls, waits>>
        /\ pc[c] \in {"tick", "flush"}
    BY DEF CloseWindow, CloseLaterWindow, FlushDone, DropUnreadable, SkipUnread,
           serverVars, histories, causes
  <1>3. OnlyOf(c) /\ \A d \in Collectors : d # c => win'[d] = win[d]
    BY <1>1 DEF CloseWindow, CloseLaterWindow, FlushDone, DropUnreadable,
           SkipUnread, serverVars, histories, capVars, OnlyOf, Types
  <1>4. \A b \in Batches : Pending(b)' = Pending(b)
    BY <1>2 DEF Pending
  <1>5. waits[c] = None /\ \A w : ~Awaited(c, w)
    BY <1>1, <1>2 DEF Loop, Posted, Awaited
  <1>6. ASSUME NEW w \in Windows PROVE Sendable(c, w)' => Sendable(c, w)
    <2>1. CASE CloseWindow(c)
      <3>1. /\ win'[c] = win[c] + 1 /\ disk' = disk /\ win[c] \in Nat
        BY <1>1, <2>1 DEF CloseWindow, Types
      <3> QED BY <1>2, <1>5, <3>1 DEF Sendable, Readable, Windows
    <2>2. CASE ~CloseWindow(c)
      <3>1. win' = win /\ pc'[c] \in {"tick", "flush"}
        BY <1>1, <1>2, <2>2
           DEF CloseLaterWindow, FlushDone, DropUnreadable, SkipUnread, Types
      <3>2. Readable(c, w)' => Readable(c, w)
        <4>1. CASE disk' = disk
          BY <4>1 DEF Readable
        <4>2. CASE DropUnreadable(c)
          <5>1. /\ disk' = [disk EXCEPT ![c] = Without(@, Head(todo[c]))]
                /\ todo' = [todo EXCEPT ![c] = Tail(@)] /\ todo[c] # <<>>
            BY <4>2 DEF DropUnreadable
          <5>2. ToSet(disk'[c]) = ToSet(disk[c]) \ {Head(todo[c])}
            BY <1>1, <5>1, HeadRemoved
          <5> QED BY <5>2 DEF Readable
        <4> QED BY <2>2, <4>1, <4>2 DEF CloseLaterWindow, FlushDone, SkipUnread
      <3> QED BY <1>2, <1>5, <3>1, <3>2 DEF Sendable
    <2> QED BY <2>1, <2>2
  <1>7. \A d \in Collectors : d # c /\ waits[d] # None =>
           calls'[waits[d]] = calls[waits[d]]
    BY <1>2
  <1> QED BY <1>2, <1>3, <1>4, <1>6, <1>7, SameCauses, CollectorCounts

LEMMA BufferingCounts ==
    ASSUME Typed, Directories, Counted, NEW c \in Collectors,
           \/ EnforceCap(c) \/ ListFails(c) \/ Evict(c) \/ EvictFails(c)
           \/ WriteBuffer(c) \/ WriteFails(c)
    PROVE  Counted'
  <1>1. UNCHANGED <<win, stored, doubts, leftovers, calls>>
    BY DEF EnforceCap, ListFails, Evict, EvictFails, WriteBuffer, WriteFails,
           serverVars, histories, causes
  <1>2. /\ OnlyOf(c) /\ pc[c] \in {"failed", "cap"} /\ pc'[c] \in {"cap", "flush"}
        /\ \A w \in Windows : Readable(c, w)' => Readable(c, w) \/ w = win[c]
    BY BufferingStep
  <1>3. \A w : ~Awaited(c, w)
    BY <1>2 DEF Awaited, Posted
  <1>4. \A w : ~Awaited(c, w)'
    BY <1>2 DEF Awaited, Posted
  <1>5. \A w \in Windows : Sendable(c, w)' => Sendable(c, w)
    BY <1>1, <1>2, <1>3, <1>4 DEF Sendable
  <1>6. \A b \in Batches : Pending(b)' = Pending(b)
    BY <1>1 DEF Pending
  <1>7. /\ \A d \in Collectors : d # c => win'[d] = win[d]
        /\ \A d \in Collectors : d # c /\ waits[d] # None =>
              calls'[waits[d]] = calls[waits[d]]
    BY <1>1
  <1> QED BY <1>1, <1>2, <1>5, <1>6, <1>7, SameCauses, CollectorCounts

LEMMA SendCounts ==
    ASSUME Typed, Directories, Counted, NEW c \in Collectors,
           NEW i \in CallIds, Send(c, i)
    PROVE  Counted'
  <1>0. PICK h \in Windows : h = InHand(c)
    BY HandTyped DEF Send, ToSend, Fresh
  <1> DEFINE b == <<c, h>>
  <1>1. Types /\ Loop(c) /\ Directory(c)
    BY DEF Typed, Directories
  <1>2. /\ UNCHANGED <<win, disk, todo, stored, doubts, leftovers>>
        /\ calls' = [calls EXCEPT ![i] = [stage |-> "door", batch |-> b, live |-> TRUE]]
        /\ waits' = [waits EXCEPT ![c] = i] /\ calls[i] = NoCall
        /\ pc' = [pc EXCEPT ![c] = IF pc[c] = "post" THEN "posted" ELSE "reposted"]
        /\ pc[c] = "post" \/ (pc[c] = "flush" /\ todo[c] # <<>> /\ ~Head(todo[c]).torn)
    BY <1>0 DEF Send, ToSend, histories, causes
  <1>3. b \in Batches
    BY DEF Batches
  <1>4. /\ calls'[i].stage = "door" /\ calls'[i].batch = b /\ calls'[i] # NoCall
        /\ \A j \in CallIds : j # i => calls'[j] = calls[j]
    <2>1. NoCall.stage = "free"
      BY DEF NoCall
    <2> QED BY <1>1, <1>2, <2>1 DEF Types
  <1>5. Pending(b)' = Pending(b) \cup {i}
    <2>1. i \in Pending(b)'
      BY <1>4 DEF Pending
    <2>2. \A j \in CallIds : j # i => (j \in Pending(b)' <=> j \in Pending(b))
      BY <1>4 DEF Pending
    <2> QED BY <2>1, <2>2 DEF Pending
  <1>6. \A e \in Batches : e # b => Pending(e)' = Pending(e)
    BY <1>2, <1>4 DEF Pending
  <1>7. /\ pc'[c] \in {"posted", "reposted"} /\ (Fresh(c)' <=> Fresh(c))
        /\ waits'[c] = i /\ InHand(c)' = h /\ ~Posted(c)
    BY <1>0, <1>1, <1>2 DEF Types, Fresh, InHand, Posted
  <1>8. h <= win[c]
    <2>1. CASE pc[c] = "post"
      BY <1>0, <1>1, <2>1 DEF InHand, Fresh, Loop, Windows
    <2>2. CASE pc[c] = "flush"
      <3>1. todo[c] \in Seq(Files) /\ todo[c] # <<>> /\ Ordered(todo[c])
        BY <1>1, <1>2, <2>2 DEF Types, Directory
      <3>2. Head(todo[c]) \in ToSet(disk[c])
        BY <1>1, <3>1, TailFiles DEF Directory
      <3> QED BY <1>0, <1>1, <2>2, <3>2 DEF Directory, InHand, Fresh
    <2> QED BY <1>2, <2>1, <2>2
  <1>9. Sendable(c, h)
    <2>1. CASE pc[c] = "post"
      BY <1>0, <2>1 DEF Sendable, InHand, Fresh
    <2>2. CASE pc[c] = "flush"
      <3>1. todo[c] \in Seq(Files) /\ todo[c] # <<>> /\ Ordered(todo[c])
        BY <1>1, <1>2, <2>2 DEF Types, Directory
      <3>2. Head(todo[c]) \in ToSet(disk[c]) /\ Head(todo[c]) \in Files
        BY <1>1, <3>1, TailFiles DEF Directory
      <3>3. Head(todo[c]) = File(Head(todo[c]).window)
        BY <1>2, <2>2, <3>2 DEF File, Files
      <3>4. h = Head(todo[c]).window
        BY <1>0, <2>2 DEF InHand, Fresh
      <3> QED BY <1>7, <3>2, <3>3, <3>4 DEF Sendable, Readable, Awaited
    <2> QED BY <1>2, <2>1, <2>2
  <1>10. ASSUME NEW d \in Collectors, NEW w \in Windows PROVE CountedAt(d, w)'
    <2>1. CountedAt(d, w) /\ <<d, w>> \in Batches
      BY DEF Counted, CountedAt, Batches
    <2>2. /\ Causes(<<d, w>>) \in Nat /\ Attempts(<<d, w>>) \in Nat
          /\ Causes(<<d, w>>)' = Causes(<<d, w>>)
      BY <1>2, <2>1, AttemptsTyped, SameCauses
    <2>3. CASE d = c /\ w = h
      <3>1. Attempts(b) <= Causes(b) /\ stored[b] \in Nat /\ stored'[b] = stored[b]
        BY <1>2, <1>3, <1>9, <2>1, <2>3, AttemptsTyped DEF CountedAt
      <3>2. Attempts(b)' <= Attempts(b) + 1
        BY <1>5, <3>1, PendingLater
      <3>3. ~Sendable(c, h)'
        <4>1. Awaited(c, h)'
          BY <1>7 DEF Awaited, Posted
        <4>2. ~(h > win[c])
          BY <1>1, <1>3, <1>8 DEF Types, Windows
        <4> QED BY <1>2, <1>4, <1>7, <4>1, <4>2 DEF Sendable
      <3>4. Attempts(b)' \in Nat
        BY <1>2, <3>1, PendingFinite DEF Attempts
      <3> QED BY <1>2, <1>7, <2>2, <2>3, <3>1, <3>2, <3>3, <3>4 DEF CountedAt
    <2>4. CASE ~(d = c /\ w = h)
      <3>1. <<d, w>> # b
        BY <2>4
      <3>2. Attempts(<<d, w>>)' = Attempts(<<d, w>>)
        BY <1>2, <1>6, <2>1, <3>1, PendingSame
      <3>3. Sendable(d, w)' => Sendable(d, w)
        <4>1. CASE d = c
          BY <1>0, <1>2, <1>7, <2>4, <4>1 DEF Sendable, Readable, Awaited
        <4>2. CASE d # c
          <5>1. pc'[d] = pc[d] /\ waits'[d] = waits[d]
            BY <1>1, <1>2, <4>2 DEF Types
          <5>2. waits[d] # None => calls[waits[d]] # NoCall /\ waits[d] \in CallIds
            BY <1>1 DEF Typed, Loop, Types
          <5>3. waits[d] # None => calls'[waits[d]] = calls[waits[d]]
            BY <1>2, <1>4, <5>2
          <5>4. Awaited(d, w)' <=> Awaited(d, w)
            BY <1>2, <5>1 DEF Awaited, Posted, InHand, Fresh
          <5> QED BY <1>2, <5>1, <5>3, <5>4 DEF Sendable, Readable
        <4> QED BY <4>1, <4>2
      <3> QED BY <2>1, <2>2, <3>2, <3>3 DEF CountedAt
    <2> QED BY <2>3, <2>4
  <1> QED BY <1>10 DEF Counted, CountedAt

LEMMA OutcomesCount ==
    ASSUME Typed, Directories, Counted, NEW c \in Collectors,
           \/ Answered(c) \/ ConnectionReset(c) \/ Refused(c) \/ TimedOut(c)
           \/ RemoveFails(c) \/ CollectorCrash(c)
    PROVE  Counted'
  <1>1. Types /\ Loop(c) /\ Directory(c)
    BY DEF Typed, Directories
  <1>2. UNCHANGED <<win, stored, evicted, stuck, hitches>>
    BY DEF Answered, ConnectionReset, Refused, TimedOut, RemoveFails,
           CollectorCrash, serverVars, histories, capVars
  <1>3. /\ \A d \in Collectors : d # c => win'[d] = win[d]
        /\ \A d \in Collectors : d # c /\ waits[d] # None =>
              calls'[waits[d]] = calls[waits[d]]
        /\ \A b \in Batches : Pending(b)' = Pending(b)
    <2>1. CASE calls' = calls
      BY <1>2, <2>1 DEF Pending
    <2>2. CASE waits[c] # None /\ HangUp(c)
      BY <1>2, <2>2, CallsHungUp DEF Pending
    <2>3. CASE waits[c] # None /\ Forget(waits[c]) /\ calls[waits[c]].stage \in {"ok", "err"}
      <3>1. /\ \A i \in CallIds : i # waits[c] => calls'[i] = calls[i]
            /\ calls'[waits[c]] = NoCall
        BY <2>3, CallsForgotten
      <3>2. \A b \in Batches : Pending(b)' = Pending(b)
        BY <2>3, <3>1 DEF Pending
      <3> QED BY <1>2, <2>3, <3>2, CallsForgotten
    <2> QED BY <2>1, <2>2, <2>3
            DEF Answered, ConnectionReset, Refused, TimedOut, RemoveFails,
                CollectorCrash, Abandon, serverVars
  <1>4. ASSUME PostFailed(c), disk' = disk
        PROVE  /\ OnlyOf(c)
               /\ \A w \in Windows : Sendable(c, w)' =>
                     Sendable(c, w) \/ (Awaited(c, w) /\ w = InHand(c))
    <2>1. /\ OnlyOf(c) /\ pc'[c] \in {"tick", "failed"}
          /\ pc'[c] = "failed" => Fresh(c)
      BY <1>2, <1>4, PostFailedStep
    <2>2. ASSUME NEW w \in Windows, Sendable(c, w)'
          PROVE  w > win[c] \/ Readable(c, w) \/ (Fresh(c) /\ w = win[c])
      BY <1>2, <1>4, <2>1, <2>2 DEF Sendable, Readable, Awaited, Posted
    <2>3. ASSUME NEW w \in Windows, Fresh(c), w = win[c]
          PROVE  Sendable(c, w) \/ (Awaited(c, w) /\ w = InHand(c))
      BY <2>3 DEF Fresh, InHand, Posted, Sendable, Awaited
    <2>4. ASSUME NEW w \in Windows, Readable(c, w)
          PROVE  Sendable(c, w) \/ (Awaited(c, w) /\ w = InHand(c))
      BY <2>4 DEF Sendable, Awaited
    <2> QED BY <2>1, <2>2, <2>3, <2>4 DEF Sendable
  <1>5. ASSUME pc'[c] \in {"tick", "flush"}, NEW w \in Windows, Sendable(c, w)'
        PROVE  w > win[c] \/ Readable(c, w)'
    BY <1>2, <1>5 DEF Sendable, Awaited, Posted
  <1>6. ASSUME OnlyOf(c), doubts' = doubts, leftovers' = leftovers,
               \A w \in Windows : Sendable(c, w)' => Sendable(c, w)
        PROVE  Counted'
    BY <1>2, <1>3, <1>6, SameCauses, CollectorCounts
  <1>7. CASE Answered(c)
    <2>1. waits[c] # None /\ doubts' = doubts /\ leftovers' = leftovers /\ Posted(c)
      BY <1>1, <1>7 DEF Answered, Loop, histories, causes
    <2>2. CASE PostFailed(c) /\ disk' = disk /\ calls[waits[c]].stage = "err"
      <3>1. \A w \in Windows : Awaited(c, w) => Sendable(c, w)
        BY <2>1, <2>2 DEF Sendable
      <3> QED BY <1>4, <1>6, <2>1, <2>2, <3>1
    <2>3. CASE PostSucceeded(c)
      <3>1. /\ OnlyOf(c) /\ pc'[c] = "flush"
            /\ \A w \in Windows : Readable(c, w)' => Readable(c, w) /\ w # InHand(c)
        BY <1>2, <2>1, <2>3, PostSucceededStep
      <3>2. ASSUME NEW w \in Windows, Sendable(c, w)' PROVE Sendable(c, w)
        BY <1>5, <3>1, <3>2 DEF Sendable, Awaited
      <3> QED BY <1>6, <2>1, <3>1, <3>2
    <2> QED BY <1>7, <2>2, <2>3 DEF Answered
  <1>8. CASE Refused(c)
    <2>1. /\ doubts' = doubts /\ leftovers' = leftovers
          /\ PostFailed(c) /\ disk' = disk /\ ~Posted(c)
      BY <1>8 DEF Refused, ToSend, Posted, histories, causes
    <2>2. \A w \in Windows : Sendable(c, w)' => Sendable(c, w)
      BY <1>4, <2>1 DEF Awaited
    <2> QED BY <1>4, <1>6, <2>1, <2>2
  <1>9. ASSUME OnlyOf(c), Posted(c),
               \/ Doubt(c) /\ leftovers' = leftovers
               \/ /\ leftovers' = [leftovers EXCEPT ![<<c, InHand(c)>>] = @ + 1]
                  /\ doubts' = doubts,
               \A w \in Windows : Sendable(c, w)' => Sendable(c, w) \/ w = InHand(c)
        PROVE  Counted'
    <2>1. PICK h \in Batches : h = <<c, InHand(c)>>
      <3>1. Fresh(c) \/ todo[c] # <<>>
        BY <1>1, <1>9 DEF Posted, Fresh, Loop
      <3> QED BY <3>1, HandTyped
    <2>2. /\ doubts \in [Batches -> Nat] /\ leftovers \in [Batches -> Nat]
      BY <1>1 DEF Types
    <2>3. /\ Causes(h)' = Causes(h) + 1
          /\ \A b \in Batches : b # h => Causes(b)' = Causes(b)
      <3>1. CASE Doubt(c) /\ leftovers' = leftovers
        <4>1. doubts' = [doubts EXCEPT ![h] = @ + 1]
          BY <2>1, <3>1 DEF Doubt
        <4> QED BY <2>1, <2>2, <3>1, <4>1 DEF Causes
      <3>2. CASE /\ leftovers' = [leftovers EXCEPT ![<<c, InHand(c)>>] = @ + 1]
                 /\ doubts' = doubts
        <4>1. leftovers' = [leftovers EXCEPT ![h] = @ + 1]
          BY <2>1, <3>2
        <4> QED BY <2>1, <2>2, <3>2, <4>1 DEF Causes
      <3> QED BY <1>9, <3>1, <3>2
    <2>4. \A d \in Collectors, w \in Windows : d # c =>
              Causes(<<d, w>>)' = Causes(<<d, w>>)
      BY <2>1, <2>3 DEF Batches
    <2>5. \A w \in Windows :
            \/ Causes(<<c, w>>)' = Causes(<<c, w>>) + 1
            \/ Causes(<<c, w>>)' = Causes(<<c, w>>) /\ (Sendable(c, w)' => Sendable(c, w))
      BY <1>9, <2>1, <2>3 DEF Batches
    <2> QED BY <1>2, <1>3, <1>9, <2>4, <2>5, CollectorCounts
  <1>10. CASE TimedOut(c) \/ ConnectionReset(c)
    <2>1. /\ PostFailed(c) /\ disk' = disk /\ Doubt(c) /\ leftovers' = leftovers
          /\ Posted(c)
      BY <1>1, <1>10 DEF TimedOut, ConnectionReset, Loop, Posted
    <2> QED BY <1>4, <1>9, <2>1
  <1>11. CASE RemoveFails(c) \/ CollectorCrash(c)
    <2>1. /\ waits' = [waits EXCEPT ![c] = None] /\ disk' = disk
          /\ pc' = [pc EXCEPT ![c] = "tick"] \/ pc' = [pc EXCEPT ![c] = "flush"]
          /\ \/ todo' = [todo EXCEPT ![c] = <<>>]
             \/ todo' = [todo EXCEPT ![c] = Tail(todo[c])]
      BY <1>11 DEF RemoveFails, CollectorCrash, StartFlush, EndFlush, Abandon
    <2>2. OnlyOf(c) /\ pc'[c] \in {"tick", "flush"}
      BY <1>1, <1>2, <2>1 DEF OnlyOf, Types
    <2>3. ASSUME NEW w \in Windows, Sendable(c, w)'
          PROVE  Sendable(c, w) \/ (Posted(c) /\ w = InHand(c))
      <3>1. w > win[c] \/ Readable(c, w)
        BY <1>5, <2>1, <2>2, <2>3 DEF Readable
      <3> QED BY <3>1 DEF Sendable, Awaited
    <2>4. CASE Posted(c)
      <3>1. \/ Doubt(c) /\ leftovers' = leftovers
            \/ /\ leftovers' = [leftovers EXCEPT ![<<c, InHand(c)>>] = @ + 1]
               /\ doubts' = doubts
        BY <1>11, <2>4 DEF RemoveFails, CollectorCrash, Abandon, Posted
      <3> QED BY <1>9, <2>2, <2>3, <2>4, <3>1
    <2>5. CASE ~Posted(c)
      <3>1. doubts' = doubts /\ leftovers' = leftovers
        BY <1>11, <2>5 DEF RemoveFails, CollectorCrash, Abandon, Posted
      <3> QED BY <1>6, <2>2, <2>3, <2>5, <3>1
    <2> QED BY <2>4, <2>5
  <1> QED BY <1>7, <1>8, <1>10, <1>11

\* A handler that has not ended is pending, and none starts over.
LEMMA PendingMoves ==
    ASSUME Typed, NEW i \in CallIds, HandlerStep(i) \/ HandlerFault(i)
    PROVE  \E s \in Stages :
              /\ Moves(i, s)
              /\ s = "err" => ~Apply(i) /\ calls[i].stage \in {"prepare", "queued", "detached"}
              /\ Apply(i) => s = "ok"
              /\ calls[i].stage \in {"ok", "err"} => s = "detached" /\ Forget(i)
  <1>1. CASE Admit(i)
    <2>1. ~Apply(i)
      BY <1>1 DEF Admit, Apply, Runs
    <2> QED BY <1>1, <2>1, HandlerMoves DEF Admit, Stages
  <1>2. CASE Spawn(i)
    <2>1. ~Apply(i)
      BY <1>2 DEF Spawn, Apply, Runs
    <2> QED BY <1>2, <2>1, HandlerMoves DEF Spawn, Stages
  <1>3. CASE PrepareFails(i)
    <2>1. ~Apply(i)
      BY <1>3 DEF PrepareFails, Apply, Runs
    <2> QED BY <1>3, <2>1, HandlerMoves DEF PrepareFails, Stages
  <1>4. CASE Apply(i)
    BY <1>4, HandlerMoves DEF Apply, Runs, Stages
  <1>5. ASSUME ApplyDrops(i) \/ ApplyFails(i) PROVE ~Apply(i)
    <2>1. calls[i] \in Call
      BY <1>5 DEF ApplyDrops, ApplyFails, Runs, NoCall, Typed, Types
    <2>2. calls[i].batch \in Batches
      BY <2>1, CallFields
    <2> QED BY <1>5, <2>2 DEF ApplyDrops, ApplyFails, Apply, Typed, Types
  <1>6. CASE ApplyDrops(i)
    BY <1>5, <1>6, HandlerMoves DEF ApplyDrops, Runs, Stages
  <1>7. CASE ApplyFails(i)
    BY <1>5, <1>7, HandlerMoves DEF ApplyFails, Runs, Stages
  <1>8. CASE DropHandler(i)
    <2>1. ~Apply(i)
      <3>1. calls[i] \in Call
        BY <1>8 DEF DropHandler, Typed, Types
      <3>2. calls[i].batch \in Batches
        BY <3>1, CallFields
      <3> QED BY <1>8, <3>2 DEF DropHandler, Apply, Typed, Types
    <2> QED BY <1>8, <2>1, HandlerMoves DEF DropHandler, Stages
  <1> QED BY <1>1, <1>2, <1>3, <1>4, <1>6, <1>7, <1>8 DEF HandlerStep, HandlerFault

LEMMA HandlersCount ==
    ASSUME Typed, Counted, NEW i \in CallIds, HandlerStep(i) \/ HandlerFault(i)
    PROVE  Counted'
  <1>1. Types
    BY DEF Typed
  <1>2. UNCHANGED <<pc, win, disk, todo, waits, doubts, leftovers>>
    BY DEF HandlerStep, HandlerFault, Admit, Spawn, DropHandler, Apply,
           PrepareFails, ApplyDrops, ApplyFails, histories, causes
  <1>3. PICK s \in Stages :
          /\ Moves(i, s)
          /\ s = "err" => ~Apply(i) /\ calls[i].stage \in {"prepare", "queued", "detached"}
          /\ Apply(i) => s = "ok"
          /\ calls[i].stage \in {"ok", "err"} => s = "detached" /\ Forget(i)
    BY PendingMoves
  <1>4. /\ \A j \in CallIds : j # i => calls'[j] = calls[j]
        /\ calls'[i] # NoCall => calls'[i].batch = calls[i].batch /\ calls'[i].stage = s
        /\ calls[i] # NoCall
    BY <1>3, CallMoves DEF Moves
  <1>5. \A b : Pending(b)' \subseteq Pending(b)
    <2> SUFFICES ASSUME NEW b, i \in Pending(b)' PROVE i \in Pending(b)
      BY <1>4 DEF Pending
    <2>1. calls'[i] # NoCall /\ calls'[i].batch = b
      BY DEF Pending
    <2>2. calls[i].stage \notin {"ok", "err"}
      BY <1>1, <1>3, <2>1, ForgetStep DEF Types
    <2>3. calls[i] \in Call
      BY <1>1, <1>4 DEF Types
    <2>4. calls[i].stage \in {"door", "prepare", "queued", "detached"}
      BY <2>2, <2>3, CallFields DEF Stages
    <2> QED BY <1>4, <2>1, <2>4 DEF Pending
  <1>6. ASSUME NEW c \in Collectors, NEW w \in Windows, Sendable(c, w)', ~Sendable(c, w)
        PROVE  /\ i \in Pending(<<c, w>>) /\ i \notin Pending(<<c, w>>)'
               /\ ~Apply(i)
    <2>1. Awaited(c, w)' <=> Awaited(c, w)
      BY <1>2 DEF Awaited, Posted, InHand, Fresh
    <2>2. /\ Awaited(c, w) /\ waits[c] # None
          /\ calls'[waits[c]].stage = "err" /\ calls[waits[c]].stage # "err"
      BY <1>2, <1>6, <2>1 DEF Sendable, Readable
    <2>3. waits[c] = i
      BY <1>1, <1>4, <2>2 DEF Types
    <2>4. calls'[i] # NoCall
      BY <2>2, <2>3 DEF NoCall
    <2>5. s = "err" /\ calls[i].batch = <<c, w>>
      BY <1>4, <2>2, <2>3, <2>4 DEF Typed, Loop, Awaited
    <2> QED BY <1>3, <1>4, <2>2, <2>3, <2>5 DEF Pending
  <1>7. CASE ~Apply(i)
    <2>1. stored' = stored
      BY <1>7 DEF HandlerStep, HandlerFault, Admit, Spawn, DropHandler,
                  PrepareFails, ApplyDrops, ApplyFails
    <2>2. \A b \in Batches : Attempts(b)' \in Nat /\ Attempts(b)' <= Attempts(b)
      BY <1>1, <1>5, <2>1, PendingFewer, PendingFinite DEF Attempts, Types
    <2>3. \A c \in Collectors, w \in Windows :
             \/ Sendable(c, w)' => Sendable(c, w)
             \/ Attempts(<<c, w>>)' + 1 <= Attempts(<<c, w>>)
      <3> TAKE c \in Collectors, w \in Windows
      <3>1. stored[<<c, w>>] \in Nat
        BY <1>1 DEF Types, Batches
      <3> QED BY <1>5, <1>6, <2>1, <3>1, PendingFewer
    <2> QED BY <1>2, <2>2, <2>3, HandlerCounts
  <1>8. CASE Apply(i)
    <2>1. PICK e \in Batches : e = calls[i].batch
      BY <1>8, HandlerMoves
    <2>2. stored'[e] = stored[e] + 1 /\ \A b \in Batches : b # e => stored'[b] = stored[b]
      BY <1>1, <1>8, <2>1 DEF Apply, Types
    <2>3. i \in Pending(e) /\ Pending(e)' = Pending(e) \ {i}
      <3>1. i \in Pending(e)
        BY <1>4, <1>8, <2>1 DEF Pending, Apply, Runs
      <3>2. i \notin Pending(e)'
        BY <1>3, <1>4, <1>8 DEF Pending
      <3>3. \A j \in CallIds : j # i => (j \in Pending(e)' <=> j \in Pending(e))
        BY <1>4 DEF Pending
      <3> QED BY <1>5, <3>1, <3>2, <3>3 DEF Pending
    <2>4. \A b \in Batches : b # e => Pending(b)' = Pending(b)
      <3> TAKE b \in Batches
      <3>1. b # e => i \notin Pending(b) /\ i \notin Pending(b)'
        BY <1>5, <2>1 DEF Pending
      <3>2. \A j \in CallIds : j # i => (j \in Pending(b)' <=> j \in Pending(b))
        BY <1>4 DEF Pending
      <3> QED BY <3>1, <3>2 DEF Pending
    <2>5. \A b \in Batches : Attempts(b)' = Attempts(b)
      <3> TAKE b \in Batches
      <3>1. stored[b] \in Nat
        BY <1>1 DEF Types
      <3>2. CASE b = e
        BY <2>2, <2>3, <3>1, <3>2, PendingLater
      <3>3. CASE b # e
        BY <2>2, <2>4, <3>3, PendingSame
      <3> QED BY <3>2, <3>3
    <2>6. \A b \in Batches : Attempts(b) \in Nat
      BY AttemptsTyped
    <2>7. \A b \in Batches : Attempts(b)' \in Nat /\ Attempts(b)' <= Attempts(b)
      BY <2>5, <2>6
    <2> QED BY <1>2, <1>6, <1>8, <2>7, HandlerCounts
  <1> QED BY <1>7, <1>8

LEMMA CrashCounts ==
    ASSUME Typed, Counted, ServerCrash
    PROVE  Counted'
  <1>1. /\ UNCHANGED <<pc, win, disk, todo, stored, doubts, leftovers>>
        /\ calls' = [i \in CallIds |-> NoCall] /\ waits' = [c \in Collectors |-> None]
    BY DEF ServerCrash, histories, causes
  <1>2. \A b : Pending(b)' \subseteq Pending(b)
    BY <1>1 DEF Pending
  <1>3. \A b \in Batches : Attempts(b)' \in Nat /\ Attempts(b)' <= Attempts(b)
    BY <1>1, <1>2, PendingFewer, PendingFinite DEF Attempts, Typed, Types
  <1>4. ASSUME NEW c \in Collectors, NEW w \in Windows, Sendable(c, w)'
        PROVE  Sendable(c, w)
    <2>1. Awaited(c, w)' <=> Awaited(c, w)
      BY <1>1 DEF Awaited, Posted, InHand, Fresh
    <2> QED BY <1>1, <1>4, <2>1 DEF Sendable, Readable
  <1> QED BY <1>1, <1>3, <1>4, HandlerCounts

---------------------------------------------------------------------------
\* The invariant.

LEMMA Initially == Init => IInv
  <1> SUFFICES ASSUME Init PROVE IInv
    OBVIOUS
  <1>1. AnswersTrue
    BY DEF Init, AnswersTrue, NoCall
  <1>2. NoSilentLoss
    BY DEF Init, NoSilentLoss
  <1>3. Counted
    <2> SUFFICES ASSUME NEW c \in Collectors, NEW w \in Windows PROVE CountedAt(c, w)
      BY DEF Counted, CountedAt
    <2>1. Pending(<<c, w>>) = {}
      BY DEF Init, Pending
    <2>2. stored[<<c, w>>] = 0 /\ Causes(<<c, w>>) = 0
      BY DEF Init, Batches, Causes
    <2>3. Attempts(<<c, w>>) = 0
      BY <2>1, <2>2, FS_EmptySet DEF Attempts
    <2> QED BY <2>2, <2>3 DEF CountedAt
  <1> QED BY <1>1, <1>2, <1>3, BasicInit DEF IInv

LEMMA Inductive == IInv /\ [Next]_vars => IInv'
  <1> SUFFICES ASSUME IInv, [Next]_vars PROVE IInv'
    OBVIOUS
  <1>1. Typed /\ Directories /\ Kept /\ Counted
    BY DEF IInv, Kept
  <1>2. Typed' /\ Directories'
    BY <1>1, BasicStep
  <1>3. ASSUME NEW c \in Collectors, CollectorStep(c) \/ CollectorFault(c)
        PROVE  Kept' /\ Counted'
    BY <1>1, <1>2, <1>3, OwnStepsKeep, OutcomesKeep, BufferingKeeps, OwnStepsCount,
       SendCounts, OutcomesCount, BufferingCounts DEF CollectorStep, CollectorFault
  <1>4. ASSUME NEW i \in CallIds, HandlerStep(i) \/ HandlerFault(i)
        PROVE  Kept' /\ Counted'
    BY <1>1, <1>4, HandlersKeep, HandlersCount
  <1>5. ASSUME ServerCrash PROVE Kept' /\ Counted'
    BY <1>1, <1>5, HandlersKeep, CrashCounts
  <1>6. ASSUME Outage \/ Recovers \/ UNCHANGED vars PROVE Kept' /\ Counted'
    <2>1. UNCHANGED <<pc, win, disk, todo, waits, calls, stored, old, lost,
                      evicted, stuck, hitches, doubts, leftovers>>
      BY <1>6, Elsewhere
    <2>2. Kept'
      BY <1>1, <2>1 DEF Kept, AnswersTrue, Handled, NoSilentLoss, Readable, Fresh
    <2>3. Counted'
      <3>1. \A b : Pending(b)' = Pending(b)
        BY <2>1 DEF Pending
      <3>2. \A b : Attempts(b)' = Attempts(b)
        BY <2>1, <3>1 DEF Attempts
      <3>3. \A c \in Collectors, w \in Windows : Sendable(c, w)' <=> Sendable(c, w)
        BY <2>1 DEF Sendable, Readable, Awaited, Posted, InHand, Fresh
      <3>4. \A b : Causes(b)' = Causes(b)
        BY <2>1, SameCauses
      <3> QED BY <1>1, <3>2, <3>3, <3>4 DEF Counted
    <2> QED BY <2>2, <2>3
  <1>7. Kept' /\ Counted'
    BY <1>3, <1>4, <1>5, <1>6 DEF Next
  <1> QED BY <1>2, <1>7 DEF IInv, Kept

LEMMA Promised ==
    IInv => /\ TypeOK /\ BufferBounded /\ OldestDroppedFirst
            /\ NoSilentLoss /\ RepeatedOnlyWithCause
  <1> SUFFICES ASSUME IInv
               PROVE  /\ TypeOK /\ BufferBounded /\ OldestDroppedFirst
                      /\ NoSilentLoss /\ RepeatedOnlyWithCause
    OBVIOUS
  <1>1. Typed /\ Types /\ Directories /\ NoSilentLoss /\ Counted
    BY DEF IInv, Typed
  <1>2. TypeOK
    <2>1. \A c \in Collectors : waits[c] # None =>
             /\ calls[waits[c]] # NoCall /\ calls[waits[c]].live
             /\ calls[waits[c]].batch = <<c, InHand(c)>>
      BY <1>1 DEF Typed, Loop
    <2>2. /\ {old, lost, evicted, stuck} \subseteq SUBSET Batches
          /\ {stored, doubts, leftovers} \subseteq [Batches -> Nat]
      BY <1>1 DEF Types
    <2> QED BY <1>1, <2>1, <2>2 DEF TypeOK, Types
  <1>3. BufferBounded
    BY <1>1 DEF BufferBounded, Directories, Directory
  <1>4. OldestDroppedFirst
    <2> SUFFICES ASSUME NEW c \in Collectors
                 PROVE  /\ \A i, j \in DOMAIN disk[c] :
                              i < j => disk[c][i].window < disk[c][j].window
                        /\ \A w \in Windows : <<c, w>> \in evicted =>
                              \A v \in WindowsOf(disk[c]) :
                                 v > w \/ <<c, v>> \in stuck
      BY DEF OldestDroppedFirst
    <2>1. Directory(c) /\ disk[c] \in Seq(Files)
      BY <1>1 DEF Directories, Types
    <2>2. \A v : v \in WindowsOf(disk[c]) <=> \E f \in ToSet(disk[c]) : f.window = v
      BY <2>1, WindowsOfFiles
    <2> QED BY <2>1, <2>2 DEF Directory, Ordered
  <1>5. RepeatedOnlyWithCause
    <2> SUFFICES ASSUME NEW c \in Collectors, NEW w \in Windows
                 PROVE  stored[<<c, w>>] <= 1 + doubts[<<c, w>>] + leftovers[<<c, w>>]
      BY DEF RepeatedOnlyWithCause, Batches
    <2>1. <<c, w>> \in Batches
      BY DEF Batches
    <2>2. stored[<<c, w>>] + Cardinality(Pending(<<c, w>>)) <= Causes(<<c, w>>) + 1
      BY <1>1 DEF Counted, Attempts
    <2>3. /\ stored[<<c, w>>] \in Nat /\ doubts[<<c, w>>] \in Nat
          /\ leftovers[<<c, w>>] \in Nat
          /\ Cardinality(Pending(<<c, w>>)) \in Nat
      BY <1>1, <2>1, PendingFinite DEF Types
    <2> QED BY <2>2, <2>3 DEF Causes
  <1> QED BY <1>1, <1>2, <1>3, <1>4, <1>5

\* The invariant holds throughout: the four layers above.
THEOREM Safety == Spec => []IInv
  <1> QED BY Initially, Inductive, PTL DEF Spec

\* Whatever handlers, answers and restarts do, every variable stays in its
\* range, and the call a collector awaits is its own, alive at the server and
\* about the window in its hand (send_or_buffer, flush_buffer, ingest_rollups).
THEOREM TypeCorrect == Spec => []TypeOK
  <1> QED BY Safety, Promised, PTL

\* BUFFER_CAP_BYTES, checked before a file is added, is exceeded by that file
\* and by one more at most for each error of the check since it last did its
\* work (buffer_write, enforce_cap).
THEOREM Bounded == Spec => []BufferBounded
  <1> QED BY Safety, Promised, PTL

\* enforce_cap drops the oldest: nothing older than a dropped window is left
\* but what it tried to remove and could not, and the directory is in order of
\* time.
THEOREM OldestGoesFirst == Spec => []OldestDroppedFirst
  <1> QED BY Safety, Promised, PTL

\* A closed window is committed, answered as too old, on disk or in hand, or
\* was lost in a way the code names (run, send_or_buffer, flush_buffer).
THEOREM NothingLost == Spec => []NoSilentLoss
  <1> QED BY Safety, Promised, PTL

\* A batch is committed again only behind an attempt that ended without its
\* answer, or an answered one whose file could not be removed, and once at
\* most for each (post_batch, flush_buffer, ingest_rollups).
THEOREM AtMostOncePerCause == Spec => []RepeatedOnlyWithCause
  <1> QED BY Safety, Promised, PTL
=============================================================================
