-------------------------- MODULE PlayerLoadsProofs --------------------------
(***************************************************************************)
(* Load attempts, mpv's entries and the adapter's projection agree for any *)
(* number of attempts, entries, ticks and troubles, in any order of mpv's  *)
(* events, its answers and the adapter's reads.                            *)
(*                                                                         *)
(* The inductive invariant PlayerInv relates the reducer to what mpv has   *)
(* said and is about to say:                                               *)
(*   QueueOK  mpv's events are in order, entries only grow, and the last   *)
(*            start that the adapter knows of has not ended (Heard);       *)
(*   OwnOK    no entry is owned before mpv has made it, none younger than  *)
(*            an event that is still to be handled, so neither a start nor *)
(*            a load takes the transport from an owner (StartIsFree,       *)
(*            LoadIsFree), and observations are only kept for entries that *)
(*            nobody owns (LateOK);                                        *)
(*   ShownOK  what the adapter shows is not quiescent and not shown as     *)
(*            loaded before mpv has loaded its entry or a later one, and   *)
(*            is what a file-loaded without a known start is about;        *)
(*   RestOK   the reducer's own invariant, one load in flight, batches of  *)
(*            finished attempts, completed loads that mpv has loaded;      *)
(*   FlagsOK  reconciliation is wanted when there is a reason, and what    *)
(*            the adapter shows is right when none is.                     *)
(* Each action keeps it by the lemma named after the action.               *)
(***************************************************************************)
EXTENDS PlayerReducerProofs

-----------------------------------------------------------------------------
(* mpv, its events and what the adapter has heard of them. *)

Made(m) == Len(m.target)

MachineOK(m) ==
  /\ m.list \in {None, Made(m)} /\ m.current \in {None, m.list}
  /\ m.playing <= Made(m) /\ (m.loaded => m.playing # None)

\* Entries only grow, and with every start-file.
Sorted(q) ==
  \A i, j \in 1 .. Len(q) : i < j =>
     /\ q[i].entry <= q[j].entry
     /\ q[j].kind = "start" => q[i].entry < q[j].entry

Opens == {"start", "loaded", "restart"}

\* The events of an entry that mpv has loaded.
Shows == {"loaded", "restart"}

\* start-file, file-loaded, playback-restart and end-file of an entry follow each other.
Chained(q) ==
  \A i \in 1 .. Len(q) : i > 1 =>
     /\ q[i].kind = "start" => q[i - 1].kind \notin Opens
     /\ q[i].kind # "start" => q[i - 1].kind \in Opens /\ q[i - 1].entry = q[i].entry
     /\ q[i].kind = "loaded" => q[i - 1].kind = "start"

\* Events are about entries that mpv has made, and some only about loaded ones.
Real(m, q, h) ==
  /\ m.loaded => m.playing \in h
  /\ \A i \in 1 .. Len(q) : q[i].entry <= Made(m) /\ (q[i].kind \in Shows => q[i].entry \in h)

\* The last event says what mpv does.
Told(m, q, d) ==
  d.pc # "lost" /\ q # << >> =>
     /\ q[Len(q)].kind = "start" => m.playing = q[Len(q)].entry /\ ~m.loaded
     /\ q[Len(q)].kind \in Shows => m.playing = q[Len(q)].entry /\ m.loaded
     /\ q[Len(q)].kind \notin Opens => m.playing = None

\* Nothing is heard without a connection.
Deaf(q, d) == d.pc = "lost" => q = << >> /\ d.latest = None

\* What mpv has not started yet comes after all it has told.
Ahead(m, q, d) ==
  m.current # None /\ m.playing # m.current =>
     (\A i \in 1 .. Len(q) : q[i].entry < m.current) /\ d.latest < m.current

\* The last start that the adapter knows of has not ended yet.
Heard(m, q, d) ==
  /\ d.latest <= Made(m)
  /\ d.latest # None =>
       /\ q = << >> => m.playing = d.latest
       /\ q # << >> => q[1].kind # "start" /\ q[1].entry = d.latest

\* The entry that the next event is about, unless it is a start-file.
OpenEntry(m, q, d) ==
  IF d.latest # None THEN d.latest
  ELSE IF q = << >> THEN m.playing
  ELSE IF q[1].kind = "start" THEN None ELSE q[1].entry

\* A playlist that was read is not older than what plays without a known start.
Timely(m, q, d) ==
  d.latest = None /\ OpenEntry(m, q, d) # None /\ d.pc \in {"read", "publish"} /\ d.entry # None =>
     d.entry >= OpenEntry(m, q, d)

QueueOK(m, q, d, h) ==
  /\ MachineOK(m) /\ Sorted(q) /\ Chained(q) /\ Real(m, q, h) /\ Told(m, q, d)
  /\ Deaf(q, d) /\ Ahead(m, q, d) /\ Heard(m, q, d) /\ Timely(m, q, d)

Typed(m, q, d, h) ==
  /\ m \in Mpvs /\ Made(m) <= MaxEntries /\ q \in Seq(Events) /\ d \in Adapters
  /\ h \in SUBSET Entries

LEMMA TypedFields ==
  ASSUME NEW m, NEW q, NEW d, NEW h, Typed(m, q, d, h)
  PROVE  /\ m.list \in Entries \cup {None} /\ m.current \in Entries \cup {None}
         /\ m.playing \in Entries \cup {None} /\ m.loaded \in BOOLEAN
         /\ m.target \in Seq(Targets) /\ Made(m) \in Nat /\ Made(m) <= MaxEntries
         /\ q \in Seq(Events) /\ Len(q) \in Nat
         /\ \A i \in 1 .. Len(q) : q[i] \in Events /\ q[i].entry \in Entries
              /\ q[i].kind \in {"start", "loaded", "restart", "stopped", "ended", "failed"}
         /\ d.pc \in {"idle", "sent", "accepted", "read", "publish", "lost"}
         /\ d.entry \in Entries \cup {None} /\ d.latest \in Entries \cup {None}
         /\ d.lateStart \in BOOLEAN /\ d.lateLoaded \in BOOLEAN /\ d.lateRestart \in BOOLEAN
         /\ d.shown \in Attempts \cup {None} /\ d.shownLoaded \in BOOLEAN
         /\ d.batch \in SUBSET Attempts
<1>1. m \in Mpvs /\ d \in Adapters /\ q \in Seq(Events) /\ Made(m) <= MaxEntries
  BY DEF Typed
<1>2. /\ m.list \in Entries \cup {None} /\ m.current \in Entries \cup {None}
      /\ m.playing \in Entries \cup {None} /\ m.loaded \in BOOLEAN
      /\ m.target \in Seq(Targets) /\ Made(m) \in Nat
  BY <1>1 DEF Mpvs, Made
<1>3. \A i \in 1 .. Len(q) : q[i] \in Events
  BY <1>1
<1>4. \A x \in Events : x.entry \in Entries
         /\ x.kind \in {"start", "loaded", "restart", "stopped", "ended", "failed"}
  BY DEF Events
<1>5. /\ d.pc \in {"idle", "sent", "accepted", "read", "publish", "lost"}
      /\ d.entry \in Entries \cup {None} /\ d.latest \in Entries \cup {None}
      /\ d.lateStart \in BOOLEAN /\ d.lateLoaded \in BOOLEAN /\ d.lateRestart \in BOOLEAN
      /\ d.shown \in Attempts \cup {None} /\ d.shownLoaded \in BOOLEAN
      /\ d.batch \in SUBSET Attempts
  BY <1>1 DEF Adapters
<1> QED BY <1>1, <1>2, <1>3, <1>4, <1>5

LEMMA Numbers ==
  /\ None = 0 /\ MaxEntries \in Nat /\ MaxAttempts \in Nat
  /\ \A e \in Entries : e \in Nat /\ e > 0 /\ e <= MaxEntries
  /\ \A e \in Entries \cup {None} : e \in Nat
  /\ \A a \in Attempts : a \in Nat /\ a > 0 /\ a <= MaxAttempts
BY LoadAssumption DEF None, Entries, Attempts

\* What plays was made, and so was what the adapter can hear of.
LEMMA OpenIsMade ==
  ASSUME NEW m, NEW q, NEW d, NEW h, Typed(m, q, d, h), QueueOK(m, q, d, h)
  PROVE  OpenEntry(m, q, d) \in Entries \cup {None} /\ OpenEntry(m, q, d) <= Made(m)
<1>1. /\ m.playing \in Entries \cup {None} /\ Made(m) \in Nat /\ Len(q) \in Nat
      /\ d.latest \in Entries \cup {None} /\ q \in Seq(Events)
      /\ \A i \in 1 .. Len(q) : q[i].entry \in Entries
  BY TypedFields
<1>2. m.playing <= Made(m) /\ d.latest <= Made(m)
  BY DEF QueueOK, MachineOK, Heard
<1>3. ASSUME q # << >> PROVE q[1].entry \in Entries /\ q[1].entry <= Made(m)
  <2>1. 1 \in 1 .. Len(q)
    BY <1>1, <1>3
  <2> QED BY <1>1, <2>1 DEF QueueOK, Real
<1> QED BY <1>1, <1>2, <1>3, Numbers DEF OpenEntry

\* A step of the adapter that handles no event.
LEMMA QueueOfAdapter ==
  ASSUME NEW m, NEW q, NEW d, NEW c, NEW h, Typed(m, q, d, h), QueueOK(m, q, d, h),
         c.latest = d.latest, c.pc = "lost" <=> d.pc = "lost",
         c.pc \in {"read", "publish"} =>
            \/ c.entry = m.list
            \/ c.entry = d.entry /\ d.pc \in {"read", "publish"}
  PROVE  QueueOK(m, q, c, h)
<1>1. OpenEntry(m, q, c) = OpenEntry(m, q, d)
  BY DEF OpenEntry
<1>2. OpenEntry(m, q, d) \in Entries \cup {None} /\ OpenEntry(m, q, d) <= Made(m)
      /\ Made(m) \in Nat
  BY OpenIsMade, TypedFields
<1>3. Timely(m, q, c)
  <2> SUFFICES ASSUME c.latest = None, OpenEntry(m, q, c) # None, c.pc \in {"read", "publish"},
                      c.entry # None
               PROVE  c.entry >= OpenEntry(m, q, c)
    BY DEF Timely
  <2>1. CASE c.entry = m.list
    <3>1. c.entry = Made(m)
      BY <2>1 DEF QueueOK, MachineOK
    <3> QED BY <1>1, <1>2, <3>1, Numbers
  <2>2. CASE c.entry = d.entry /\ d.pc \in {"read", "publish"}
    BY <1>1, <2>2 DEF QueueOK, Timely
  <2> QED BY <2>1, <2>2
<1> QED BY <1>3 DEF QueueOK, Told, Deaf, Ahead, Heard

\* loadfile.
LEMMA LoadfileFields ==
  ASSUME NEW m \in Mpvs, Made(m) < MaxEntries, NEW t \in Targets
  PROVE  LET n == Loadfile(m, t) IN
         /\ n \in Mpvs /\ Made(n) = Made(m) + 1 /\ Made(n) <= MaxEntries
         /\ n.list = Made(n) /\ n.current = Made(n)
         /\ n.playing = m.playing /\ n.loaded = m.loaded
<1>1. m.target \in Seq(Targets) /\ Len(m.target) \in Nat
  BY DEF Mpvs
<1>2. /\ Append(m.target, t) \in Seq(Targets)
      /\ Len(Append(m.target, t)) = Len(m.target) + 1
  BY <1>1
<1>3. Len(m.target) + 1 \in Entries
  BY <1>1, Numbers DEF Made, Entries
<1> QED BY <1>1, <1>2, <1>3, Numbers DEF Loadfile, Made, Mpvs

LEMMA QueueOfLoadfile ==
  ASSUME NEW m, NEW q, NEW d, NEW h, Typed(m, q, d, h), QueueOK(m, q, d, h),
         Made(m) < MaxEntries, NEW t \in Targets
  PROVE  Typed(Loadfile(m, t), q, d, h) /\ QueueOK(Loadfile(m, t), q, d, h)
<1> DEFINE n == Loadfile(m, t)
<1>1. /\ n \in Mpvs /\ Made(n) = Made(m) + 1 /\ Made(n) <= MaxEntries
      /\ n.list = Made(n) /\ n.current = Made(n)
      /\ n.playing = m.playing /\ n.loaded = m.loaded
  BY LoadfileFields DEF Typed
<1> HIDE DEF n
<1>2. Made(m) \in Nat /\ m.playing \in Nat /\ d.latest \in Nat
      /\ \A i \in 1 .. Len(q) : q[i].entry \in Nat
  BY TypedFields, Numbers
<1>3. MachineOK(n) /\ Real(n, q, h) /\ Heard(n, q, d)
  BY <1>1, <1>2 DEF QueueOK, MachineOK, Real, Heard
<1>4. Told(n, q, d)
  BY <1>1 DEF QueueOK, Told
<1>5. Ahead(n, q, d)
  BY <1>1, <1>2 DEF QueueOK, Ahead, Real, Heard
<1>6. Timely(n, q, d)
  BY <1>1 DEF QueueOK, Timely, OpenEntry
<1>7. Typed(n, q, d, h)
  BY <1>1 DEF Typed
<1> QED BY <1>3, <1>4, <1>5, <1>6, <1>7 DEF QueueOK, n

\* An event at the end of the queue.
LEMMA Appended ==
  ASSUME NEW q \in Seq(Events), NEW x \in Events
  PROVE  LET p == Append(q, x) IN
         /\ p \in Seq(Events) /\ Len(p) = Len(q) + 1 /\ p[Len(p)] = x /\ p # << >>
         /\ \A i \in 1 .. Len(q) : p[i] = q[i]
         /\ \A i \in 1 .. Len(p) : i \in 1 .. Len(q) \/ i = Len(q) + 1
         /\ q # << >> => p[1] = q[1] /\ q[Len(q)] \in Events /\ Len(q) \in 1 .. Len(q)
         /\ q = << >> => p[1] = x
<1> DEFINE p == Append(q, x)
<1>1. p \in Seq(Events) /\ Len(p) = Len(q) + 1 /\ Len(q) \in Nat
  OBVIOUS
<1>2. p[Len(q) + 1] = x /\ \A i \in 1 .. Len(q) : p[i] = q[i]
  OBVIOUS
<1> HIDE DEF p
<1>3. p # << >>
  BY <1>1
<1>4. \A i \in 1 .. Len(p) : i \in 1 .. Len(q) \/ i = Len(q) + 1
  BY <1>1
<1>5. ASSUME q # << >> PROVE p[1] = q[1] /\ q[Len(q)] \in Events /\ Len(q) \in 1 .. Len(q)
  <2>1. Len(q) > 0
    BY <1>1, <1>5
  <2> QED BY <1>1, <1>2, <2>1
<1>6. ASSUME q = << >> PROVE p[1] = x
  BY <1>2, <1>6
<1> QED BY <1>1, <1>2, <1>3, <1>4, <1>5, <1>6 DEF p

\* The queue without its head.
LEMMA Behead ==
  ASSUME NEW q \in Seq(Events), q # << >>
  PROVE  LET p == Tail(q) IN
         /\ p \in Seq(Events) /\ Len(p) = Len(q) - 1 /\ Len(q) > 0 /\ Len(q) \in Nat
         /\ \A i \in 1 .. Len(p) : p[i] = q[i + 1] /\ i + 1 \in 1 .. Len(q)
         /\ p # << >> => Len(p) > 0 /\ p[Len(p)] = q[Len(q)]
         /\ p = << >> => Len(q) = 1
         /\ Head(q) = q[1] /\ q[1] \in Events /\ 1 \in 1 .. Len(q)
<1> DEFINE p == Tail(q)
<1>1. Len(q) \in Nat /\ Len(q) > 0 /\ Head(q) = q[1]
  OBVIOUS
<1>2. p \in Seq(Events) /\ Len(p) = Len(q) - 1
  OBVIOUS
<1>3. \A i \in 1 .. Len(p) : p[i] = q[i + 1] /\ i + 1 \in 1 .. Len(q)
  BY <1>1
<1>4. 1 \in 1 .. Len(q) /\ q[1] \in Events
  BY <1>1
<1> HIDE DEF p
<1>5. ASSUME p # << >> PROVE Len(p) > 0 /\ p[Len(p)] = q[Len(q)]
  <2>1. Len(p) > 0 /\ Len(p) \in 1 .. Len(p)
    BY <1>2, <1>5
  <2> QED BY <1>1, <1>2, <1>3, <2>1
<1>6. ASSUME p = << >> PROVE Len(q) = 1
  <2>1. Len(p) = 0
    BY <1>6
  <2> QED BY <1>1, <1>2, <2>1
<1> QED BY <1>1, <1>2, <1>3, <1>4, <1>5, <1>6 DEF p

LEMMA EmittedInOrder ==
  ASSUME NEW q \in Seq(Events), NEW x \in Events, Sorted(q), Chained(q),
         \A i \in 1 .. Len(q) : /\ q[i].entry <= x.entry
                                /\ x.kind = "start" => q[i].entry < x.entry,
         q # << >> =>
            /\ x.kind = "start" => q[Len(q)].kind \notin Opens
            /\ x.kind # "start" => q[Len(q)].kind \in Opens /\ q[Len(q)].entry = x.entry
            /\ x.kind = "loaded" => q[Len(q)].kind = "start"
  PROVE  Sorted(Append(q, x)) /\ Chained(Append(q, x))
<1> DEFINE p == Append(q, x)
<1>1. /\ p \in Seq(Events) /\ Len(p) = Len(q) + 1 /\ p[Len(p)] = x /\ p # << >> /\ Len(q) \in Nat
      /\ \A i \in 1 .. Len(q) : p[i] = q[i]
      /\ \A i \in 1 .. Len(p) : i \in 1 .. Len(q) \/ i = Len(q) + 1
  BY Appended
<1> HIDE DEF p
<1>2. Sorted(p)
  <2> SUFFICES ASSUME NEW i \in 1 .. Len(p), NEW j \in 1 .. Len(p), i < j
               PROVE  /\ p[i].entry <= p[j].entry
                      /\ p[j].kind = "start" => p[i].entry < p[j].entry
    BY DEF Sorted
  <2>1. i \in 1 .. Len(q)
    BY <1>1
  <2>2. CASE j \in 1 .. Len(q)
    BY <1>1, <2>1, <2>2 DEF Sorted
  <2>3. CASE j = Len(q) + 1
    BY <1>1, <2>1, <2>3
  <2> QED BY <1>1, <2>2, <2>3
<1>3. Chained(p)
  <2> SUFFICES ASSUME NEW i \in 1 .. Len(p), i > 1
               PROVE  /\ p[i].kind = "start" => p[i - 1].kind \notin Opens
                      /\ p[i].kind # "start" => p[i - 1].kind \in Opens /\ p[i - 1].entry = p[i].entry
                      /\ p[i].kind = "loaded" => p[i - 1].kind = "start"
    BY DEF Chained
  <2>1. i - 1 \in 1 .. Len(q) /\ p[i - 1] = q[i - 1]
    BY <1>1
  <2>2. CASE i \in 1 .. Len(q)
    <3>1. p[i] = q[i]
      BY <1>1, <2>2
    <3> QED BY <2>1, <2>2, <3>1 DEF Chained
  <2>3. CASE i = Len(q) + 1
    <3>1. p[i] = x /\ p[i - 1] = q[Len(q)] /\ q # << >>
      BY <1>1, <2>1, <2>3
    <3> QED BY <3>1
  <2> QED BY <1>1, <2>2, <2>3
<1> QED BY <1>2, <1>3 DEF p

\* What the last event says.
LEMMA LastEvent ==
  ASSUME NEW m, NEW q, NEW d, NEW h, Typed(m, q, d, h), QueueOK(m, q, d, h),
         d.pc # "lost", q # << >>
  PROVE  /\ m.playing # None =>
              /\ q[Len(q)].kind \in Opens /\ q[Len(q)].entry = m.playing
              /\ ~m.loaded => q[Len(q)].kind = "start"
              /\ \A i \in 1 .. Len(q) : q[i].entry <= m.playing
         /\ m.playing = None => q[Len(q)].kind \notin Opens
<1>1. /\ q \in Seq(Events) /\ Len(q) \in Nat
      /\ \A i \in 1 .. Len(q) : q[i].entry \in Entries
  BY TypedFields
<1>2. Len(q) \in 1 .. Len(q)
  BY <1>1
<1>3. /\ q[Len(q)].kind = "start" => m.playing = q[Len(q)].entry /\ ~m.loaded
      /\ q[Len(q)].kind \in Shows => m.playing = q[Len(q)].entry /\ m.loaded
      /\ q[Len(q)].kind \notin Opens => m.playing = None
  BY DEF QueueOK, Told
<1>4. \A i \in 1 .. Len(q) : q[i].entry <= q[Len(q)].entry
  <2> SUFFICES ASSUME NEW i \in 1 .. Len(q) PROVE q[i].entry <= q[Len(q)].entry
    OBVIOUS
  <2>1. CASE i = Len(q)
    BY <1>1, <2>1, Numbers
  <2>2. CASE i < Len(q)
    BY <1>1, <1>2, <2>2 DEF QueueOK, Sorted
  <2> QED BY <1>1, <2>1, <2>2
<1>5. q[Len(q)].entry # None
  BY <1>1, <1>2, Values
<1> QED BY <1>3, <1>4, <1>5 DEF Opens, Shows

\* Nobody hears of what mpv does without a connection.
Emitted(q, d, x) == IF d.pc = "lost" THEN q ELSE Append(q, x)

\* mpv is yet to start e, or the adapter to hear of it.
Coming(m, q, e) ==
  \/ \E i \in 1 .. Len(q) : q[i].kind = "start" /\ q[i].entry = e
  \/ m.current = e /\ m.playing # e

\* The next event is the file-loaded of e.
Loading(m, q, e) ==
  \/ q # << >> /\ q[1].kind = "loaded" /\ q[1].entry = e
  \/ q = << >> /\ m.playing = e /\ m.current = e /\ ~m.loaded

\* What a step of mpv from m with events q to n with events p does to what is to come.
Advances(m, q, d, n, p) ==
  /\ Made(n) \in {Made(m), Made(m) + 1}
  /\ \A e \in Entries : Coming(n, p, e) => Coming(m, q, e) \/ e > Made(m)
  /\ \A i \in 1 .. Len(p) : p[i].kind \in Opens =>
        p[i].entry = Made(m) \/ \E j \in 1 .. Len(q) : p[i] = q[j]
  /\ d.pc # "lost" => /\ OpenEntry(n, p, d) = OpenEntry(m, q, d)
                      /\ \A e \in Entries : Loading(n, p, e) => Loading(m, q, e)

LEMMA LoadfileAdvances ==
  ASSUME NEW m, NEW q, NEW d, NEW h, Typed(m, q, d, h), QueueOK(m, q, d, h),
         Made(m) < MaxEntries, NEW t \in Targets
  PROVE  Advances(m, q, d, Loadfile(m, t), q)
<1> DEFINE n == Loadfile(m, t)
<1>1. /\ Made(n) = Made(m) + 1 /\ n.current = Made(n)
      /\ n.playing = m.playing /\ n.loaded = m.loaded
  BY LoadfileFields DEF Typed
<1> HIDE DEF n
<1>2. Made(m) \in Nat /\ m.playing \in Nat /\ m.playing <= Made(m)
  BY TypedFields, Numbers DEF QueueOK, MachineOK
<1>3. \A e \in Entries : Coming(n, q, e) => Coming(m, q, e) \/ e > Made(m)
  BY <1>1, <1>2 DEF Coming
<1>4. OpenEntry(n, q, d) = OpenEntry(m, q, d)
  BY <1>1 DEF OpenEntry
<1>5. \A e \in Entries : Loading(n, q, e) => Loading(m, q, e)
  BY <1>1, <1>2 DEF Loading
<1>6. \A i \in 1 .. Len(q) : \E j \in 1 .. Len(q) : q[i] = q[j]
  OBVIOUS
<1> QED BY <1>1, <1>3, <1>4, <1>5, <1>6 DEF Advances, n

LEMMA MpvStops ==
  ASSUME NEW m, NEW q, NEW d, NEW h, Typed(m, q, d, h), QueueOK(m, q, d, h)
  PROVE  LET n == [m EXCEPT !.list = None, !.current = None] IN
         Typed(n, q, d, h) /\ QueueOK(n, q, d, h) /\ Advances(m, q, d, n, q)
<1> DEFINE n == [m EXCEPT !.list = None, !.current = None]
<1>1. m \in Mpvs /\ Made(m) <= MaxEntries
  BY DEF Typed
<1>2. /\ n \in Mpvs /\ n.target = m.target /\ n.list = None /\ n.current = None
      /\ n.playing = m.playing /\ n.loaded = m.loaded
  BY <1>1, Values DEF Mpvs
<1> HIDE DEF n
<1>3. Made(n) = Made(m)
  BY <1>2 DEF Made
<1>4. Typed(n, q, d, h)
  BY <1>2, <1>3 DEF Typed
<1>5. OpenEntry(n, q, d) = OpenEntry(m, q, d)
  BY <1>2 DEF OpenEntry
<1>6. MachineOK(n) /\ Real(n, q, h) /\ Told(n, q, d) /\ Ahead(n, q, d) /\ Heard(n, q, d)
  BY <1>2, <1>3 DEF QueueOK, MachineOK, Real, Told, Ahead, Heard
<1>7. Timely(n, q, d)
  BY <1>5 DEF QueueOK, Timely
<1>8. \A e \in Entries : /\ Coming(n, q, e) => Coming(m, q, e)
                         /\ Loading(n, q, e) => Loading(m, q, e)
  <2>1. \A e \in Entries : n.current # e
    BY <1>2, Values
  <2> QED BY <1>2, <2>1 DEF Coming, Loading
<1>9. \A i \in 1 .. Len(q) : \E j \in 1 .. Len(q) : q[i] = q[j]
  OBVIOUS
<1> QED BY <1>3, <1>4, <1>5, <1>6, <1>7, <1>8, <1>9 DEF QueueOK, Advances, n

\* The event x tells a step of mpv to n.
After(q, x) ==
  /\ \A i \in 1 .. Len(q) : /\ q[i].entry <= x.entry
                            /\ x.kind = "start" => q[i].entry < x.entry
  /\ q # << >> =>
       /\ x.kind = "start" => q[Len(q)].kind \notin Opens
       /\ x.kind # "start" => q[Len(q)].kind \in Opens /\ q[Len(q)].entry = x.entry
       /\ x.kind = "loaded" => q[Len(q)].kind = "start"
Tells(m, q, d, n, x) ==
  /\ x.entry <= Made(m) /\ (x.kind \in Opens => x.entry = Made(m))
  /\ q = << >> => OpenEntry(m, q, d) = (IF x.kind = "start" THEN None ELSE x.entry)
  /\ x.kind = "start" => n.playing = x.entry /\ ~n.loaded /\ Coming(m, q, x.entry)
  /\ x.kind \in Shows => n.playing = x.entry /\ n.loaded
  /\ x.kind = "loaded" => (q = << >> => Loading(m, q, x.entry))
  /\ x.kind \notin Opens => n.playing = None
  /\ n.current \in {None, m.current}
  /\ n.current # None /\ n.playing # n.current => x.entry < m.current /\ m.playing # m.current

LEMMA EmittedKeeps ==
  ASSUME NEW m, NEW q, NEW d, NEW h, Typed(m, q, d, h), QueueOK(m, q, d, h),
         NEW n \in Mpvs, n.target = m.target, MachineOK(n), NEW x \in Events,
         NEW k \in SUBSET Entries, h \subseteq k, d.pc # "lost",
         x.kind \in Shows => x.entry \in k, n.loaded => n.playing \in k,
         After(q, x), Tells(m, q, d, n, x)
  PROVE  LET p == Append(q, x) IN
         Typed(n, p, d, k) /\ QueueOK(n, p, d, k) /\ Advances(m, q, d, n, p)
<1> USE DEF Tells
<1> DEFINE p == Append(q, x)
<1>1. /\ m \in Mpvs /\ q \in Seq(Events) /\ Made(m) \in Nat /\ Made(m) <= MaxEntries
      /\ d.latest \in Entries \cup {None} /\ x.entry \in Entries
  BY TypedFields DEF Typed, Events
<1>2. /\ p \in Seq(Events) /\ Len(p) = Len(q) + 1 /\ p[Len(p)] = x /\ p # << >> /\ Len(q) \in Nat
      /\ \A i \in 1 .. Len(q) : p[i] = q[i]
      /\ \A i \in 1 .. Len(p) : i \in 1 .. Len(q) \/ i = Len(q) + 1
      /\ q # << >> => p[1] = q[1]
      /\ q = << >> => p[1] = x
  BY <1>1, Appended
<1>3. Sorted(p) /\ Chained(p)
  <2>1. Sorted(q) /\ Chained(q)
    BY DEF QueueOK
  <2> QED BY <1>1, <2>1, EmittedInOrder DEF After
<1> HIDE DEF p
<1>4. Made(n) = Made(m)
  BY DEF Made
<1>5. \A i \in 1 .. Len(p) : p[i] = x \/ \E j \in 1 .. Len(q) : p[i] = q[j]
  BY <1>2
<1>6. Typed(n, p, d, k)
  BY <1>1, <1>2, <1>4 DEF Typed
<1>7. Real(n, p, k)
  BY <1>4, <1>5 DEF QueueOK, Real
<1>8. Told(n, p, d) /\ Deaf(p, d)
  BY <1>2 DEF Told, Deaf
<1>9. OpenEntry(n, p, d) = OpenEntry(m, q, d)
  <2>1. CASE q = << >>
    <3>1. d.latest # None => OpenEntry(m, q, d) = d.latest /\ OpenEntry(n, p, d) = d.latest
      BY DEF OpenEntry
    <3>2. d.latest = None => OpenEntry(n, p, d) = (IF x.kind = "start" THEN None ELSE x.entry)
      BY <1>2, <2>1 DEF OpenEntry
    <3> QED BY <2>1, <3>1, <3>2
  <2>2. CASE q # << >>
    BY <1>2, <2>2 DEF OpenEntry
  <2> QED BY <2>1, <2>2
<1>10. Ahead(n, p, d)
  <2> SUFFICES ASSUME n.current # None, n.playing # n.current
               PROVE  (\A i \in 1 .. Len(p) : p[i].entry < n.current) /\ d.latest < n.current
    BY DEF Ahead
  <2>1. n.current = m.current /\ m.playing # m.current /\ x.entry < m.current
    OBVIOUS
  <2>2. (\A i \in 1 .. Len(q) : q[i].entry < m.current) /\ d.latest < m.current
    BY <2>1 DEF QueueOK, Ahead
  <2> QED BY <1>5, <2>1, <2>2
<1>11. Heard(n, p, d)
  <2>1. d.latest <= Made(n)
    BY <1>4 DEF QueueOK, Heard
  <2>2. ASSUME d.latest # None PROVE p[1].kind # "start" /\ p[1].entry = d.latest
    <3>1. CASE q # << >>
      BY <1>2, <2>2, <3>1 DEF QueueOK, Heard
    <3>2. CASE q = << >>
      <4>1. OpenEntry(m, q, d) = d.latest
        BY <2>2 DEF OpenEntry
      <4> QED BY <1>2, <2>2, <3>2, <4>1
    <3> QED BY <3>1, <3>2
  <2> QED BY <1>2, <2>1, <2>2 DEF Heard
<1>12. Timely(n, p, d)
  BY <1>9 DEF QueueOK, Timely
<1>13. \A e \in Entries : Coming(n, p, e) => Coming(m, q, e)
  <2> SUFFICES ASSUME NEW e \in Entries, Coming(n, p, e) PROVE Coming(m, q, e)
    OBVIOUS
  <2>1. CASE \E i \in 1 .. Len(p) : p[i].kind = "start" /\ p[i].entry = e
    <3>1. PICK i \in 1 .. Len(p) : p[i].kind = "start" /\ p[i].entry = e
      BY <2>1
    <3>2. CASE p[i] = x
      BY <3>1, <3>2
    <3>3. CASE \E j \in 1 .. Len(q) : p[i] = q[j]
      BY <3>1, <3>3 DEF Coming
    <3> QED BY <1>5, <3>2, <3>3
  <2>2. CASE n.current = e /\ n.playing # e
    <3>1. n.current # None
      BY <2>2, Values
    <3> QED BY <2>2, <3>1 DEF Coming
  <2> QED BY <2>1, <2>2 DEF Coming
<1>14. \A e \in Entries : Loading(n, p, e) => Loading(m, q, e)
  BY <1>2 DEF Loading
<1>15. \A i \in 1 .. Len(p) : p[i].kind \in Opens =>
          p[i].entry = Made(m) \/ \E j \in 1 .. Len(q) : p[i] = q[j]
  BY <1>5
<1>16. Advances(m, q, d, n, p)
  BY <1>4, <1>9, <1>13, <1>14, <1>15 DEF Advances
<1> QED BY <1>3, <1>6, <1>7, <1>8, <1>10, <1>11, <1>12, <1>16 DEF QueueOK, p

\* The same without a connection.
LEMMA Unheard ==
  ASSUME NEW m, NEW q, NEW d, NEW h, Typed(m, q, d, h), QueueOK(m, q, d, h),
         NEW n \in Mpvs, n.target = m.target, MachineOK(n),
         NEW k \in SUBSET Entries, n.loaded => n.playing \in k, d.pc = "lost",
         n.current \in {None, m.current},
         n.current # None /\ n.playing # n.current => m.playing # m.current
  PROVE  Typed(n, q, d, k) /\ QueueOK(n, q, d, k) /\ Advances(m, q, d, n, q)
<1>1. q = << >> /\ d.latest = None /\ Len(q) = 0
  BY DEF QueueOK, Deaf
<1>2. Made(n) = Made(m) /\ Made(m) \in Nat /\ n.current \in Entries \cup {None}
  BY TypedFields DEF Made, Mpvs
<1>3. Typed(n, q, d, k)
  BY <1>2 DEF Typed
<1>4. Sorted(q) /\ Chained(q) /\ Real(n, q, k) /\ Told(n, q, d) /\ Deaf(q, d) /\ Timely(n, q, d)
  BY <1>1 DEF Sorted, Chained, Real, Told, Deaf, Timely
<1>5. Ahead(n, q, d) /\ Heard(n, q, d)
  BY <1>1, <1>2, Numbers DEF Ahead, Heard
<1>6. \A e \in Entries : Coming(n, q, e) => Coming(m, q, e)
  BY <1>1, Values DEF Coming
<1>7. Advances(m, q, d, n, q)
  BY <1>1, <1>2, <1>6 DEF Advances
<1> QED BY <1>3, <1>4, <1>5, <1>7 DEF QueueOK

LEMMA MpvUnloads ==
  ASSUME NEW m, NEW q, NEW d, NEW h, Typed(m, q, d, h), QueueOK(m, q, d, h),
         m.playing \notin {None, m.current}
  PROVE  LET n == [m EXCEPT !.playing = None, !.loaded = FALSE]
             p == Emitted(q, d, [kind |-> "stopped", entry |-> m.playing]) IN
         Typed(n, p, d, h) /\ QueueOK(n, p, d, h) /\ Advances(m, q, d, n, p)
<1> DEFINE n == [m EXCEPT !.playing = None, !.loaded = FALSE]
           x == [kind |-> "stopped", entry |-> m.playing]
           p == Emitted(q, d, x)
<1>1. /\ m \in Mpvs /\ m.playing \in Entries /\ m.playing \in Nat /\ Made(m) \in Nat
      /\ m.current \in Nat /\ h \in SUBSET Entries
  BY TypedFields, Numbers DEF Typed
<1>2. /\ n \in Mpvs /\ n.target = m.target /\ n.list = m.list /\ n.current = m.current
      /\ n.playing = None /\ n.loaded = FALSE
  BY <1>1, Values DEF Mpvs
<1>3. x \in Events /\ x.kind = "stopped" /\ x.entry = m.playing
  BY <1>1 DEF Events
<1>4. m.playing <= Made(m) /\ MachineOK(m)
  BY DEF QueueOK, MachineOK
<1> HIDE DEF n, x
<1>5. MachineOK(n) /\ Made(n) = Made(m)
  BY <1>1, <1>2, <1>4, Numbers DEF MachineOK, Made
<1>6. CASE d.pc = "lost"
  <2>1. p = q
    BY <1>6 DEF Emitted
  <2>2. Typed(n, q, d, h) /\ QueueOK(n, q, d, h) /\ Advances(m, q, d, n, q)
    BY <1>1, <1>2, <1>5, <1>6, Unheard
  <2> QED BY <2>1, <2>2 DEF n, x
<1>7. CASE d.pc # "lost"
  <2>1. p = Append(q, x)
    BY <1>7 DEF Emitted
  <2>2. q # << >> => q[Len(q)].kind \in Opens /\ q[Len(q)].entry = m.playing
    BY <1>1, <1>7, LastEvent, Values
  <2>3. \A i \in 1 .. Len(q) : q[i].entry <= m.playing
    <3>1. CASE q = << >>
      BY <3>1
    <3>2. CASE q # << >>
      BY <1>1, <1>7, <3>2, LastEvent, Values
    <3> QED BY <3>1, <3>2
  <2>4. q = << >> => OpenEntry(m, q, d) = m.playing
    BY DEF OpenEntry, QueueOK, Heard
  <2>5. n.current # None /\ n.playing # n.current => x.entry < m.current /\ m.playing # m.current
    <3> SUFFICES ASSUME n.current # None PROVE m.playing < m.current
      BY <1>3
    <3>1. m.list = Made(m) /\ m.current = Made(m)
      BY <1>2, <1>4 DEF MachineOK
    <3> QED BY <1>1, <1>4, <3>1
  <2>6. "stopped" \notin Opens
    BY DEF Opens
  <2>7. x.kind # "start" /\ x.kind \notin Shows /\ x.kind # "loaded" /\ x.kind \notin Opens
    BY <1>3, <2>6 DEF Shows
  <2>8. q = << >> => OpenEntry(m, q, d) = (IF x.kind = "start" THEN None ELSE x.entry)
    BY <1>3, <2>4, <2>7
  <2>9. n.current \in {None, m.current}
    BY <1>2
  <2>10. Typed(n, Append(q, x), d, h) /\ QueueOK(n, Append(q, x), d, h)
         /\ Advances(m, q, d, n, Append(q, x))
    <3>1. After(q, x)
      BY <1>3, <2>2, <2>3, <2>7 DEF After
    <3>2. Tells(m, q, d, n, x)
      BY <1>2, <1>3, <1>4, <2>5, <2>7, <2>8, <2>9 DEF Tells
    <3> QED BY <1>1, <1>2, <1>3, <1>5, <1>7, <2>7, <3>1, <3>2, EmittedKeeps
  <2> QED BY <2>1, <2>10 DEF n, x
<1> QED BY <1>6, <1>7

LEMMA MpvStarts ==
  ASSUME NEW m, NEW q, NEW d, NEW h, Typed(m, q, d, h), QueueOK(m, q, d, h),
         m.playing = None, m.current # None
  PROVE  LET n == [m EXCEPT !.playing = m.current]
             p == Emitted(q, d, [kind |-> "start", entry |-> m.current]) IN
         Typed(n, p, d, h) /\ QueueOK(n, p, d, h) /\ Advances(m, q, d, n, p)
<1> DEFINE n == [m EXCEPT !.playing = m.current]
           x == [kind |-> "start", entry |-> m.current]
           p == Emitted(q, d, x)
<1>1. /\ m \in Mpvs /\ m.current \in Entries /\ m.current \in Nat /\ Made(m) \in Nat
      /\ h \in SUBSET Entries
  BY TypedFields, Numbers DEF Typed
<1>2. /\ n \in Mpvs /\ n.target = m.target /\ n.list = m.list /\ n.current = m.current
      /\ n.playing = m.current /\ n.loaded = m.loaded
  BY <1>1 DEF Mpvs
<1>3. x \in Events /\ x.kind = "start" /\ x.entry = m.current
  BY <1>1 DEF Events
<1>4. m.current = Made(m) /\ ~m.loaded /\ MachineOK(m)
  BY DEF QueueOK, MachineOK
<1> HIDE DEF n, x
<1>5. MachineOK(n)
  BY <1>1, <1>2, <1>4 DEF MachineOK, Made
<1>6. CASE d.pc = "lost"
  <2>1. p = q
    BY <1>6 DEF Emitted
  <2>2. Typed(n, q, d, h) /\ QueueOK(n, q, d, h) /\ Advances(m, q, d, n, q)
    BY <1>1, <1>2, <1>4, <1>5, <1>6, Unheard
  <2> QED BY <2>1, <2>2 DEF n, x
<1>7. CASE d.pc # "lost"
  <2>1. p = Append(q, x)
    BY <1>7 DEF Emitted
  <2>2. q # << >> => q[Len(q)].kind \notin Opens
    BY <1>7, LastEvent
  <2>3. /\ \A i \in 1 .. Len(q) : q[i].entry < m.current
    BY DEF QueueOK, Ahead
  <2>4. \A i \in 1 .. Len(q) : q[i].entry \in Nat
    BY TypedFields, Numbers
  <2>5. \A i \in 1 .. Len(q) : q[i].entry <= x.entry /\ q[i].entry < x.entry
    BY <1>1, <1>3, <2>3, <2>4
  <2>6. q = << >> => OpenEntry(m, q, d) = None
    BY DEF OpenEntry, QueueOK, Heard
  <2>7. Coming(m, q, x.entry)
    BY <1>3 DEF Coming
  <2>8. /\ x.kind # "loaded" /\ x.kind \notin Shows /\ x.kind \in Opens
        /\ n.current \in {None, m.current} /\ n.playing = n.current
    BY <1>2, <1>3 DEF Opens, Shows
  <2>9. q = << >> => OpenEntry(m, q, d) = (IF x.kind = "start" THEN None ELSE x.entry)
    BY <1>3, <2>6
  <2>10. x.entry <= Made(m) /\ x.entry = Made(m)
    BY <1>1, <1>3, <1>4
  <2>11. Typed(n, Append(q, x), d, h) /\ QueueOK(n, Append(q, x), d, h)
         /\ Advances(m, q, d, n, Append(q, x))
    <3>1. After(q, x)
      BY <1>3, <2>2, <2>5, <2>8 DEF After
    <3>2. Tells(m, q, d, n, x)
      BY <1>2, <1>3, <1>4, <2>7, <2>8, <2>9, <2>10 DEF Tells
    <3> QED BY <1>1, <1>2, <1>3, <1>4, <1>5, <1>7, <2>8, <3>1, <3>2, EmittedKeeps
  <2> QED BY <2>1, <2>11 DEF n, x
<1> QED BY <1>6, <1>7

LEMMA MpvLoads ==
  ASSUME NEW m, NEW q, NEW d, NEW h, Typed(m, q, d, h), QueueOK(m, q, d, h),
         m.playing = m.current, m.playing # None, ~m.loaded
  PROVE  LET n == [m EXCEPT !.loaded = TRUE]
             p == Emitted(q, d, [kind |-> "loaded", entry |-> m.playing])
             k == h \cup {m.playing} IN
         Typed(n, p, d, k) /\ QueueOK(n, p, d, k) /\ Advances(m, q, d, n, p)
<1> DEFINE n == [m EXCEPT !.loaded = TRUE]
           x == [kind |-> "loaded", entry |-> m.playing]
           p == Emitted(q, d, x)
           k == h \cup {m.playing}
<1>1. /\ m \in Mpvs /\ m.playing \in Entries /\ m.playing \in Nat /\ Made(m) \in Nat
      /\ h \in SUBSET Entries
  BY TypedFields, Numbers DEF Typed
<1>2. /\ n \in Mpvs /\ n.target = m.target /\ n.list = m.list /\ n.current = m.current
      /\ n.playing = m.playing /\ n.loaded = TRUE
  BY <1>1 DEF Mpvs
<1>3. x \in Events /\ x.kind = "loaded" /\ x.entry = m.playing
  BY <1>1 DEF Events
<1>4. m.playing = Made(m) /\ MachineOK(m)
  BY DEF QueueOK, MachineOK
<1>5. k \in SUBSET Entries /\ h \subseteq k /\ m.playing \in k
  BY <1>1
<1> HIDE DEF n, x, k
<1>6. MachineOK(n)
  BY <1>1, <1>2, <1>4 DEF MachineOK, Made
<1>7. CASE d.pc = "lost"
  <2>1. p = q
    BY <1>7 DEF Emitted
  <2>2. Typed(n, q, d, k) /\ QueueOK(n, q, d, k) /\ Advances(m, q, d, n, q)
    BY <1>1, <1>2, <1>5, <1>6, <1>7, Unheard
  <2> QED BY <2>1, <2>2 DEF n, x, k
<1>8. CASE d.pc # "lost"
  <2>1. p = Append(q, x)
    BY <1>8 DEF Emitted
  <2>2. q # << >> => q[Len(q)].kind \in Opens /\ q[Len(q)].entry = m.playing
                     /\ q[Len(q)].kind = "start"
    BY <1>8, LastEvent
  <2>3. \A i \in 1 .. Len(q) : q[i].entry <= m.playing
    <3>1. CASE q = << >>
      BY <3>1
    <3>2. CASE q # << >>
      BY <1>8, <3>2, LastEvent
    <3> QED BY <3>1, <3>2
  <2>4. q = << >> => OpenEntry(m, q, d) = m.playing
    BY DEF OpenEntry, QueueOK, Heard
  <2>5. q = << >> => Loading(m, q, x.entry)
    BY <1>3 DEF Loading
  <2>6. /\ x.kind # "start" /\ x.kind \in Opens /\ n.current \in {None, m.current}
        /\ n.playing = n.current
    BY <1>2, <1>3 DEF Opens
  <2>7. q = << >> => OpenEntry(m, q, d) = (IF x.kind = "start" THEN None ELSE x.entry)
    BY <1>3, <2>4
  <2>8. x.entry <= Made(m) /\ x.entry = Made(m)
    BY <1>1, <1>3, <1>4
  <2>9. Typed(n, Append(q, x), d, k) /\ QueueOK(n, Append(q, x), d, k)
         /\ Advances(m, q, d, n, Append(q, x))
    <3>1. After(q, x)
      BY <1>3, <2>2, <2>3, <2>6 DEF After
    <3>2. Tells(m, q, d, n, x)
      BY <1>2, <1>3, <1>4, <2>5, <2>6, <2>7, <2>8 DEF Tells
    <3> QED BY <1>1, <1>2, <1>3, <1>5, <1>6, <1>8, <2>6, <3>1, <3>2, EmittedKeeps
  <2> QED BY <2>1, <2>9 DEF n, x, k
<1> QED BY <1>7, <1>8

LEMMA MpvRestarts ==
  ASSUME NEW m, NEW q, NEW d, NEW h, Typed(m, q, d, h), QueueOK(m, q, d, h),
         m.playing = m.current, m.loaded
  PROVE  LET p == Emitted(q, d, [kind |-> "restart", entry |-> m.playing]) IN
         Typed(m, p, d, h) /\ QueueOK(m, p, d, h) /\ Advances(m, q, d, m, p)
<1> DEFINE x == [kind |-> "restart", entry |-> m.playing]
           p == Emitted(q, d, x)
<1>1. /\ m \in Mpvs /\ m.playing \in Entries \cup {None} /\ Made(m) \in Nat
      /\ h \in SUBSET Entries
  BY TypedFields DEF Typed
<1>2. m.playing # None /\ m.playing = Made(m) /\ MachineOK(m) /\ m.playing \in h
  BY DEF QueueOK, MachineOK, Real
<1>3. x \in Events /\ x.kind = "restart" /\ x.entry = m.playing
  BY <1>1, <1>2 DEF Events
<1> HIDE DEF x
<1>4. CASE d.pc = "lost"
  <2>1. p = q
    BY <1>4 DEF Emitted
  <2>2. Typed(m, q, d, h) /\ QueueOK(m, q, d, h) /\ Advances(m, q, d, m, q)
    BY <1>1, <1>2, <1>4, Unheard
  <2> QED BY <2>1, <2>2 DEF x
<1>5. CASE d.pc # "lost"
  <2>1. p = Append(q, x)
    BY <1>5 DEF Emitted
  <2>2. q # << >> => q[Len(q)].kind \in Opens /\ q[Len(q)].entry = m.playing
    BY <1>2, <1>5, LastEvent
  <2>3. \A i \in 1 .. Len(q) : q[i].entry <= m.playing
    <3>1. CASE q = << >>
      BY <3>1
    <3>2. CASE q # << >>
      BY <1>2, <1>5, <3>2, LastEvent
    <3> QED BY <3>1, <3>2
  <2>4. q = << >> => OpenEntry(m, q, d) = m.playing
    BY <1>2 DEF OpenEntry, QueueOK, Heard
  <2>5. x.kind # "start" /\ x.kind # "loaded" /\ x.kind \in Opens
    BY <1>3 DEF Opens
  <2>6. q = << >> => OpenEntry(m, q, d) = (IF x.kind = "start" THEN None ELSE x.entry)
    BY <1>3, <2>4, <2>5
  <2>7. x.entry <= Made(m) /\ x.entry = Made(m)
    BY <1>1, <1>2, <1>3
  <2>8. Typed(m, Append(q, x), d, h) /\ QueueOK(m, Append(q, x), d, h)
         /\ Advances(m, q, d, m, Append(q, x))
    <3>1. After(q, x)
      BY <1>3, <2>2, <2>3, <2>5 DEF After
    <3>2. Tells(m, q, d, m, x)
      BY <1>3, <2>5, <2>6, <2>7 DEF Tells
    <3> QED BY <1>1, <1>2, <1>3, <1>5, <3>1, <3>2, EmittedKeeps
  <2> QED BY <2>1, <2>8 DEF x
<1> QED BY <1>4, <1>5

LEMMA MpvEnds ==
  ASSUME NEW m, NEW q, NEW d, NEW h, Typed(m, q, d, h), QueueOK(m, q, d, h),
         m.playing = m.current, m.playing # None, NEW o \in {"ended", "failed"}
  PROVE  LET n == [m EXCEPT !.playing = None, !.current = None, !.loaded = FALSE]
             p == Emitted(q, d, [kind |-> o, entry |-> m.playing]) IN
         Typed(n, p, d, h) /\ QueueOK(n, p, d, h) /\ Advances(m, q, d, n, p)
<1> DEFINE n == [m EXCEPT !.playing = None, !.current = None, !.loaded = FALSE]
           x == [kind |-> o, entry |-> m.playing]
           p == Emitted(q, d, x)
<1>1. /\ m \in Mpvs /\ m.playing \in Entries /\ m.playing \in Nat /\ Made(m) \in Nat
      /\ m.current \in Nat /\ h \in SUBSET Entries
  BY TypedFields, Numbers DEF Typed
<1>2. /\ n \in Mpvs /\ n.target = m.target /\ n.list = m.list /\ n.current = None
      /\ n.playing = None /\ n.loaded = FALSE
  BY <1>1, Values DEF Mpvs
<1>3. x \in Events /\ x.kind = o /\ x.entry = m.playing
  BY <1>1 DEF Events
<1>4. m.playing <= Made(m) /\ MachineOK(m)
  BY DEF QueueOK, MachineOK
<1> HIDE DEF n, x
<1>5. MachineOK(n) /\ Made(n) = Made(m)
  BY <1>1, <1>2, <1>4, Numbers DEF MachineOK, Made
<1>6. CASE d.pc = "lost"
  <2>1. p = q
    BY <1>6 DEF Emitted
  <2>2. Typed(n, q, d, h) /\ QueueOK(n, q, d, h) /\ Advances(m, q, d, n, q)
    BY <1>1, <1>2, <1>5, <1>6, Unheard
  <2> QED BY <2>1, <2>2 DEF n, x
<1>7. CASE d.pc # "lost"
  <2>1. p = Append(q, x)
    BY <1>7 DEF Emitted
  <2>2. q # << >> => q[Len(q)].kind \in Opens /\ q[Len(q)].entry = m.playing
    BY <1>7, LastEvent
  <2>3. \A i \in 1 .. Len(q) : q[i].entry <= m.playing
    <3>1. CASE q = << >>
      BY <3>1
    <3>2. CASE q # << >>
      BY <1>7, <3>2, LastEvent
    <3> QED BY <3>1, <3>2
  <2>4. q = << >> => OpenEntry(m, q, d) = m.playing
    BY DEF OpenEntry, QueueOK, Heard
  <2>5. x.kind # "start" /\ x.kind \notin Shows /\ x.kind # "loaded" /\ x.kind \notin Opens
    BY <1>3 DEF Opens, Shows
  <2>6. q = << >> => OpenEntry(m, q, d) = (IF x.kind = "start" THEN None ELSE x.entry)
    BY <1>3, <2>4, <2>5
  <2>7. n.current \in {None, m.current}
    BY <1>2
  <2>8. Typed(n, Append(q, x), d, h) /\ QueueOK(n, Append(q, x), d, h)
         /\ Advances(m, q, d, n, Append(q, x))
    <3>1. After(q, x)
      BY <1>3, <2>2, <2>3, <2>5 DEF After
    <3>2. Tells(m, q, d, n, x)
      BY <1>2, <1>3, <1>4, <2>5, <2>6, <2>7 DEF Tells
    <3> QED BY <1>1, <1>2, <1>3, <1>5, <1>7, <2>5, <3>1, <3>2, EmittedKeeps
  <2> QED BY <2>1, <2>8 DEF n, x
<1> QED BY <1>6, <1>7

\* An event is handled: what is left of the queue.
LEMMA Beheaded ==
  ASSUME NEW m, NEW q, NEW d, NEW h, Typed(m, q, d, h), QueueOK(m, q, d, h), q # << >>,
         NEW c, c.pc = d.pc, c.latest \in {None, d.latest, q[1].entry}
  PROVE  LET p == Tail(q)
             e == q[1].entry IN
         /\ d.pc # "lost" /\ e \in Entries /\ e <= Made(m) /\ q[1] \in Events
         /\ p \in Seq(Events) /\ Sorted(p) /\ Chained(p) /\ Real(m, p, h) /\ Told(m, p, c)
         /\ Deaf(p, c) /\ Ahead(m, p, c)
         /\ \A i \in 1 .. Len(p) : \E j \in 1 .. Len(q) : p[i] = q[j]
         /\ p # << >> =>
              /\ p[1].kind = "start" => q[1].kind \notin Opens
              /\ p[1].kind # "start" => q[1].kind \in Opens /\ q[1].entry = p[1].entry
              /\ p[1].kind = "loaded" => q[1].kind = "start"
         /\ p = << >> =>
              /\ q[1].kind = "start" => m.playing = e /\ ~m.loaded
              /\ q[1].kind \in Shows => m.playing = e /\ m.loaded
              /\ q[1].kind \notin Opens => m.playing = None
         /\ \A g \in Entries : Coming(m, p, g) => Coming(m, q, g) /\ g > e
         /\ q[1].kind = "start" => d.latest = None /\ Coming(m, q, e)
         /\ d.latest \in {None, e}
         /\ q[1].kind \in Shows => e \in h
         /\ q[1].kind = "loaded" => Loading(m, q, e)
<1> DEFINE p == Tail(q)
           e == q[1].entry
<1>1. /\ q \in Seq(Events) /\ Len(q) \in Nat /\ \A i \in 1 .. Len(q) : q[i].entry \in Entries
      /\ \A i \in 1 .. Len(q) : q[i].entry \in Nat
  BY TypedFields, Numbers
<1>2. /\ p \in Seq(Events) /\ Len(p) = Len(q) - 1 /\ Len(q) > 0
      /\ \A i \in 1 .. Len(p) : p[i] = q[i + 1] /\ i + 1 \in 1 .. Len(q)
      /\ p # << >> => Len(p) > 0 /\ p[Len(p)] = q[Len(q)]
      /\ p = << >> => Len(q) = 1
      /\ q[1] \in Events /\ 1 \in 1 .. Len(q)
  BY <1>1, Behead
<1> HIDE DEF p
<1>3. /\ Sorted(q) /\ Chained(q) /\ Real(m, q, h) /\ Told(m, q, d) /\ Deaf(q, d)
      /\ Ahead(m, q, d) /\ Heard(m, q, d)
  BY DEF QueueOK
<1>4. d.pc # "lost" /\ e \in Entries /\ e <= Made(m)
  BY <1>1, <1>2, <1>3 DEF Deaf, Real
<1>5. \A i \in 1 .. Len(p) : \E j \in 1 .. Len(q) : p[i] = q[j]
  BY <1>2
<1>6. Sorted(p)
  <2> SUFFICES ASSUME NEW i \in 1 .. Len(p), NEW j \in 1 .. Len(p), i < j
               PROVE  /\ p[i].entry <= p[j].entry
                      /\ p[j].kind = "start" => p[i].entry < p[j].entry
    BY DEF Sorted
  <2>1. i + 1 < j + 1 /\ i + 1 \in 1 .. Len(q) /\ j + 1 \in 1 .. Len(q)
    BY <1>2
  <2>2. /\ q[i + 1].entry <= q[j + 1].entry
        /\ q[j + 1].kind = "start" => q[i + 1].entry < q[j + 1].entry
    BY <1>3, <2>1 DEF Sorted
  <2> QED BY <1>2, <2>2
<1>7. Chained(p)
  <2> SUFFICES ASSUME NEW i \in 1 .. Len(p), i > 1
               PROVE  /\ p[i].kind = "start" => p[i - 1].kind \notin Opens
                      /\ p[i].kind # "start" => p[i - 1].kind \in Opens /\ p[i - 1].entry = p[i].entry
                      /\ p[i].kind = "loaded" => p[i - 1].kind = "start"
    BY DEF Chained
  <2>1. i - 1 \in 1 .. Len(p) /\ p[i] = q[i + 1] /\ i + 1 \in 1 .. Len(q) /\ i + 1 > 1
    BY <1>1, <1>2
  <2>2. p[i - 1] = q[(i + 1) - 1]
    <3>1. p[i - 1] = q[(i - 1) + 1] /\ (i - 1) + 1 = (i + 1) - 1
      BY <1>2, <2>1
    <3> QED BY <3>1
  <2> QED BY <1>3, <2>1, <2>2 DEF Chained
<1>8. Real(m, p, h)
  BY <1>3, <1>5 DEF Real
<1>9. Told(m, p, c)
  BY <1>2, <1>3, <1>4 DEF Told
<1>10. Deaf(p, c)
  BY <1>4 DEF Deaf
<1>11. Ahead(m, p, c)
  <2> SUFFICES ASSUME m.current # None, m.playing # m.current
               PROVE  (\A i \in 1 .. Len(p) : p[i].entry < m.current) /\ c.latest < m.current
    BY DEF Ahead
  <2>1. (\A i \in 1 .. Len(q) : q[i].entry < m.current) /\ d.latest < m.current
    BY <1>3 DEF Ahead
  <2>2. None < m.current
    BY TypedFields, Numbers
  <2> QED BY <1>2, <1>5, <2>1, <2>2
<1>12. ASSUME p # << >>
       PROVE  /\ p[1].kind = "start" => q[1].kind \notin Opens
              /\ p[1].kind # "start" => q[1].kind \in Opens /\ q[1].entry = p[1].entry
              /\ p[1].kind = "loaded" => q[1].kind = "start"
  <2>1. 1 \in 1 .. Len(p) /\ p[1] = q[1 + 1] /\ 2 \in 1 .. Len(q)
    BY <1>1, <1>2, <1>12
  <2>2. p[1] = q[2] /\ q[1] = q[2 - 1] /\ 2 > 1
    BY <2>1
  <2> QED BY <1>3, <2>1, <2>2 DEF Chained
<1>13. ASSUME p = << >>
       PROVE  /\ q[1].kind = "start" => m.playing = e /\ ~m.loaded
              /\ q[1].kind \in Shows => m.playing = e /\ m.loaded
              /\ q[1].kind \notin Opens => m.playing = None
  <2>1. q[1] = q[Len(q)]
    BY <1>2, <1>13
  <2> QED BY <1>3, <1>4, <2>1 DEF Told
<1>14. ASSUME NEW g \in Entries, Coming(m, p, g) PROVE Coming(m, q, g) /\ g > e
  <2>1. CASE \E i \in 1 .. Len(p) : p[i].kind = "start" /\ p[i].entry = g
    <3>1. PICK i \in 1 .. Len(p) : p[i].kind = "start" /\ p[i].entry = g
      BY <2>1
    <3>2. p[i] = q[i + 1] /\ i + 1 \in 1 .. Len(q) /\ 1 < i + 1
      BY <1>2
    <3>3. q[1].entry < q[i + 1].entry
      BY <1>2, <1>3, <3>1, <3>2 DEF Sorted
    <3> QED BY <1>1, <1>4, <3>1, <3>2, <3>3, Numbers DEF Coming
  <2>2. CASE m.current = g /\ m.playing # g
    <3>1. m.current # None
      BY <2>2, Values
    <3>2. q[1].entry < g
      BY <1>2, <1>3, <2>2, <3>1 DEF Ahead
    <3> QED BY <1>4, <2>2, <3>2, Numbers DEF Coming
  <2> QED BY <1>14, <2>1, <2>2 DEF Coming
<1>15. q[1].kind = "start" => d.latest = None /\ Coming(m, q, e)
  BY <1>2, <1>3 DEF Heard, Coming
<1>16. d.latest \in {None, e}
  BY <1>3 DEF Heard
<1>17. (q[1].kind \in Shows => e \in h) /\ (q[1].kind = "loaded" => Loading(m, q, e))
  BY <1>2, <1>3 DEF Real, Loading
<1> QED BY <1>2, <1>4, <1>5, <1>6, <1>7, <1>8, <1>9, <1>10, <1>11, <1>12, <1>13, <1>14, <1>15,
           <1>16, <1>17 DEF p

LEMMA StartHandled ==
  ASSUME NEW m, NEW q, NEW d, NEW h, Typed(m, q, d, h), QueueOK(m, q, d, h), q # << >>,
         q[1].kind = "start", NEW c \in Adapters, c.pc = d.pc, c.latest = q[1].entry
  PROVE  /\ Typed(m, Tail(q), c, h) /\ QueueOK(m, Tail(q), c, h)
         /\ OpenEntry(m, Tail(q), c) = q[1].entry
<1> DEFINE p == Tail(q)
           e == q[1].entry
<1>1. /\ e \in Entries /\ e <= Made(m)
      /\ p \in Seq(Events) /\ Sorted(p) /\ Chained(p) /\ Real(m, p, h) /\ Told(m, p, c)
      /\ Deaf(p, c) /\ Ahead(m, p, c)
      /\ p # << >> =>
           /\ p[1].kind = "start" => q[1].kind \notin Opens
           /\ p[1].kind # "start" => q[1].kind \in Opens /\ q[1].entry = p[1].entry
      /\ p = << >> => m.playing = e
  BY Beheaded
<1> HIDE DEF p
<1>2. e # None /\ "start" \in Opens
  BY <1>1, Values DEF Opens
<1>3. Heard(m, p, c)
  BY <1>1, <1>2 DEF Heard
<1>4. OpenEntry(m, p, c) = e /\ Timely(m, p, c)
  BY <1>2 DEF OpenEntry, Timely
<1>5. MachineOK(m) /\ Typed(m, p, c, h)
  BY <1>1 DEF QueueOK, Typed
<1> QED BY <1>1, <1>3, <1>4, <1>5 DEF QueueOK, p

LEMMA LoadedHandled ==
  ASSUME NEW m, NEW q, NEW d, NEW h, Typed(m, q, d, h), QueueOK(m, q, d, h), q # << >>,
         q[1].kind \in Shows, NEW c \in Adapters, c.pc = d.pc, c.latest = d.latest,
         c.entry = d.entry
  PROVE  /\ Typed(m, Tail(q), c, h) /\ QueueOK(m, Tail(q), c, h)
         /\ OpenEntry(m, Tail(q), c) = q[1].entry /\ OpenEntry(m, q, d) = q[1].entry
         /\ \A g \in Entries : ~Loading(m, Tail(q), g)
<1> DEFINE p == Tail(q)
           e == q[1].entry
<1>1. /\ e \in Entries /\ e <= Made(m) /\ d.latest \in {None, e}
      /\ p \in Seq(Events) /\ Sorted(p) /\ Chained(p) /\ Real(m, p, h) /\ Told(m, p, c)
      /\ Deaf(p, c) /\ Ahead(m, p, c)
      /\ p # << >> =>
           /\ p[1].kind = "start" => q[1].kind \notin Opens
           /\ p[1].kind # "start" => q[1].kind \in Opens /\ q[1].entry = p[1].entry
           /\ p[1].kind = "loaded" => q[1].kind = "start"
      /\ p = << >> => m.playing = e /\ m.loaded
  BY Beheaded
<1> HIDE DEF p
<1>2. e # None /\ q[1].kind \in Opens /\ q[1].kind # "start"
  BY <1>1, Values DEF Opens, Shows
<1>3. Heard(m, p, c)
  <2>1. Heard(m, q, d)
    BY DEF QueueOK
  <2> QED BY <1>1, <1>2, <2>1 DEF Heard
<1>4. OpenEntry(m, p, c) = e /\ OpenEntry(m, q, d) = e
  BY <1>1, <1>2 DEF OpenEntry
<1>5. Timely(m, p, c)
  BY <1>4 DEF QueueOK, Timely
<1>6. \A g \in Entries : ~Loading(m, p, g)
  BY <1>1, <1>2 DEF Loading
<1>7. MachineOK(m) /\ Typed(m, p, c, h)
  BY <1>1 DEF QueueOK, Typed
<1> QED BY <1>1, <1>3, <1>4, <1>5, <1>6, <1>7 DEF QueueOK, p

LEMMA EndHandled ==
  ASSUME NEW m, NEW q, NEW d, NEW h, Typed(m, q, d, h), QueueOK(m, q, d, h), q # << >>,
         q[1].kind \notin Opens, NEW c \in Adapters, c.pc = d.pc, c.latest = None
  PROVE  /\ Typed(m, Tail(q), c, h) /\ QueueOK(m, Tail(q), c, h)
         /\ OpenEntry(m, Tail(q), c) = None
         /\ \A g \in Entries : ~Loading(m, Tail(q), g)
<1> DEFINE p == Tail(q)
           e == q[1].entry
<1>1. /\ e \in Entries /\ e <= Made(m)
      /\ p \in Seq(Events) /\ Sorted(p) /\ Chained(p) /\ Real(m, p, h) /\ Told(m, p, c)
      /\ Deaf(p, c) /\ Ahead(m, p, c)
      /\ p # << >> => p[1].kind = "start"
      /\ p = << >> => m.playing = None
  BY Beheaded
<1> HIDE DEF p
<1>2. None <= Made(m) /\ "start" # "loaded"
  BY TypedFields, Numbers
<1>3. Heard(m, p, c)
  BY <1>1, <1>2 DEF Heard
<1>4. OpenEntry(m, p, c) = None /\ Timely(m, p, c)
  BY <1>1 DEF OpenEntry, Timely
<1>5. \A g \in Entries : ~Loading(m, p, g)
  BY <1>1, <1>2, Values DEF Loading
<1>6. MachineOK(m) /\ Typed(m, p, c, h)
  BY <1>1 DEF QueueOK, Typed
<1> QED BY <1>1, <1>3, <1>4, <1>5, <1>6 DEF QueueOK, p

\* The connection is lost or made again.
LEMMA QueueForgotten ==
  ASSUME NEW m, NEW q, NEW d, NEW h, Typed(m, q, d, h), QueueOK(m, q, d, h),
         NEW c \in Adapters, c.latest = None, c.pc \in {"lost", "accepted"}
  PROVE  Typed(m, << >>, c, h) /\ QueueOK(m, << >>, c, h)
<1>1. Made(m) \in Nat /\ m.current \in Entries \cup {None}
  BY TypedFields
<1>2. Typed(m, << >>, c, h)
  BY DEF Typed
<1>3. /\ Sorted(<< >>) /\ Chained(<< >>) /\ Told(m, << >>, c)
      /\ Deaf(<< >>, c) /\ Timely(m, << >>, c)
  BY DEF Sorted, Chained, Told, Deaf, Timely
<1>5. Real(m, << >>, h)
  BY DEF QueueOK, Real
<1>4. Ahead(m, << >>, c) /\ Heard(m, << >>, c)
  BY <1>1, Numbers DEF Ahead, Heard
<1> QED BY <1>2, <1>3, <1>4, <1>5 DEF QueueOK

-----------------------------------------------------------------------------
(* Which entries have owners, and which of them the transport may go to. *)

\* Nobody owns, and no playlist shows, an entry before mpv makes it.
OwnsMade(m, l, d) ==
  (\A e \in Entries : e > Made(m) => l.owner[e] = None) /\ d.entry <= Made(m)

\* Nobody owns an entry younger than one whose start or load is yet to be handled.
OwnsOpened(q, l) ==
  \A i \in 1 .. Len(q) : q[i].kind \in Opens =>
     \A e \in Entries : e > q[i].entry => l.owner[e] = None

\* The start of an owned entry takes the transport from nobody.
StartIsFree(m, q, l) ==
  \A e \in Entries : Coming(m, q, e) /\ l.owner[e] # None => l.active \in {None, l.owner[e]}

\* Since the playlist was read only one younger entry can have got an owner.
ReadIsFresh(l, d) ==
  d.pc = "read" /\ d.entry # None =>
     \A e \in Entries : e > d.entry /\ l.owner[e] # None =>
        e = d.latest /\ (l.owner[e] = l.active \/ l.attempts[l.owner[e]].revoked)

\* The transport is not behind the entry that plays, unless its owner may not have it.
LoadIsFree(m, q, l, d) ==
  OpenEntry(m, q, d) # None /\ l.owner[OpenEntry(m, q, d)] # None =>
     \/ l.active = None \/ l.attempts[l.active].entry >= OpenEntry(m, q, d)
     \/ l.attempts[l.owner[OpenEntry(m, q, d)]].revoked

\* Observations are kept for an entry that has no owner yet, and a playback-restart for one
\* that mpv has loaded.
LateOK(l, d, h) ==
  /\ d.lateLoaded => d.latest \in h /\ l.owner[d.latest] = None
  /\ d.lateStart => d.latest # None /\ l.owner[d.latest] = None
  /\ d.lateRestart => d.latest \in h

OwnOK(m, q, l, d, h) ==
  /\ OwnsMade(m, l, d) /\ OwnsOpened(q, l) /\ StartIsFree(m, q, l) /\ ReadIsFresh(l, d)
  /\ LoadIsFree(m, q, l, d) /\ LateOK(l, d, h)

LEMMA OwnAdvances ==
  ASSUME NEW m, NEW q, NEW l, NEW d, NEW h, NEW n, NEW p, NEW k, Typed(m, q, d, h),
         OwnOK(m, q, l, d, h), Advances(m, q, d, n, p), h \subseteq k, Typed(n, p, d, k),
         d.pc = "lost" => l.active = None
  PROVE  OwnOK(n, p, l, d, k)
<1>1. /\ Made(m) \in Nat /\ Made(n) \in Nat /\ d.entry \in Nat /\ \A e \in Entries : e \in Nat
      /\ \A i \in 1 .. Len(p) : p[i].entry \in Nat
  BY TypedFields, Numbers
<1>2. /\ Made(n) \in {Made(m), Made(m) + 1}
      /\ \A e \in Entries : Coming(n, p, e) => Coming(m, q, e) \/ e > Made(m)
      /\ \A i \in 1 .. Len(p) : p[i].kind \in Opens =>
            p[i].entry = Made(m) \/ \E j \in 1 .. Len(q) : p[i] = q[j]
      /\ d.pc # "lost" => OpenEntry(n, p, d) = OpenEntry(m, q, d)
  BY DEF Advances
<1>3. OwnsMade(n, l, d)
  BY <1>1, <1>2 DEF OwnOK, OwnsMade
<1>4. OwnsOpened(p, l)
  <2> SUFFICES ASSUME NEW i \in 1 .. Len(p), p[i].kind \in Opens, NEW e \in Entries, e > p[i].entry
               PROVE  l.owner[e] = None
    BY DEF OwnsOpened
  <2>1. CASE p[i].entry = Made(m)
    BY <2>1 DEF OwnOK, OwnsMade
  <2>2. CASE \E j \in 1 .. Len(q) : p[i] = q[j]
    BY <2>2 DEF OwnOK, OwnsOpened
  <2> QED BY <1>2, <2>1, <2>2
<1>5. StartIsFree(n, p, l)
  BY <1>2 DEF OwnOK, StartIsFree, OwnsMade
<1>6. LoadIsFree(n, p, l, d)
  <2>1. CASE d.pc = "lost"
    BY <2>1 DEF LoadIsFree
  <2>2. CASE d.pc # "lost"
    BY <1>2, <2>2 DEF OwnOK, LoadIsFree
  <2> QED BY <2>1, <2>2
<1>7. LateOK(l, d, k)
  BY DEF OwnOK, LateOK
<1> QED BY <1>3, <1>4, <1>5, <1>6, <1>7 DEF OwnOK

\* Owners and the transport go, and nobody gets them.
Shrinks(l, k) ==
  /\ \A e \in Entries : k.owner[e] \in {None, l.owner[e]}
  /\ k.active \in {None, l.active}
  /\ \A a \in Attempts : k.attempts[a].state # "none" /\ l.attempts[a].revoked =>
        k.attempts[a].revoked

LEMMA ShrinksOwners ==
  ASSUME NEW l, LifeOK(l), NEW k, LifeOK(k), Shrinks(l, k)
  PROVE  /\ \A e \in Entries : k.owner[e] # None =>
              /\ k.owner[e] = l.owner[e]
              /\ l.attempts[l.owner[e]].revoked => k.attempts[k.owner[e]].revoked
         /\ k.active # None => /\ k.active = l.active /\ k.active \in Attempts
                               /\ k.attempts[k.active].entry = l.attempts[l.active].entry
                               /\ k.attempts[k.active].entry \in Entries
<1>1. /\ k.owner \in [Entries -> Attempts \cup {None}] /\ k.active \in Attempts \cup {None}
      /\ k.attempts \in [Attempts -> LoadAttempt] /\ OwnersOK(k) /\ ActiveOK(k)
      /\ OwnersOK(l) /\ ActiveOK(l)
  BY LifeFields DEF LifeOK
<1>2. ASSUME NEW e \in Entries, k.owner[e] # None
      PROVE  /\ k.owner[e] = l.owner[e]
             /\ l.attempts[l.owner[e]].revoked => k.attempts[k.owner[e]].revoked
  <2>1. k.owner[e] = l.owner[e] /\ k.owner[e] \in Attempts
    BY <1>1, <1>2 DEF Shrinks
  <2>2. k.attempts[k.owner[e]].state # "none"
    BY <1>1, <1>2 DEF OwnersOK
  <2> QED BY <2>1, <2>2 DEF Shrinks
<1>3. ASSUME k.active # None
      PROVE  /\ k.active = l.active /\ k.active \in Attempts
             /\ k.attempts[k.active].entry = l.attempts[l.active].entry
             /\ k.attempts[k.active].entry \in Entries
  <2> DEFINE a == k.active
             e == k.attempts[a].entry
  <2>1. a = l.active /\ a \in Attempts
    BY <1>1, <1>3 DEF Shrinks
  <2>2. e \in Entries /\ k.attempts[a].state \notin {"none", "terminal"}
    BY <1>1, <1>3, <2>1 DEF ActiveOK, LoadAttempt
  <2>3. k.owner[e] = a
    BY <1>1, <2>1, <2>2, Values DEF OwnersOK
  <2>4. l.owner[e] = a /\ a # None
    BY <1>3, <2>2, <2>3 DEF Shrinks
  <2>5. l.attempts[a].entry = e
    BY <1>1, <2>2, <2>4 DEF OwnersOK
  <2> QED BY <2>1, <2>2, <2>5
<1> QED BY <1>2, <1>3

LEMMA OwnShrinks ==
  ASSUME NEW m, NEW q, NEW l, NEW d, NEW h, NEW k, NEW c, Typed(m, q, d, h), QueueOK(m, q, d, h),
         OwnOK(m, q, l, d, h), LifeOK(l), LifeOK(k), Shrinks(l, k),
         c.latest = d.latest, c.pc = "read" => c.entry = m.list,
         c.entry \in {None, m.list, d.entry},
         c.lateStart => d.lateStart, c.lateLoaded => d.lateLoaded, c.lateRestart => d.lateRestart
  PROVE  OwnOK(m, q, k, c, h)
<1>1. Made(m) \in Nat /\ \A e \in Entries : e \in Nat
  BY TypedFields, Numbers
<1>2. m.list \in {None, Made(m)}
  BY DEF QueueOK, MachineOK
<1>3. /\ \A e \in Entries : k.owner[e] # None =>
           /\ k.owner[e] = l.owner[e]
           /\ l.attempts[l.owner[e]].revoked => k.attempts[k.owner[e]].revoked
      /\ k.active # None => /\ k.active = l.active
                            /\ k.attempts[k.active].entry = l.attempts[l.active].entry
  BY ShrinksOwners
<1>4. OwnsMade(m, k, c)
  <2>1. None <= Made(m) /\ Made(m) <= Made(m)
    BY <1>1, Numbers
  <2> QED BY <1>2, <1>3, <2>1 DEF OwnOK, OwnsMade
<1>5. OwnsOpened(q, k) /\ StartIsFree(m, q, k)
  BY <1>3 DEF OwnOK, OwnsOpened, StartIsFree
<1>6. ReadIsFresh(k, c)
  <2> SUFFICES ASSUME c.pc = "read", c.entry # None, NEW e \in Entries, e > c.entry, k.owner[e] # None
               PROVE  FALSE
    BY DEF ReadIsFresh
  <2>1. e > Made(m)
    BY <1>2
  <2> QED BY <1>4, <2>1 DEF OwnsMade
<1>7. OpenEntry(m, q, c) = OpenEntry(m, q, d) /\ OpenEntry(m, q, d) \in Entries \cup {None}
  BY OpenIsMade DEF OpenEntry
<1>8. LoadIsFree(m, q, k, c)
  BY <1>3, <1>7 DEF OwnOK, LoadIsFree
<1>9. LateOK(k, c, h)
  <2>1. d.latest \in Entries \cup {None} /\ h \in SUBSET Entries
    BY TypedFields DEF Typed
  <2> QED BY <1>3, <2>1 DEF OwnOK, LateOK
<1> QED BY <1>4, <1>5, <1>6, <1>8, <1>9 DEF OwnOK

\* A start-file of e is handled.
LEMMA OwnStart ==
  ASSUME NEW m, NEW q, NEW l, NEW d, NEW h, NEW k, NEW c, Typed(m, q, d, h), QueueOK(m, q, d, h),
         OwnOK(m, q, l, d, h), LifeOK(l), LifeOK(k), q # << >>, q[1].kind = "start",
         \A f \in Entries \ {q[1].entry} : k.owner[f] = l.owner[f],
         k.owner[q[1].entry] # None =>
            \/ l.owner[q[1].entry] # None /\ k.active \in {None, k.owner[q[1].entry]}
            \/ k.active = k.owner[q[1].entry],
         c \in Adapters, c.pc = d.pc, c.latest = q[1].entry, c.entry = d.entry, ~c.lateLoaded,
         ~c.lateRestart,
         c.lateStart => k.owner[q[1].entry] = None
  PROVE  OwnOK(m, Tail(q), k, c, h)
<1> DEFINE e == q[1].entry
           p == Tail(q)
<1>1. /\ e \in Entries /\ e <= Made(m) /\ d.latest = None
      /\ \A i \in 1 .. Len(p) : \E j \in 1 .. Len(q) : p[i] = q[j]
      /\ \A g \in Entries : Coming(m, p, g) => g > e
  BY Beheaded
<1>2. OpenEntry(m, p, c) = e
  BY StartHandled
<1> HIDE DEF p
<1>3. \A g \in Entries : g > e => l.owner[g] = None /\ k.owner[g] = None
  <2>1. 1 \in 1 .. Len(q) /\ "start" \in Opens
    BY Behead DEF Typed, Opens
  <2>2. \A g \in Entries : g > e => l.owner[g] = None
    BY <2>1 DEF OwnOK, OwnsOpened
  <2>3. \A g \in Entries : g > e => g # e
    BY <1>1, Numbers
  <2> QED BY <2>2, <2>3
<1>4. OwnsMade(m, k, c)
  <2>1. \A g \in Entries : g > Made(m) => g > e
    BY <1>1, TypedFields, Numbers
  <2> QED BY <1>3, <2>1 DEF OwnOK, OwnsMade
<1>5. OwnsOpened(p, k)
  <2> SUFFICES ASSUME NEW i \in 1 .. Len(p), p[i].kind \in Opens, NEW g \in Entries, g > p[i].entry
               PROVE  k.owner[g] = None
    BY DEF OwnsOpened
  <2>1. PICK j \in 1 .. Len(q) : p[i] = q[j]
    BY <1>1
  <2>2. l.owner[g] = None
    BY <2>1 DEF OwnOK, OwnsOpened
  <2>3. CASE g = e
    <3>1. q[j].entry \in Nat /\ q[1].entry \in Nat /\ 1 \in 1 .. Len(q) /\ Len(q) \in Nat
      BY <1>1, TypedFields, Numbers, Behead
    <3>2. j = 1 \/ q[1].entry <= q[j].entry
      <4>1. 1 < j => q[1].entry <= q[j].entry
        BY <3>1 DEF QueueOK, Sorted
      <4> QED BY <3>1, <4>1
    <3> QED BY <2>1, <2>3, <3>1, <3>2
  <2> QED BY <2>2, <2>3
<1>6. StartIsFree(m, p, k)
  BY <1>1, <1>3 DEF StartIsFree
<1>7. ReadIsFresh(k, c)
  <2> SUFFICES ASSUME c.pc = "read", c.entry # None, NEW g \in Entries, g > c.entry, k.owner[g] # None
               PROVE  g = c.latest /\ (k.owner[g] = k.active \/ k.attempts[k.owner[g]].revoked)
    BY DEF ReadIsFresh
  <2>1. l.owner[g] = None
    BY <1>1, Values DEF OwnOK, ReadIsFresh
  <2>2. g = e
    BY <2>1
  <2> QED BY <2>1, <2>2
<1>8. LoadIsFree(m, p, k, c)
  <2> SUFFICES ASSUME k.owner[e] # None
               PROVE  k.active = None \/ k.attempts[k.active].entry >= e
    BY <1>2 DEF LoadIsFree
  <2>1. k.active \in {None, k.owner[e]}
    OBVIOUS
  <2>2. k.attempts[k.owner[e]].entry = e
    BY <1>1 DEF LifeOK, OwnersOK
  <2> QED BY <1>1, <2>1, <2>2, Numbers
<1>9. LateOK(k, c, h)
  BY <1>1, Values DEF LateOK
<1> QED BY <1>4, <1>5, <1>6, <1>7, <1>8, <1>9 DEF OwnOK, p

\* A file-loaded or a playback-restart of e is handled.
LEMMA OwnLoaded ==
  ASSUME NEW m, NEW q, NEW l, NEW d, NEW h, NEW k, NEW c, Typed(m, q, d, h), QueueOK(m, q, d, h),
         OwnOK(m, q, l, d, h), LifeOK(l), LifeOK(k), q # << >>, q[1].kind \in Shows,
         k.owner = l.owner,
         \A a \in Attempts : k.attempts[a].revoked = l.attempts[a].revoked,
         \/ k.active = l.active
         \/ l.active \in {None, l.owner[q[1].entry]} /\ k.active = l.owner[q[1].entry],
         c \in Adapters, c.pc = d.pc, c.latest = d.latest, c.entry = d.entry,
         c.lateStart => d.lateStart,
         c.lateLoaded => c.latest \in h /\ k.owner[c.latest] = None,
         c.lateRestart => c.latest \in h
  PROVE  OwnOK(m, Tail(q), k, c, h)
<1> DEFINE e == q[1].entry
           p == Tail(q)
<1>1. /\ e \in Entries /\ e <= Made(m) /\ d.latest \in {None, e}
      /\ \A i \in 1 .. Len(p) : \E j \in 1 .. Len(q) : p[i] = q[j]
      /\ \A g \in Entries : Coming(m, p, g) => g > e
  BY Beheaded
<1>2. OpenEntry(m, p, c) = e /\ OpenEntry(m, q, d) = e
  BY LoadedHandled
<1> HIDE DEF p
<1>3. \A g \in Entries : g > e => l.owner[g] = None
  <2>1. 1 \in 1 .. Len(q) /\ q[1].kind \in Opens
    BY Behead DEF Typed, Opens, Shows
  <2> QED BY <2>1 DEF OwnOK, OwnsOpened
<1>4. OwnsMade(m, k, c)
  BY DEF OwnOK, OwnsMade
<1>5. OwnsOpened(p, k)
  BY <1>1 DEF OwnOK, OwnsOpened
<1>6. StartIsFree(m, p, k)
  BY <1>1, <1>3 DEF StartIsFree
<1>7. /\ l.owner \in [Entries -> Attempts \cup {None}] /\ OwnersOK(l) /\ OwnersOK(k)
      /\ ActiveOK(l) /\ l.active \in Attempts \cup {None} /\ l.attempts \in [Attempts -> LoadAttempt]
  BY LifeFields DEF LifeOK
<1>8. ReadIsFresh(k, c)
  <2> SUFFICES ASSUME c.pc = "read", c.entry # None, NEW g \in Entries, g > c.entry, k.owner[g] # None
               PROVE  g = c.latest /\ (k.owner[g] = k.active \/ k.attempts[k.owner[g]].revoked)
    BY DEF ReadIsFresh
  <2>1. g = d.latest /\ (l.owner[g] = l.active \/ l.attempts[l.owner[g]].revoked)
    BY DEF OwnOK, ReadIsFresh
  <2>2. g = e /\ l.owner[g] \in Attempts
    BY <1>1, <1>7, <2>1, Values
  <2> QED BY <2>1, <2>2
<1>9. LoadIsFree(m, p, k, c)
  <2> SUFFICES ASSUME k.owner[e] # None, k.active # None, ~k.attempts[k.owner[e]].revoked
               PROVE  k.attempts[k.active].entry >= e
    BY <1>2 DEF LoadIsFree
  <2>1. k.attempts[k.owner[e]].entry = e /\ e >= e /\ k.owner[e] \in Attempts
    BY <1>1, <1>7, Numbers DEF OwnersOK
  <2>2. CASE k.active = l.owner[e]
    BY <2>1, <2>2
  <2>3. CASE k.active = l.active
    <3>1. l.attempts[l.active].entry >= e
      BY <1>1, <1>2, <2>1, <2>3, Values DEF OwnOK, LoadIsFree
    <3>2. /\ l.active \in Attempts /\ l.attempts[l.active].entry \in Entries
          /\ l.attempts[l.active].state \notin {"none", "terminal"}
      BY <1>7, <2>3 DEF ActiveOK, LoadAttempt
    <3>3. l.owner[l.attempts[l.active].entry] = l.active
      BY <1>7, <3>2, Values DEF OwnersOK
    <3>4. k.attempts[k.active].entry = l.attempts[l.active].entry
      BY <1>7, <2>3, <3>2, <3>3 DEF OwnersOK
    <3> QED BY <3>1, <3>4
  <2> QED BY <2>2, <2>3
<1>10. LateOK(k, c, h)
  BY DEF OwnOK, LateOK
<1> QED BY <1>4, <1>5, <1>6, <1>8, <1>9, <1>10 DEF OwnOK, p

\* An end-file of e is handled.
LEMMA OwnEnd ==
  ASSUME NEW m, NEW q, NEW l, NEW d, NEW h, NEW k, NEW c, Typed(m, q, d, h), QueueOK(m, q, d, h),
         OwnOK(m, q, l, d, h), LifeOK(l), LifeOK(k), q # << >>, q[1].kind \notin Opens,
         Shrinks(l, k), k.owner[q[1].entry] = None,
         c \in Adapters, c.pc = d.pc, c.latest = None, c.entry = d.entry,
         ~c.lateStart, ~c.lateLoaded, ~c.lateRestart
  PROVE  OwnOK(m, Tail(q), k, c, h)
<1> DEFINE e == q[1].entry
           p == Tail(q)
<1>1. /\ e \in Entries /\ d.latest \in {None, e}
      /\ \A i \in 1 .. Len(p) : \E j \in 1 .. Len(q) : p[i] = q[j]
      /\ \A g \in Entries : Coming(m, p, g) => Coming(m, q, g)
  BY Beheaded
<1>2. OpenEntry(m, p, c) = None
  BY EndHandled
<1> HIDE DEF p
<1>3. \A g \in Entries : k.owner[g] # None => k.owner[g] = l.owner[g] /\ g # e
  BY DEF Shrinks
<1>4. OwnsMade(m, k, c) /\ OwnsOpened(p, k)
  BY <1>1, <1>3 DEF OwnOK, OwnsMade, OwnsOpened
<1>5. StartIsFree(m, p, k)
  BY <1>1, <1>3 DEF OwnOK, StartIsFree, Shrinks
<1>6. ReadIsFresh(k, c)
  BY <1>1, <1>3, Values DEF OwnOK, ReadIsFresh
<1>7. LoadIsFree(m, p, k, c) /\ LateOK(k, c, h)
  BY <1>2 DEF LoadIsFree, LateOK
<1> QED BY <1>4, <1>5, <1>6, <1>7 DEF OwnOK, p

\* The playlist's only entry is reconciled with.
LEMMA OwnSnapshot ==
  ASSUME NEW m, NEW q, NEW l, NEW d, NEW h, NEW s, NEW k, NEW c, Typed(m, q, d, h),
         QueueOK(m, q, d, h), OwnOK(m, q, l, d, h), LifeOK(l), q = << >>, d.pc = "read",
         d.entry \in Entries, Snapped(l, s, d.entry), LifeOK(k), k.owner = s.owner,
         k.active \in {None, k.owner[d.entry]},
         \A a \in Attempts : l.attempts[a].revoked => k.attempts[a].revoked,
         c.pc = "publish", c.latest = d.latest, c.entry = d.entry,
         c.lateStart => d.lateStart /\ k.owner[d.latest] = None,
         c.lateLoaded => d.lateLoaded /\ k.owner[d.latest] = None, c.lateRestart => d.lateRestart
  PROVE  OwnOK(m, q, k, c, h)
<1> DEFINE E == d.entry
<1>1. E <= Made(m) /\ E \in Entries /\ Len(q) = 0
  BY DEF OwnOK, OwnsMade
<1>2. /\ \A f \in Entries \ {E} : k.owner[f] # None =>
           /\ k.owner[f] = l.owner[f]
           /\ l.active # None => l.owner[f] # l.active
  BY DEF Snapped
<1>3. \A f \in Entries : f > E /\ k.owner[f] # None =>
         f = d.latest /\ k.owner[f] = l.owner[f] /\ l.attempts[l.owner[f]].revoked
  <2> SUFFICES ASSUME NEW f \in Entries, f > E, k.owner[f] # None
               PROVE  f = d.latest /\ k.owner[f] = l.owner[f] /\ l.attempts[l.owner[f]].revoked
    OBVIOUS
  <2>1. f # E
    BY <1>1, Numbers
  <2>2. k.owner[f] = l.owner[f] /\ l.owner[f] # None /\ (l.active # None => l.owner[f] # l.active)
    BY <1>2, <2>1
  <2>3. f = d.latest /\ (l.owner[f] = l.active \/ l.attempts[l.owner[f]].revoked)
    BY <1>1, <2>2, Values DEF OwnOK, ReadIsFresh
  <2> QED BY <2>2, <2>3
<1>4. OwnsMade(m, k, c)
  <2> SUFFICES ASSUME NEW e \in Entries, e > Made(m) PROVE k.owner[e] = None
    BY <1>1 DEF OwnsMade
  <2>1. e # E
    BY <1>1, TypedFields, Numbers
  <2>2. l.owner[e] = None
    BY DEF OwnOK, OwnsMade
  <2> QED BY <1>2, <2>1, <2>2
<1>5. OwnsOpened(q, k)
  BY <1>1 DEF OwnsOpened
<1>6. StartIsFree(m, q, k)
  <2> SUFFICES ASSUME NEW e \in Entries, Coming(m, q, e), k.owner[e] # None
               PROVE  k.active \in {None, k.owner[e]}
    BY DEF StartIsFree
  <2>1. m.current = e /\ m.playing # e /\ e # None
    BY <1>1, Values DEF Coming
  <2>2. e = Made(m) /\ d.latest < e
    BY <2>1 DEF QueueOK, MachineOK, Ahead
  <2>3. CASE e = E
    BY <2>3
  <2>4. CASE e # E
    <3>1. e > E
      BY <1>1, <2>2, <2>4, Numbers
    <3> QED BY <1>3, <2>2, <3>1, Numbers
  <2> QED BY <2>3, <2>4
<1>7. ReadIsFresh(k, c)
  BY DEF ReadIsFresh
<1>8. OpenEntry(m, q, c) = OpenEntry(m, q, d) /\ OpenEntry(m, q, d) \in Entries \cup {None}
  BY OpenIsMade DEF OpenEntry
<1>9. LoadIsFree(m, q, k, c)
  <2> DEFINE o == OpenEntry(m, q, d)
  <2> SUFFICES ASSUME o # None, k.owner[o] # None, k.active # None
               PROVE  k.attempts[k.active].entry >= o \/ k.attempts[k.owner[o]].revoked
    BY <1>8 DEF LoadIsFree
  <2>1. o \in Entries
    BY <1>8
  <2> HIDE DEF o
  <2>2. k.active = k.owner[E] /\ k.attempts[k.active].entry = E
    BY DEF LifeOK, OwnersOK
  <2>3. CASE o <= E
    BY <1>1, <2>1, <2>2, <2>3, Numbers
  <2>4. CASE o > E
    <3>1. k.owner[o] = l.owner[o] /\ l.attempts[l.owner[o]].revoked
      BY <1>3, <2>1, <2>4
    <3>2. k.owner[o] \in Attempts
      BY <2>1, LifeFields DEF LifeOK
    <3> QED BY <3>1, <3>2
  <2> QED BY <1>1, <2>1, <2>3, <2>4, Numbers
<1>10. LateOK(k, c, h)
  BY DEF OwnOK, LateOK
<1> QED BY <1>4, <1>5, <1>6, <1>7, <1>9, <1>10 DEF OwnOK

\* The connection is lost or made again.
LEMMA OwnForgotten ==
  ASSUME NEW m, NEW k, NEW c, Made(m) \in Nat, k.active = None,
         \A e \in Entries : e > Made(m) => k.owner[e] = None,
         c.latest = None, c.pc # "read", c.entry = None, ~c.lateStart, ~c.lateLoaded,
         ~c.lateRestart, NEW h
  PROVE  OwnOK(m, << >>, k, c, h)
<1>1. OwnsMade(m, k, c)
  BY Numbers DEF OwnsMade
<1> QED BY <1>1 DEF OwnOK, OwnsOpened, StartIsFree, ReadIsFresh, LoadIsFree, LateOK

-----------------------------------------------------------------------------
(* What the adapter shows, the flags that make it ask, and the rest. *)

\* mpv has loaded the entry e, or one that was made after it.
Reached(e, h) == \E f \in h : e <= f

\* The adapter shows no quiescent attempt, and none as loaded before mpv has loaded its entry
\* or one that was made after it; what it shows without a known start is what the next
\* file-loaded is about.
ShownOK(m, q, l, d, h) ==
  /\ d.shown # None =>
       /\ l.attempts[d.shown].state # "quiescent" /\ d.shown < l.next
       /\ l.attempts[d.shown].state # "none" => l.attempts[d.shown].entry # None
  /\ d.shownLoaded => d.shown # None
  /\ d.shownLoaded =>
       \/ l.attempts[d.shown].loaded \/ l.attempts[d.shown].state = "none"
       \/ Reached(l.attempts[d.shown].entry, h)
  /\ \A e \in Entries : Loading(m, q, e) /\ d.latest = None /\ d.shown # None =>
       l.attempts[d.shown].entry \in {None, e}

\* The adapter shows the active attempt, and nothing that is over.
Agree(l, d) ==
  /\ l.active # None => d.shown = l.active
  /\ d.shown # None => l.attempts[d.shown].state \notin {"none", "terminal"}

FlagsOK(l, d) ==
  /\ l.troubled \/ Waiting(l) => l.required
  /\ d.pc \in {"idle", "sent"} /\ ~l.due /\ ~l.troubled /\ ~Waiting(l) => Agree(l, d)
  /\ d.pc = "publish" /\ ~l.troubled /\ ~Waiting(l) /\ l.active # None =>
       d.shown = l.active \/ l.attempts[l.active].entry = d.entry
  /\ d.pc \in {"idle", "sent"} /\ l.required =>
       l.troubled \/ l.deferred # << >> \/ Waiting(l) \/ (l.due /\ Stray(l))
  /\ d.pc = "publish" /\ l.required => l.troubled \/ l.deferred # << >> \/ Waiting(l)

\* At most one load is in flight.
InFlight(l, d) ==
  /\ \A a \in Attempts : l.attempts[a].state = "submitting" <=> d.pc = "sent" /\ a = l.next - 1
  /\ d.pc = "sent" => l.next - 1 \in Attempts
BatchOK(l, d) == \A a \in d.batch : l.attempts[a].state = "terminal"
CompletedOK(l, h) ==
  \A a \in Attempts : l.attempts[a].command = "completed" => l.attempts[a].entry \in h
DeferredMade(m, l) ==
  Distinct(l.deferred) /\ \A i \in 1 .. Len(l.deferred) : l.deferred[i] <= Made(m)

RestOK(m, l, d, h) ==
  /\ LifeOK(l) /\ DeferredOK(l) /\ l.next <= MaxAttempts + 1 /\ InFlight(l, d) /\ BatchOK(l, d)
  /\ CompletedOK(l, h) /\ DeferredMade(m, l)
  /\ d.pc = "lost" => l.active = None /\ d.shown = None

Firm(m, q, l, d, h) ==
  /\ Typed(m, q, d, h) /\ QueueOK(m, q, d, h) /\ OwnOK(m, q, l, d, h) /\ ShownOK(m, q, l, d, h)
  /\ RestOK(m, l, d, h)

\* The load in flight asks for a file.
Asked(l, d) == d.pc = "sent" => l.attempts[l.next - 1].target \in Targets

PlayerInv(m, q, l, d, h) == Firm(m, q, l, d, h) /\ FlagsOK(l, d) /\ Asked(l, d)

\* What may become of a shown attempt.
Stays(x, y) ==
  /\ y.state = "quiescent" => x.state = "quiescent"
  /\ x.state = "none" => y.state = "none"
  /\ y.state # "none" => (x.entry # None => y.entry = x.entry) /\ (x.loaded => y.loaded)

LEMMA ShownStays ==
  ASSUME NEW m, NEW q, NEW l, NEW d, NEW h, ShownOK(m, q, l, d, h), LifeOK(l),
         NEW n, NEW p, NEW k, NEW c, LifeOK(k), d.shown \in Attempts \cup {None},
         c.shown = d.shown, c.shownLoaded => d.shownLoaded, l.next <= k.next,
         \A e \in Entries : Loading(n, p, e) /\ c.latest = None =>
            Loading(m, q, e) /\ d.latest = None,
         d.shown # None => Stays(l.attempts[d.shown], k.attempts[d.shown])
  PROVE  ShownOK(n, p, k, c, h)
<1>1. CASE d.shown = None
  BY <1>1 DEF ShownOK
<1>2. CASE d.shown # None
  <2> DEFINE x == l.attempts[d.shown]
             y == k.attempts[d.shown]
  <2>1. Stays(x, y) /\ x.state # "quiescent" /\ (x.state # "none" => x.entry # None)
        /\ d.shown < l.next
    BY <1>2 DEF ShownOK
  <2>2. y.state = "none" => y.entry = None
    BY <1>2, NoAttemptOK DEF LifeOK, AttemptsOK, AttemptOK
  <2>3. l.next \in Nat /\ k.next \in Nat /\ d.shown \in Nat
    BY <1>2, LifeFields, Numbers DEF LifeOK
  <2>4. y.state # "quiescent" /\ (y.state # "none" => y.entry # None)
    BY <2>1 DEF Stays
  <2>5. d.shown < k.next
    BY <2>1, <2>3
  <2>6. c.shownLoaded => y.loaded \/ y.state = "none" \/ Reached(y.entry, h)
    <3>1. c.shownLoaded => x.loaded \/ x.state = "none" \/ Reached(x.entry, h)
      BY DEF ShownOK
    <3> QED BY <2>1, <3>1 DEF Stays
  <2>7. ASSUME NEW e \in Entries, Loading(n, p, e), c.latest = None PROVE y.entry \in {None, e}
    <3>1. x.entry \in {None, e}
      BY <1>2, <2>7 DEF ShownOK
    <3> QED BY <2>1, <2>2, <3>1 DEF Stays
  <2> QED BY <1>2, <2>4, <2>5, <2>6, <2>7 DEF ShownOK
<1> QED BY <1>1, <1>2

LEMMA ShownHidden ==
  ASSUME NEW m, NEW q, NEW l, NEW d, NEW h, d.shown = None, ~d.shownLoaded
  PROVE  ShownOK(m, q, l, d, h)
BY DEF ShownOK

LEMMA ShownAnew ==
  ASSUME NEW m, NEW q, NEW l, NEW d, NEW h, LifeOK(l), d.shown \in Attempts,
         l.attempts[d.shown].state \notin {"none", "quiescent"},
         l.attempts[d.shown].entry # None,
         d.shownLoaded =>
            l.attempts[d.shown].loaded \/ Reached(l.attempts[d.shown].entry, h),
         \A e \in Entries : Loading(m, q, e) /\ d.latest = None =>
            l.attempts[d.shown].entry \in {None, e}
  PROVE  ShownOK(m, q, l, d, h)
<1>1. d.shown < l.next
  BY LifeFields, Numbers DEF LifeOK, LinksOK
<1> QED BY <1>1, Values DEF ShownOK

LEMMA FlagsCarry ==
  ASSUME NEW l, NEW d, NEW k, NEW c, FlagsOK(l, d), k.required = l.required,
         k.troubled = l.troubled, k.deferred = l.deferred, l.due => k.due,
         Waiting(k) <=> Waiting(l), Stray(l) => Stray(k),
         c.pc = d.pc \/ (c.pc \in {"idle", "sent"} /\ d.pc \in {"idle", "sent"}),
         ~k.due /\ Agree(l, d) => Agree(k, c),
         c.pc = "publish" /\ k.active # None =>
            \/ c.shown = k.active
            \/ /\ l.active # None /\ (d.shown = l.active => c.shown = k.active)
               /\ l.attempts[l.active].entry = d.entry => k.attempts[k.active].entry = c.entry
  PROVE  FlagsOK(k, c)
<1>1. k.troubled \/ Waiting(k) => k.required
  BY DEF FlagsOK
<1>2. c.pc \in {"idle", "sent"} => d.pc \in {"idle", "sent"}
  OBVIOUS
<1>3. c.pc = "publish" => d.pc = "publish"
  OBVIOUS
<1>4. c.pc \in {"idle", "sent"} /\ ~k.due /\ ~k.troubled /\ ~Waiting(k) => Agree(k, c)
  BY <1>2 DEF FlagsOK
<1>5. c.pc = "publish" /\ ~k.troubled /\ ~Waiting(k) /\ k.active # None =>
        c.shown = k.active \/ k.attempts[k.active].entry = c.entry
  BY <1>3 DEF FlagsOK
<1>6. c.pc \in {"idle", "sent"} /\ k.required =>
        k.troubled \/ k.deferred # << >> \/ Waiting(k) \/ (k.due /\ Stray(k))
  BY <1>2 DEF FlagsOK
<1>7. c.pc = "publish" /\ k.required => k.troubled \/ k.deferred # << >> \/ Waiting(k)
  BY <1>3 DEF FlagsOK
<1> QED BY <1>1, <1>4, <1>5, <1>6, <1>7 DEF FlagsOK

\* A step of the reducer that completes no load.
LEMMA RestEvolves ==
  ASSUME NEW m, NEW l, NEW d, NEW h, RestOK(m, l, d, h), h \in SUBSET Entries, NEW k, NEW c,
         d.batch \in SUBSET Attempts,
         LifeOK(k), DeferredOK(k), Evolves(l, k), Uncompleted(l, k), k.next <= MaxAttempts + 1,
         DeferredMade(m, k), c.pc # "sent", d.pc # "sent", c.batch = d.batch,
         c.pc = "lost" => k.active = None /\ c.shown = None
  PROVE  RestOK(m, k, c, h)
<1>1. InFlight(k, c)
  <2>1. \A a \in Attempts : l.attempts[a].state # "submitting"
    BY DEF RestOK, InFlight
  <2>2. \A a \in Attempts : k.attempts[a].state # "submitting"
    BY <2>1 DEF Evolves, Grows
  <2> QED BY <2>2 DEF InFlight
<1>2. BatchOK(k, c)
  BY DEF RestOK, BatchOK, Evolves, Grows
<1>3. CompletedOK(k, h)
  <2> SUFFICES ASSUME NEW a \in Attempts, k.attempts[a].command = "completed"
               PROVE  k.attempts[a].entry \in h
    BY DEF CompletedOK
  <2>1. l.attempts[a].entry \in h
    BY DEF RestOK, CompletedOK, Uncompleted
  <2>2. l.attempts[a].entry # None
    BY <2>1, Values
  <2> QED BY <2>1, <2>2 DEF Evolves, Grows
<1> QED BY <1>1, <1>2, <1>3 DEF RestOK

LEMMA WithinMade ==
  ASSUME NEW m, NEW l, NEW k, DeferredMade(m, l), Within(k.deferred, l.deferred)
  PROVE  DeferredMade(m, k)
BY DEF DeferredMade, Within

\* A step of mpv.
LEMMA FirmAdvances ==
  ASSUME NEW m, NEW q, NEW l, NEW d, NEW h, NEW n, NEW p, NEW k, Firm(m, q, l, d, h),
         Typed(n, p, d, k), QueueOK(n, p, d, k), Advances(m, q, d, n, p), h \subseteq k
  PROVE  Firm(n, p, l, d, k)
<1>1. OwnOK(n, p, l, d, k)
  BY OwnAdvances DEF Firm, RestOK
<1>2. ShownOK(n, p, l, d, k)
  <2>1. CASE d.pc = "lost"
    <3>1. d.shown = None /\ ~d.shownLoaded
      BY <2>1 DEF Firm, RestOK, ShownOK
    <3> QED BY <3>1, ShownHidden
  <2>2. CASE d.pc # "lost"
    <3>1. Reached(l.attempts[d.shown].entry, h) => Reached(l.attempts[d.shown].entry, k)
      BY DEF Reached
    <3> QED BY <2>2, <3>1 DEF Firm, ShownOK, Advances
  <2> QED BY <2>1, <2>2
<1>3. DeferredMade(n, l)
  <2>1. Made(n) \in {Made(m), Made(m) + 1} /\ Made(m) \in Nat
    BY TypedFields DEF Advances, Firm
  <2>2. \A i \in 1 .. Len(l.deferred) : l.deferred[i] \in Nat /\ l.deferred[i] <= Made(m)
    <3>1. l.deferred \in Seq(Entries)
      BY LifeFields DEF Firm, RestOK, LifeOK
    <3> QED BY <3>1, Numbers DEF Firm, RestOK, DeferredMade
  <2> QED BY <2>1, <2>2 DEF Firm, RestOK, DeferredMade
<1>4. RestOK(n, l, d, k)
  BY <1>3 DEF Firm, RestOK, CompletedOK
<1> QED BY <1>1, <1>2, <1>4 DEF Firm

-----------------------------------------------------------------------------
(* The adapter's steps that handle no event. *)

LEMMA AtPc ==
  ASSUME NEW d \in Adapters, NEW pc \in {"idle", "sent", "accepted", "read", "publish", "lost"}
  PROVE  LET c == [d EXCEPT !.pc = pc] IN
         /\ c \in Adapters /\ c.pc = pc /\ c.entry = d.entry /\ c.latest = d.latest
         /\ c.lateStart = d.lateStart /\ c.lateLoaded = d.lateLoaded
         /\ c.lateRestart = d.lateRestart /\ c.shown = d.shown
         /\ c.shownLoaded = d.shownLoaded /\ c.batch = d.batch
BY DEF Adapters

LEMMA FirmTypes ==
  ASSUME NEW m, NEW q, NEW l, NEW d, NEW h, Firm(m, q, l, d, h)
  PROVE  /\ Typed(m, q, d, h) /\ QueueOK(m, q, d, h) /\ OwnOK(m, q, l, d, h)
         /\ ShownOK(m, q, l, d, h) /\ RestOK(m, l, d, h)
         /\ LifeOK(l) /\ DeferredOK(l) /\ d \in Adapters /\ h \in SUBSET Entries
         /\ d.shown \in Attempts \cup {None} /\ d.batch \in SUBSET Attempts
         /\ l \in Lives /\ l.attempts \in [Attempts -> LoadAttempt]
         /\ l.owner \in [Entries -> Attempts \cup {None}] /\ l.active \in Attempts \cup {None}
         /\ l.next \in Nat \ {0} /\ l.next <= MaxAttempts + 1
<1>1. Typed(m, q, d, h) /\ LifeOK(l) /\ RestOK(m, l, d, h)
  BY DEF Firm, RestOK
<1> QED BY <1>1, TypedFields, LifeFields DEF Firm, RestOK, Typed, LifeOK

\* A step of the adapter that moves neither the events nor the owners.
LEMMA FirmOfAdapter ==
  ASSUME NEW m, NEW q, NEW l, NEW d, NEW h, Firm(m, q, l, d, h), NEW k, NEW c \in Adapters,
         c.latest = d.latest, c.pc = "lost" <=> d.pc = "lost",
         c.pc \in {"read", "publish"} =>
            \/ c.entry = m.list
            \/ c.entry = d.entry /\ d.pc = "read" /\ c.pc = "publish",
         c.entry \in {None, m.list, d.entry},
         c.lateStart = d.lateStart, c.lateLoaded = d.lateLoaded,
         c.lateRestart = d.lateRestart,
         Shrinks(l, k), ShownOK(m, q, k, c, h), RestOK(m, k, c, h)
  PROVE  Firm(m, q, k, c, h)
<1>1. /\ Typed(m, q, d, h) /\ QueueOK(m, q, d, h) /\ OwnOK(m, q, l, d, h)
      /\ LifeOK(l) /\ LifeOK(k)
  BY FirmTypes DEF RestOK
<1>2. Typed(m, q, c, h)
  BY <1>1 DEF Typed
<1>3. QueueOK(m, q, c, h)
  BY <1>1, QueueOfAdapter
<1>4. OwnOK(m, q, k, c, h)
  BY <1>1, OwnShrinks
<1> QED BY <1>2, <1>3, <1>4 DEF Firm

LEMMA StaysSame ==
  ASSUME NEW x
  PROVE  Stays(x, x)
BY DEF Stays

LEMMA GrowsStays ==
  ASSUME NEW x, NEW y, Grows(x, y), x.state = "none" => y.state = "none"
  PROVE  Stays(x, y)
BY DEF Stays, Grows

LEMMA OpenFileKeeps ==
  ASSUME NEW m, NEW q, NEW l, NEW d, NEW h, PlayerInv(m, q, l, d, h), d.pc = "idle",
         l.next <= MaxAttempts, NEW t \in Targets
  PROVE  LET k == Submitted(l, t, {m.list} \ {None})
             c == [d EXCEPT !.pc = "sent"] IN
         PlayerInv(m, q, k, c, h) /\ Permanent(l, k)
<1> DEFINE k == Submitted(l, t, {m.list} \ {None})
           c == [d EXCEPT !.pc = "sent"]
           a == l.next
<1>1. /\ ShownOK(m, q, l, d, h) /\ FlagsOK(l, d) /\ RestOK(m, l, d, h) /\ LifeOK(l) /\ DeferredOK(l)
      /\ d \in Adapters /\ d.shown \in Attempts \cup {None} /\ d.batch \in SUBSET Attempts
      /\ l.owner \in [Entries -> Attempts \cup {None}] /\ l.active \in Attempts \cup {None}
      /\ l.next \in Nat \ {0} /\ l.deferred \in Seq(Entries)
  BY FirmTypes, LifeFields DEF PlayerInv
<1>2. {m.list} \ {None} \in SUBSET Entries
  BY TypedFields DEF PlayerInv, Firm
<1>3. /\ LifeOK(k) /\ a \in Attempts /\ l.attempts[a] = NoAttempt
      /\ \A b \in Attempts \ {a} : k.attempts[b] = l.attempts[b]
      /\ k.attempts[a].state = "submitting" /\ k.attempts[a].command # "completed"
      /\ k.attempts[a].entry = None /\ ~k.attempts[a].revoked /\ k.attempts[a].target = t
      /\ k.owner = l.owner /\ k.active = l.active /\ k.deferred = l.deferred
      /\ k.required = l.required /\ k.troubled = l.troubled
      /\ k.next = l.next + 1 /\ k.due = l.due
  BY <1>1, <1>2, SubmittedKeeps
<1>4. /\ c \in Adapters /\ c.pc = "sent" /\ c.entry = d.entry /\ c.latest = d.latest
      /\ c.lateStart = d.lateStart /\ c.lateLoaded = d.lateLoaded
      /\ c.lateRestart = d.lateRestart /\ c.shown = d.shown
      /\ c.shownLoaded = d.shownLoaded /\ c.batch = d.batch
  BY <1>1, AtPc
<1> HIDE DEF k, c
<1>5. Shrinks(l, k)
  BY <1>3, NoAttemptOK DEF Shrinks
<1>6. d.shown # None => d.shown # a /\ k.attempts[d.shown] = l.attempts[d.shown]
  <2>1. d.shown # None => d.shown # a
    BY <1>1, Numbers DEF ShownOK
  <2> QED BY <1>1, <1>3, <2>1
<1>7. ShownOK(m, q, k, c, h)
  BY <1>1, <1>3, <1>4, <1>6, ShownStays, StaysSame
<1>8. (Waiting(k) <=> Waiting(l)) /\ (Stray(l) => Stray(k))
  BY <1>3, NoAttemptOK DEF Waiting, Stray
<1>9. FlagsOK(k, c)
  <2>1. Agree(l, d) => Agree(k, c)
    BY <1>3, <1>4, <1>6 DEF Agree
  <2> QED BY <1>1, <1>3, <1>4, <1>8, <2>1, FlagsCarry
<1>10. DeferredOK(k)
  <2> SUFFICES ASSUME NEW i \in 1 .. Len(k.deferred) PROVE Explained(k, k.deferred[i])
    BY DEF DeferredOK
  <2>1. Explained(l, l.deferred[i]) /\ l.deferred[i] \in Entries
    BY <1>1, <1>3 DEF DeferredOK
  <2>2. l.owner[l.deferred[i]] # None => l.owner[l.deferred[i]] \in Attempts \ {a}
    BY <1>1, <1>3, <2>1, NoAttemptOK DEF LifeOK, OwnersOK
  <2> QED BY <1>3, <2>1, <2>2 DEF Explained
<1>11. InFlight(k, c)
  <2>1. \A b \in Attempts : l.attempts[b].state # "submitting"
    BY <1>1 DEF RestOK, InFlight
  <2>2. k.next - 1 = a
    BY <1>1, <1>3
  <2> QED BY <1>3, <1>4, <2>1, <2>2 DEF InFlight
<1>12. BatchOK(k, c)
  BY <1>1, <1>3, <1>4, NoAttemptOK DEF RestOK, BatchOK
<1>13. CompletedOK(k, h)
  BY <1>1, <1>3 DEF RestOK, CompletedOK
<1>14. RestOK(m, k, c, h)
  <2>1. DeferredMade(m, k)
    BY <1>1, <1>3 DEF RestOK, DeferredMade
  <2>2. k.next <= MaxAttempts + 1
    BY <1>1, <1>3, Numbers
  <2> QED BY <1>3, <1>4, <1>10, <1>11, <1>12, <1>13, <2>1, <2>2 DEF RestOK
<1>15. PlayerInv(m, q, k, c, h)
  <2>1. Firm(m, q, l, d, h) /\ d.pc # "lost"
    BY DEF PlayerInv
  <2>2. Firm(m, q, k, c, h)
    BY <1>4, <1>5, <1>7, <1>14, <2>1, FirmOfAdapter
  <2>3. Asked(k, c)
    <3>1. k.next - 1 = a
      BY <1>1, <1>3
    <3> QED BY <1>3, <3>1 DEF Asked
  <2> QED BY <1>9, <2>2, <2>3 DEF PlayerInv
<1>16. Permanent(l, k)
  BY <1>3 DEF Permanent
<1> QED BY <1>15, <1>16 DEF k, c

\* The attempt of the load in flight.
SentOf(l) == Largest({a \in Live(l) : l.attempts[a].state = "submitting"})

LEMMA SentIsLast ==
  ASSUME NEW m, NEW q, NEW l, NEW d, NEW h, Firm(m, q, l, d, h), d.pc = "sent"
  PROVE  /\ SentOf(l) \in Attempts /\ l.attempts[SentOf(l)].state = "submitting"
         /\ \A b \in Attempts : l.attempts[b].state = "submitting" => b = SentOf(l)
         /\ SentOf(l) = l.next - 1
<1> DEFINE S == {a \in Live(l) : l.attempts[a].state = "submitting"}
<1>1. /\ InFlight(l, d) /\ l.next \in Nat \ {0} /\ l.next <= MaxAttempts + 1
  BY FirmTypes DEF RestOK
<1>2. S \in SUBSET Attempts
  BY DEF Live, Present
<1>3. l.next - 1 \in S
  BY <1>1 DEF InFlight, Live, Present
<1>4. \A b \in Attempts : l.attempts[b].state = "submitting" => b = l.next - 1
  BY <1>1 DEF InFlight
<1>5. Largest(S) \in S
  BY <1>2, <1>3, LargestOne
<1>6. Largest(S) = l.next - 1
  BY <1>2, <1>4, <1>5
<1> QED BY <1>2, <1>3, <1>4, <1>6 DEF SentOf

\* The timer, before or between the adapter's other steps.
LEMMA TimerFirm ==
  ASSUME NEW m, NEW q, NEW l, NEW d, NEW h, Firm(m, q, l, d, h), d.pc \in {"idle", "sent"}
  PROVE  LET k == TimerAdvanced(l)
             c == AfterTimer(k, d) IN
         /\ Firm(m, q, k, c, h) /\ Permanent(l, k) /\ c.pc = d.pc /\ k.next = l.next
         /\ \A a \in Attempts : l.attempts[a].revoked => k.attempts[a].revoked
         /\ c.shown = d.shown \/ (c.shown = None /\ k.attempts[d.shown].state = "quiescent")
<1> DEFINE k == TimerAdvanced(l)
           c == AfterTimer(k, d)
<1>1. /\ ShownOK(m, q, l, d, h) /\ RestOK(m, l, d, h) /\ LifeOK(l) /\ DeferredOK(l)
      /\ d \in Adapters /\ d.shown \in Attempts \cup {None} /\ d.batch \in SUBSET Attempts
      /\ l.active \in Attempts \cup {None} /\ l.next \in Nat \ {0}
  BY FirmTypes
<1>2. /\ LifeOK(k) /\ DeferredOK(k)
      /\ \A a \in Attempts : Ticks(l.attempts[a], k.attempts[a])
      /\ \A e \in Entries : k.owner[e] \in {None, l.owner[e]}
      /\ \/ k.active = l.active
         \/ k.active = None /\ k.due
      /\ k.deferred = l.deferred
      /\ k.troubled = l.troubled /\ k.tombs = l.tombs /\ k.next = l.next
  BY <1>1, TimerKeeps
<1> HIDE DEF k
<1>3. /\ c \in Adapters /\ c.pc = d.pc /\ c.entry = d.entry /\ c.latest = d.latest
      /\ c.lateStart = d.lateStart /\ c.lateLoaded = d.lateLoaded
      /\ c.lateRestart = d.lateRestart /\ c.batch = d.batch
      /\ \/ /\ c.shown = d.shown /\ c.shownLoaded = d.shownLoaded
            /\ d.shown # None => k.attempts[d.shown].state # "quiescent"
         \/ c.shown = None /\ ~c.shownLoaded /\ k.attempts[d.shown].state = "quiescent"
  <2>1. CASE d.shown # None /\ k.attempts[d.shown].state = "quiescent"
    <3>1. c = [d EXCEPT !.shown = None, !.shownLoaded = FALSE]
      BY <2>1 DEF AfterTimer, Hidden
    <3> QED BY <1>1, <2>1, <3>1, Values DEF Adapters
  <2>2. CASE ~(d.shown # None /\ k.attempts[d.shown].state = "quiescent")
    <3>1. c = d
      BY <2>2 DEF AfterTimer
    <3> QED BY <1>1, <2>2, <3>1
  <2> QED BY <2>1, <2>2
<1> HIDE DEF c
<1>4. \A a \in Attempts : /\ Same(l.attempts[a], k.attempts[a])
                          /\ (k.attempts[a].state = "submitting" <=> l.attempts[a].state = "submitting")
                          /\ (k.attempts[a].state = "none" <=> l.attempts[a].state = "none")
                          /\ (l.attempts[a].state = "terminal" => k.attempts[a].state = "terminal")
  BY <1>2 DEF Ticks
<1>5. Shrinks(l, k)
  BY <1>2, <1>4 DEF Shrinks, Same
<1>6. ShownOK(m, q, k, c, h)
  <2>1. CASE c.shown = None /\ ~c.shownLoaded
    BY <2>1, ShownHidden
  <2>2. CASE /\ c.shown = d.shown /\ c.shownLoaded = d.shownLoaded
             /\ d.shown # None => k.attempts[d.shown].state # "quiescent"
    <3>1. d.shown # None => Stays(l.attempts[d.shown], k.attempts[d.shown])
      BY <1>1, <1>4, <2>2 DEF Stays, Same
    <3>2. l.next <= k.next
      BY <1>1, <1>2
    <3> QED BY <1>1, <1>2, <1>3, <2>2, <3>1, <3>2, ShownStays
  <2> QED BY <1>3, <2>1, <2>2
<1>7. InFlight(k, c)
  BY <1>1, <1>2, <1>3, <1>4 DEF RestOK, InFlight
<1>8. BatchOK(k, c)
  BY <1>1, <1>3, <1>4 DEF RestOK, BatchOK
<1>9. CompletedOK(k, h)
  BY <1>1, <1>4 DEF RestOK, CompletedOK, Same
<1>10. RestOK(m, k, c, h)
  <2>1. DeferredMade(m, k) /\ k.next <= MaxAttempts + 1
    BY <1>1, <1>2 DEF RestOK, DeferredMade
  <2> QED BY <1>2, <1>3, <1>7, <1>8, <1>9, <2>1 DEF RestOK
<1>11. Firm(m, q, k, c, h)
  BY <1>3, <1>5, <1>6, <1>10, FirmOfAdapter
<1>12. Permanent(l, k)
  BY <1>2, Values DEF Permanent
<1>13. \A a \in Attempts : l.attempts[a].revoked => k.attempts[a].revoked
  BY <1>4 DEF Same
<1> QED BY <1>2, <1>3, <1>11, <1>12, <1>13 DEF k, c

LEMMA TickKeeps ==
  ASSUME NEW m, NEW q, NEW l, NEW d, NEW h, PlayerInv(m, q, l, d, h), d.pc = "idle"
  PROVE  LET k == TimerAdvanced(l)
             c == AfterTimer(k, d) IN
         PlayerInv(m, q, k, c, h) /\ Permanent(l, k)
<1> DEFINE k == TimerAdvanced(l)
           c == AfterTimer(k, d)
<1>1. /\ ShownOK(m, q, l, d, h) /\ RestOK(m, l, d, h) /\ LifeOK(l) /\ DeferredOK(l) /\ FlagsOK(l, d)
      /\ d.shown \in Attempts \cup {None} /\ l.active \in Attempts \cup {None}
      /\ l.attempts \in [Attempts -> LoadAttempt]
  BY FirmTypes DEF PlayerInv
<1>2. /\ Firm(m, q, k, c, h) /\ Permanent(l, k) /\ c.pc = d.pc
      /\ c.shown = d.shown \/ (c.shown = None /\ k.attempts[d.shown].state = "quiescent")
  <2>1. Firm(m, q, l, d, h) /\ d.pc \in {"idle", "sent"}
    BY DEF PlayerInv
  <2>2. LET kk == TimerAdvanced(l)
             cc == AfterTimer(kk, d) IN
         /\ Firm(m, q, kk, cc, h) /\ Permanent(l, kk) /\ cc.pc = d.pc /\ kk.next = l.next
         /\ \A a \in Attempts : l.attempts[a].revoked => kk.attempts[a].revoked
         /\ cc.shown = d.shown \/ (cc.shown = None /\ kk.attempts[d.shown].state = "quiescent")
    BY <2>1, TimerFirm
  <2> QED BY <2>2
<1>3. /\ LifeOK(k)
      /\ \A a \in Attempts : Ticks(l.attempts[a], k.attempts[a])
      /\ \/ k.active = l.active
         \/ k.active = None /\ k.due
      /\ (\E a \in Attempts : k.attempts[a].state = "quiescent"
                              /\ l.attempts[a].state # "quiescent") => k.due
      /\ l.due => k.due
      /\ k.required = (l.required /\ (Proactive(k) \/ k.deferred # << >> \/ k.troubled))
      /\ k.required => k.due
      /\ k.deferred = l.deferred /\ k.troubled = l.troubled
  BY <1>1, TimerKeeps
<1> HIDE DEF k, c
<1>4. \A a \in Attempts : k.attempts[a].state = l.attempts[a].state
        \/ (k.attempts[a].state = "quiescent" /\ l.attempts[a].state # "quiescent")
        \/ (k.attempts[a].state = "terminal" /\ l.attempts[a].state = "quiescent")
  BY <1>3 DEF Ticks
<1>5. Waiting(k) => Waiting(l)
  BY <1>4 DEF Waiting
<1>6. Waiting(k) => Proactive(k)
  BY <1>3 DEF Waiting, Proactive, Unbound, Live, Present, LifeOK, AttemptsOK, AttemptOK
<1>7. Proactive(k) => Waiting(k) \/ Stray(k)
  <2>1. \A a \in Attempts : k.attempts[a].state # "submitting"
    BY <1>2 DEF Firm, RestOK, InFlight
  <2> QED BY <2>1 DEF Waiting, Stray, Proactive, Unbound, Live, Present
<1>8. k.troubled \/ Waiting(k) => k.required
  BY <1>1, <1>3, <1>5, <1>6 DEF FlagsOK
<1>9. ASSUME ~k.due, ~k.troubled, ~Waiting(k) PROVE Agree(k, c)
  <2>1. ~l.due /\ ~l.troubled /\ k.active = l.active
    BY <1>3, <1>9
  <2>2. \A a \in Attempts : k.attempts[a].state = l.attempts[a].state
          \/ (k.attempts[a].state = "terminal" /\ l.attempts[a].state = "quiescent")
    BY <1>3, <1>4, <1>9
  <2>3. ~Waiting(l)
    BY <1>9, <2>2 DEF Waiting
  <2>4. Agree(l, d)
    BY <1>1, <2>1, <2>3 DEF FlagsOK
  <2>5. d.shown # None => k.attempts[d.shown].state = l.attempts[d.shown].state
                          /\ l.attempts[d.shown].state # "quiescent"
    BY <1>1, <2>2 DEF ShownOK
  <2>6. c.shown = d.shown
    <3>1. CASE d.shown = None
      BY <1>2, <3>1
    <3>2. CASE d.shown # None
      BY <1>2, <2>5, <3>2
    <3> QED BY <3>1, <3>2
  <2> QED BY <2>1, <2>4, <2>5, <2>6 DEF Agree
<1>10. k.required => k.troubled \/ k.deferred # << >> \/ Waiting(k) \/ (k.due /\ Stray(k))
  BY <1>3, <1>7
<1>11. FlagsOK(k, c)
  BY <1>2, <1>8, <1>9, <1>10 DEF FlagsOK
<1>12. Asked(k, c)
  BY <1>2 DEF Asked
<1> QED BY <1>2, <1>11, <1>12 DEF k, c, PlayerInv

\* mpv takes the load in flight.
LEMMA AcceptFirm ==
  ASSUME NEW m, NEW q, NEW l, NEW d, NEW h, Firm(m, q, l, d, h), d.pc = "sent",
         Made(m) < MaxEntries, NEW t \in Targets, NEW a, a = l.next - 1
  PROVE  LET k == Accepted(l, a)
             c == [d EXCEPT !.pc = "accepted"]
             n == Loadfile(m, t) IN
         PlayerInv(n, q, k, c, h) /\ k.active = l.active
<1> DEFINE k == Accepted(l, a)
           c == [d EXCEPT !.pc = "accepted"]
           n == Loadfile(m, t)
<1>1. /\ ShownOK(m, q, l, d, h) /\ RestOK(m, l, d, h) /\ LifeOK(l) /\ DeferredOK(l)
      /\ d \in Adapters /\ d.shown \in Attempts \cup {None} /\ d.batch \in SUBSET Attempts
      /\ l.attempts \in [Attempts -> LoadAttempt]
      /\ l.active \in Attempts \cup {None} /\ l.next \in Nat \ {0}
      /\ Typed(m, q, d, h) /\ QueueOK(m, q, d, h)
  BY FirmTypes
<1>2. /\ a \in Attempts /\ l.attempts[a].state = "submitting"
      /\ \A b \in Attempts : l.attempts[b].state = "submitting" => b = a
  BY <1>1 DEF RestOK, InFlight
<1>3. l.attempts[a].entry = None /\ ~l.attempts[a].revoked
  BY <1>1, <1>2 DEF LifeOK, AttemptsOK, AttemptOK
<1>4. /\ LifeOK(k) /\ DeferredOK(k) /\ Yielded(l, k, a)
      /\ k.attempts[a].state = "accepted" /\ k.attempts[a].entry = None
      /\ k.attempts[a].command # "completed" /\ ~k.attempts[a].revoked
      /\ k.owner = l.owner /\ k.active = l.active /\ k.next = l.next
      /\ LeftOf(k.deferred, l.deferred, l.owner) /\ k.required /\ k.due
  BY <1>1, <1>2, AcceptedKeeps
<1>5. /\ c \in Adapters /\ c.pc = "accepted" /\ c.entry = d.entry /\ c.latest = d.latest
      /\ c.lateStart = d.lateStart /\ c.lateLoaded = d.lateLoaded
      /\ c.lateRestart = d.lateRestart /\ c.shown = d.shown
      /\ c.shownLoaded = d.shownLoaded /\ c.batch = d.batch
  BY <1>1, AtPc
<1>6. /\ Typed(n, q, d, h) /\ QueueOK(n, q, d, h) /\ Advances(m, q, d, n, q)
      /\ Typed(m, q, c, h) /\ QueueOK(m, q, c, h)
  <2>1. Typed(m, q, c, h)
    BY <1>1, <1>5 DEF Typed
  <2>2. QueueOK(m, q, c, h)
    BY <1>1, <1>5, QueueOfAdapter
  <2>3. Typed(n, q, d, h) /\ QueueOK(n, q, d, h)
    BY <1>1, QueueOfLoadfile
  <2>4. Advances(m, q, d, n, q)
    BY <1>1, LoadfileAdvances
  <2> QED BY <2>1, <2>2, <2>3, <2>4
<1>7. Typed(n, q, c, h) /\ QueueOK(n, q, c, h) /\ Advances(m, q, c, n, q)
  BY <1>6, QueueOfLoadfile, LoadfileAdvances
<1> HIDE DEF k, c, n
<1>8. \A b \in Attempts \ {a} : Follows(l.attempts[b], k.attempts[b])
  BY <1>4 DEF Yielded
<1>9. Shrinks(l, k)
  BY <1>3, <1>4, <1>8 DEF Shrinks, Follows
<1>10. ShownOK(m, q, k, c, h)
  <2>1. d.shown # None => d.shown # a
    BY <1>1, <1>2, <1>3 DEF ShownOK
  <2>2. d.shown # None => Stays(l.attempts[d.shown], k.attempts[d.shown])
    BY <1>1, <1>8, <2>1 DEF Stays, Follows
  <2>3. l.next <= k.next
    BY <1>1, <1>4
  <2> QED BY <1>1, <1>4, <1>5, <2>2, <2>3, ShownStays
<1>11. InFlight(k, c)
  <2>1. \A b \in Attempts : k.attempts[b].state # "submitting"
    BY <1>2, <1>4, <1>8 DEF Follows
  <2> QED BY <1>5, <2>1 DEF InFlight
<1>12. BatchOK(k, c)
  BY <1>1, <1>2, <1>5, <1>8 DEF RestOK, BatchOK, Follows
<1>13. CompletedOK(k, h)
  BY <1>1, <1>4, <1>8 DEF RestOK, CompletedOK, Follows
<1>14. RestOK(m, k, c, h)
  <2>1. DeferredMade(m, k)
    BY <1>1, <1>4 DEF RestOK, DeferredMade, LeftOf
  <2>2. k.next <= MaxAttempts + 1
    BY <1>1, <1>4 DEF RestOK
  <2> QED BY <1>4, <1>5, <1>11, <1>12, <1>13, <2>1, <2>2 DEF RestOK
<1>15. Firm(m, q, k, c, h)
  BY <1>5, <1>9, <1>10, <1>14, FirmOfAdapter
<1>16. Firm(n, q, k, c, h)
  BY <1>7, <1>15, FirmAdvances
<1>17. FlagsOK(k, c) /\ Asked(k, c)
  BY <1>4, <1>5 DEF FlagsOK, Asked
<1> QED BY <1>4, <1>16, <1>17 DEF k, c, n, PlayerInv

LEMMA LoadAcceptedKeeps ==
  ASSUME NEW m, NEW q, NEW l, NEW d, NEW h, PlayerInv(m, q, l, d, h), d.pc = "sent",
         Made(m) < MaxEntries, NEW s \in {l, TimerAdvanced(l)}
  PROVE  LET n == Loadfile(m, l.attempts[SentOf(l)].target)
             k == Accepted(s, SentOf(l))
             c == [AfterTimer(s, d) EXCEPT !.pc = "accepted"] IN
         PlayerInv(n, q, k, c, h) /\ Permanent(l, k)
<1> DEFINE a == SentOf(l)
           t == l.attempts[a].target
           n == Loadfile(m, t)
           k == Accepted(s, a)
           b == AfterTimer(s, d)
           c == [b EXCEPT !.pc = "accepted"]
<1>1. Firm(m, q, l, d, h) /\ Asked(l, d)
  BY DEF PlayerInv
<1>2. a = l.next - 1 /\ t \in Targets
  BY <1>1, SentIsLast DEF Asked
<1>3. /\ Firm(m, q, s, b, h) /\ b.pc = "sent" /\ s.next = l.next /\ Permanent(l, s)
  <2>1. CASE s = l
    <3>1. d.shown # None => l.attempts[d.shown].state # "quiescent"
      BY <1>1 DEF Firm, ShownOK
    <3>2. b = d
      BY <2>1, <3>1 DEF AfterTimer
    <3>3. Permanent(l, s)
      BY <2>1 DEF Permanent
    <3> QED BY <1>1, <2>1, <3>2, <3>3
  <2>2. CASE s = TimerAdvanced(l)
    <3>1. LET kk == TimerAdvanced(l)
              cc == AfterTimer(kk, d) IN
          /\ Firm(m, q, kk, cc, h) /\ Permanent(l, kk) /\ cc.pc = d.pc /\ kk.next = l.next
          /\ \A x \in Attempts : l.attempts[x].revoked => kk.attempts[x].revoked
          /\ cc.shown = d.shown \/ (cc.shown = None /\ kk.attempts[d.shown].state = "quiescent")
      BY <1>1, TimerFirm
    <3> QED BY <2>2, <3>1
  <2> QED BY <2>1, <2>2
<1> HIDE DEF a, t, b
<1>4. PlayerInv(n, q, k, c, h) /\ k.active = s.active
  <2>1. a = s.next - 1
    BY <1>2, <1>3
  <2> QED BY <1>2, <1>3, <2>1, AcceptFirm
<1>5. Permanent(l, k)
  BY <1>3, <1>4 DEF Permanent
<1> QED BY <1>4, <1>5 DEF a, t, b

\* Somebody loads a file.
LEMMA LoadfileKeeps ==
  ASSUME NEW m, NEW q, NEW l, NEW d, NEW h, PlayerInv(m, q, l, d, h),
         Made(m) < MaxEntries, NEW t \in Targets
  PROVE  PlayerInv(Loadfile(m, t), q, l, d, h)
<1>1. Typed(m, q, d, h) /\ QueueOK(m, q, d, h) /\ Firm(m, q, l, d, h)
  BY DEF PlayerInv, Firm
<1> DEFINE n == Loadfile(m, t)
<1>2. Typed(n, q, d, h) /\ QueueOK(n, q, d, h) /\ Advances(m, q, d, n, q)
  BY <1>1, QueueOfLoadfile, LoadfileAdvances
<1> HIDE DEF n
<1>3. Firm(n, q, l, d, h)
  BY <1>1, <1>2, FirmAdvances
<1> QED BY <1>3 DEF n, PlayerInv

LEMMA LoadRejectedKeeps ==
  ASSUME NEW m, NEW q, NEW l, NEW d, NEW h, PlayerInv(m, q, l, d, h), d.pc = "sent"
  PROVE  LET k == Rejected(l, SentOf(l))
             c == [d EXCEPT !.pc = "idle"] IN
         PlayerInv(m, q, k, c, h) /\ Permanent(l, k)
<1> DEFINE a == SentOf(l)
           k == Rejected(l, a)
           c == [d EXCEPT !.pc = "idle"]
<1>1. /\ ShownOK(m, q, l, d, h) /\ FlagsOK(l, d) /\ RestOK(m, l, d, h) /\ LifeOK(l) /\ DeferredOK(l)
      /\ d \in Adapters /\ d.shown \in Attempts \cup {None} /\ d.batch \in SUBSET Attempts
      /\ l.owner \in [Entries -> Attempts \cup {None}] /\ l.active \in Attempts \cup {None}
      /\ l.next \in Nat \ {0} /\ Firm(m, q, l, d, h)
  BY FirmTypes DEF PlayerInv
<1>2. /\ a \in Attempts /\ l.attempts[a].state = "submitting"
      /\ \A b \in Attempts : l.attempts[b].state = "submitting" => b = a
  BY <1>1, SentIsLast
<1> HIDE DEF a
<1>3. l.attempts[a].entry = None
  BY <1>1, <1>2 DEF LifeOK, AttemptsOK, AttemptOK
<1>4. /\ Moves(l, k) /\ DeferredOK(k)
      /\ \A b \in Attempts : Same(l.attempts[b], k.attempts[b])
      /\ \A b \in Attempts : b \notin {a} => k.attempts[b] = l.attempts[b]
      /\ \A b \in Attempts : b \in {a} /\ l.attempts[b].state # "none" =>
             k.attempts[b].state = "terminal"
      /\ \A e \in Entries : k.owner[e] = (IF l.owner[e] \in {a} THEN None ELSE l.owner[e])
      /\ k.active = (IF l.active \in {a} THEN None ELSE l.active)
      /\ k.deferred = l.deferred /\ k.required = l.required /\ k.troubled = l.troubled
      /\ k.next = l.next /\ k.due = l.due
  <2>1. k = CommitAll(l, {a}, "neverStarted") /\ "neverStarted" \in Outcomes
    BY DEF Rejected, Commit, Outcomes
  <2> HIDE DEF k
  <2> QED BY <1>1, <2>1, CommitMoves
<1>5. /\ c \in Adapters /\ c.pc = "idle" /\ c.entry = d.entry /\ c.latest = d.latest
      /\ c.lateStart = d.lateStart /\ c.lateLoaded = d.lateLoaded
      /\ c.lateRestart = d.lateRestart /\ c.shown = d.shown
      /\ c.shownLoaded = d.shownLoaded /\ c.batch = d.batch
  BY <1>1, AtPc
<1> HIDE DEF k, c
<1>6. k.active = l.active
  BY <1>1, <1>3, <1>4 DEF LifeOK, ActiveOK
<1>7. k.attempts[a].state = "terminal" /\ \A b \in Attempts \ {a} : k.attempts[b] = l.attempts[b]
  BY <1>2, <1>4
<1>8. d.shown # None => d.shown # a /\ k.attempts[d.shown] = l.attempts[d.shown]
  <2>1. d.shown # None => d.shown # a
    BY <1>1, <1>2, <1>3 DEF ShownOK
  <2> QED BY <1>1, <1>7, <2>1
<1>9. LifeOK(k)
  BY <1>4 DEF Moves
<1>10. Shrinks(l, k)
  BY <1>4, <1>6 DEF Shrinks, Same
<1>11. ShownOK(m, q, k, c, h)
  <2>1. l.next <= k.next
    BY <1>1, <1>4
  <2> QED BY <1>1, <1>5, <1>8, <1>9, <2>1, ShownStays, StaysSame
<1>12. InFlight(k, c)
  <2>1. \A b \in Attempts : k.attempts[b].state # "submitting"
    BY <1>2, <1>7
  <2> QED BY <1>5, <2>1 DEF InFlight
<1>13. BatchOK(k, c)
  BY <1>1, <1>5, <1>7 DEF RestOK, BatchOK
<1>14. CompletedOK(k, h)
  BY <1>1, <1>4 DEF RestOK, CompletedOK, Same
<1>15. RestOK(m, k, c, h)
  <2>1. DeferredMade(m, k) /\ k.next <= MaxAttempts + 1
    BY <1>1, <1>4 DEF RestOK, DeferredMade
  <2> QED BY <1>4, <1>5, <1>9, <1>12, <1>13, <1>14, <2>1 DEF RestOK
<1>16. Firm(m, q, k, c, h)
  BY <1>1, <1>5, <1>10, <1>11, <1>15, FirmOfAdapter
<1>17. FlagsOK(k, c)
  <2>1. (Waiting(k) <=> Waiting(l)) /\ (Stray(l) => Stray(k))
    BY <1>2, <1>7 DEF Waiting, Stray
  <2>2. Agree(l, d) => Agree(k, c)
    BY <1>5, <1>6, <1>8 DEF Agree
  <2> QED BY <1>1, <1>4, <1>5, <2>1, <2>2, FlagsCarry
<1>18. Asked(k, c)
  BY <1>5 DEF Asked
<1> QED BY <1>4, <1>16, <1>17, <1>18 DEF k, c, a, PlayerInv, Moves

\* A step that changes none of the attempts and owners.
LEMMA FirmOfFlags ==
  ASSUME NEW m, NEW q, NEW l, NEW d, NEW h, Firm(m, q, l, d, h), NEW k \in Lives,
         k.attempts = l.attempts, k.owner = l.owner, k.active = l.active, k.ended = l.ended,
         k.next = l.next, k.deferred = l.deferred,
         NEW c \in Adapters, c.latest = d.latest, c.pc # "lost", d.pc # "lost",
         c.pc # "sent", d.pc # "sent",
         c.pc \in {"read", "publish"} =>
            \/ c.entry = m.list
            \/ c.entry = d.entry /\ d.pc = "read" /\ c.pc = "publish",
         c.entry \in {None, m.list, d.entry},
         c.lateStart = d.lateStart, c.lateLoaded = d.lateLoaded,
         c.lateRestart = d.lateRestart, BatchOK(l, c),
         ShownOK(m, q, l, c, h)
  PROVE  Firm(m, q, k, c, h) /\ Permanent(l, k)
<1>1. RestOK(m, l, d, h) /\ LifeOK(l) /\ DeferredOK(l)
  BY DEF Firm, RestOK
<1>2. LifeOK(k)
  BY <1>1, SameLife
<1>3. DeferredOK(k) /\ DeferredMade(m, k) /\ CompletedOK(k, h) /\ BatchOK(k, c)
  BY <1>1 DEF DeferredOK, Explained, RestOK, DeferredMade, CompletedOK, BatchOK
<1>4. InFlight(k, c)
  BY <1>1 DEF RestOK, InFlight
<1>5. RestOK(m, k, c, h)
  BY <1>1, <1>2, <1>3, <1>4 DEF RestOK
<1>6. ShownOK(m, q, k, c, h)
  BY DEF ShownOK
<1>7. Shrinks(l, k)
  BY DEF Shrinks
<1>8. Permanent(l, k)
  BY DEF Permanent
<1>9. Firm(m, q, k, c, h)
  BY <1>5, <1>6, <1>7, FirmOfAdapter
<1> QED BY <1>8, <1>9

LEMMA NotDue ==
  ASSUME NEW l \in Lives
  PROVE  LET k == [l EXCEPT !.due = FALSE] IN
         /\ k \in Lives /\ k.attempts = l.attempts /\ k.owner = l.owner /\ k.active = l.active
         /\ k.ended = l.ended /\ k.next = l.next /\ k.deferred = l.deferred
         /\ k.required = l.required /\ k.troubled = l.troubled /\ ~k.due
BY DEF Lives

LEMMA SameAttempts ==
  ASSUME NEW l, NEW k, k.attempts = l.attempts
  PROVE  (Waiting(k) <=> Waiting(l)) /\ (Stray(k) <=> Stray(l))
BY DEF Waiting, Stray

Reading(l, k) == k = l \/ k = [l EXCEPT !.due = FALSE]

LEMMA ReadPlaylistKeeps ==
  ASSUME NEW m, NEW q, NEW l, NEW d, NEW h, PlayerInv(m, q, l, d, h),
         d.pc \in {"accepted", "idle"}, NEW k, Reading(l, k)
  PROVE  LET c == [d EXCEPT !.pc = "read", !.entry = m.list] IN
         PlayerInv(m, q, k, c, h) /\ Permanent(l, k)
<1> DEFINE c == [d EXCEPT !.pc = "read", !.entry = m.list]
<1>1. /\ Firm(m, q, l, d, h) /\ FlagsOK(l, d) /\ ShownOK(m, q, l, d, h) /\ d \in Adapters /\ l \in Lives
      /\ RestOK(m, l, d, h) /\ m.list \in Entries \cup {None}
  BY FirmTypes, TypedFields DEF PlayerInv
<1>2. /\ k \in Lives /\ k.attempts = l.attempts /\ k.owner = l.owner /\ k.active = l.active
      /\ k.ended = l.ended /\ k.next = l.next /\ k.deferred = l.deferred
      /\ k.required = l.required /\ k.troubled = l.troubled
  BY <1>1, NotDue DEF Reading
<1>3. /\ c \in Adapters /\ c.pc = "read" /\ c.entry = m.list /\ c.latest = d.latest
      /\ c.lateStart = d.lateStart /\ c.lateLoaded = d.lateLoaded
      /\ c.lateRestart = d.lateRestart /\ c.shown = d.shown
      /\ c.shownLoaded = d.shownLoaded /\ c.batch = d.batch
  BY <1>1 DEF Adapters
<1> HIDE DEF c
<1>4. ShownOK(m, q, l, c, h)
  BY <1>1, <1>3 DEF ShownOK
<1>5. BatchOK(l, c)
  BY <1>1, <1>3 DEF RestOK, BatchOK
<1>6. d.pc # "lost" /\ d.pc # "sent" /\ c.pc # "lost" /\ c.pc # "sent"
  BY <1>3
<1>7. Firm(m, q, k, c, h) /\ Permanent(l, k)
  BY <1>1, <1>2, <1>3, <1>4, <1>5, <1>6, FirmOfFlags
<1>8. FlagsOK(k, c) /\ Asked(k, c)
  BY <1>1, <1>2, <1>3, SameAttempts DEF FlagsOK, Asked
<1> QED BY <1>7, <1>8 DEF c, PlayerInv

LEMMA ReadFailsKeeps ==
  ASSUME NEW m, NEW q, NEW l, NEW d, NEW h, PlayerInv(m, q, l, d, h),
         d.pc \in {"read", "publish"}
  PROVE  LET k == ReconciliationFailed(l)
             c == [d EXCEPT !.pc = "idle"] IN
         PlayerInv(m, q, k, c, h) /\ Permanent(l, k)
<1> DEFINE k == ReconciliationFailed(l)
           c == [d EXCEPT !.pc = "idle"]
<1>1. /\ Firm(m, q, l, d, h) /\ FlagsOK(l, d) /\ ShownOK(m, q, l, d, h) /\ d \in Adapters /\ l \in Lives
      /\ RestOK(m, l, d, h) /\ m.list \in Entries \cup {None}
  BY FirmTypes, TypedFields DEF PlayerInv
<1>2. /\ k \in Lives /\ k.attempts = l.attempts /\ k.owner = l.owner /\ k.active = l.active
      /\ k.ended = l.ended /\ k.next = l.next /\ k.deferred = l.deferred
      /\ k.required /\ k.troubled
  BY <1>1 DEF Lives, ReconciliationFailed
<1>3. /\ c \in Adapters /\ c.pc = "idle" /\ c.entry = d.entry /\ c.latest = d.latest
      /\ c.lateStart = d.lateStart /\ c.lateLoaded = d.lateLoaded
      /\ c.lateRestart = d.lateRestart /\ c.shown = d.shown
      /\ c.shownLoaded = d.shownLoaded /\ c.batch = d.batch
  BY <1>1, AtPc
<1> HIDE DEF c, k
<1>4. ShownOK(m, q, l, c, h)
  BY <1>1, <1>3 DEF ShownOK
<1>5. BatchOK(l, c)
  BY <1>1, <1>3 DEF RestOK, BatchOK
<1>6. d.pc # "lost" /\ d.pc # "sent" /\ c.pc # "lost" /\ c.pc # "sent"
      /\ c.pc \notin {"read", "publish"}
  BY <1>3
<1>7. Firm(m, q, k, c, h) /\ Permanent(l, k)
  BY <1>1, <1>2, <1>3, <1>4, <1>5, <1>6, FirmOfFlags
<1>8. FlagsOK(k, c) /\ Asked(k, c)
  BY <1>2, <1>3 DEF FlagsOK, Asked
<1> QED BY <1>7, <1>8 DEF c, k, PlayerInv

\* What the end of a reconciliation shows.
Published(l, d) ==
  LET a == l.active IN
  IF a = None THEN Hidden(d)
  ELSE IF l.attempts[a].entry # d.entry \/ d.shown = a THEN d
  ELSE Show(d, a, l.attempts[a].state = "active")

LEMMA PublishKeeps ==
  ASSUME NEW m, NEW q, NEW l, NEW d, NEW h, PlayerInv(m, q, l, d, h), d.pc = "publish",
         q = << >>
  PROVE  LET k == [l EXCEPT !.due = FALSE]
             c == [Published(l, d) EXCEPT !.pc = "idle", !.entry = None] IN
         PlayerInv(m, q, k, c, h) /\ Permanent(l, k)
<1> DEFINE k == [l EXCEPT !.due = FALSE]
           b == Published(l, d)
           c == [b EXCEPT !.pc = "idle", !.entry = None]
           a == l.active
<1>1. /\ Firm(m, q, l, d, h) /\ FlagsOK(l, d) /\ ShownOK(m, q, l, d, h) /\ d \in Adapters /\ l \in Lives
      /\ RestOK(m, l, d, h) /\ LifeOK(l) /\ l.active \in Attempts \cup {None}
      /\ Typed(m, q, d, h) /\ QueueOK(m, q, d, h) /\ OwnOK(m, q, l, d, h)
      /\ l.attempts \in [Attempts -> LoadAttempt]
  BY FirmTypes DEF PlayerInv
<1>2. /\ k \in Lives /\ k.attempts = l.attempts /\ k.owner = l.owner /\ k.active = l.active
      /\ k.ended = l.ended /\ k.next = l.next /\ k.deferred = l.deferred
      /\ k.required = l.required /\ k.troubled = l.troubled
  BY <1>1, NotDue
<1>3. /\ b \in Adapters /\ b.latest = d.latest /\ b.lateStart = d.lateStart
      /\ b.lateLoaded = d.lateLoaded /\ b.lateRestart = d.lateRestart /\ b.batch = d.batch
      /\ a = None => b.shown = None /\ ~b.shownLoaded
      /\ a # None => \/ b = d /\ (l.attempts[a].entry # d.entry \/ d.shown = a)
                     \/ /\ l.attempts[a].entry = d.entry /\ b.shown = a
                        /\ b.shownLoaded = (l.attempts[a].state = "active")
  <2>1. CASE a = None
    <3>1. b = [d EXCEPT !.shown = None, !.shownLoaded = FALSE]
      BY <2>1 DEF Published, Hidden
    <3> QED BY <1>1, <2>1, <3>1, Values DEF Adapters
  <2>2. CASE a # None /\ (l.attempts[a].entry # d.entry \/ d.shown = a)
    <3>1. b = d
      BY <2>2 DEF Published
    <3> QED BY <1>1, <2>2, <3>1
  <2>3. CASE a # None /\ ~(l.attempts[a].entry # d.entry \/ d.shown = a)
    <3> DEFINE v == (l.attempts[a].state = "active")
    <3>1. v \in BOOLEAN
      OBVIOUS
    <3>2. b = [d EXCEPT !.shown = a, !.shownLoaded = v]
      BY <2>3 DEF Published, Show
    <3> HIDE DEF v, b
    <3>3. b \in Adapters
      BY <1>1, <2>3, <3>1, <3>2 DEF Adapters
    <3>4. /\ b.latest = d.latest /\ b.lateStart = d.lateStart
          /\ b.lateLoaded = d.lateLoaded /\ b.lateRestart = d.lateRestart /\ b.batch = d.batch
          /\ b.shown = a /\ b.shownLoaded = v
      BY <1>1, <2>3, <3>1, <3>2 DEF Adapters
    <3> QED BY <2>3, <3>3, <3>4 DEF v
  <2> QED BY <2>1, <2>2, <2>3
<1> HIDE DEF b
<1>4. /\ c \in Adapters /\ c.pc = "idle" /\ c.entry = None /\ c.latest = d.latest
      /\ c.lateStart = d.lateStart /\ c.lateLoaded = d.lateLoaded
      /\ c.lateRestart = d.lateRestart /\ c.shown = b.shown
      /\ c.shownLoaded = b.shownLoaded /\ c.batch = d.batch
  BY <1>3, Values DEF Adapters
<1> HIDE DEF c, k
<1>5. ShownOK(m, q, l, c, h)
  <2>1. CASE a = None
    BY <1>3, <1>4, <2>1, ShownHidden
  <2>2. CASE b = d
    BY <1>1, <1>4, <2>2 DEF ShownOK
  <2>3. CASE a # None /\ l.attempts[a].entry = d.entry /\ b.shown = a
             /\ b.shownLoaded = (l.attempts[a].state = "active")
    <3>1. /\ a \in Attempts /\ l.attempts[a].state \notin {"none", "quiescent"}
          /\ l.attempts[a].entry # None
      BY <1>1, <2>3 DEF LifeOK, ActiveOK
    <3>2. c.shownLoaded => l.attempts[a].loaded
      BY <1>1, <1>4, <2>3, <3>1 DEF LifeOK, AttemptsOK, AttemptOK
    <3>3. ASSUME NEW e \in Entries, Loading(m, q, e), c.latest = None
          PROVE  l.attempts[a].entry = e
      <4>1. m.playing = e /\ m.current = e
        BY <3>3 DEF Loading
      <4>2. e = Made(m) /\ Made(m) \in Nat
        BY <1>1, <4>1, TypedFields, Numbers DEF QueueOK, MachineOK
      <4>3. OpenEntry(m, q, d) = e
        BY <1>4, <3>3, <4>1 DEF OpenEntry
      <4>4. d.entry >= e
        BY <1>1, <1>4, <2>3, <3>1, <3>3, <4>3, Numbers DEF QueueOK, Timely
      <4>5. d.entry <= Made(m) /\ d.entry \in Nat
        BY <1>1, TypedFields, Numbers DEF OwnOK, OwnsMade
      <4> QED BY <2>3, <4>2, <4>4, <4>5
    <3>4. c.shown = a
      BY <1>4, <2>3
    <3> QED BY <1>1, <3>1, <3>2, <3>3, <3>4, ShownAnew
  <2> QED BY <1>3, <2>1, <2>2, <2>3
<1>6. BatchOK(l, c)
  BY <1>1, <1>4 DEF RestOK, BatchOK
<1>7. d.pc # "lost" /\ d.pc # "sent" /\ c.pc # "lost" /\ c.pc # "sent"
      /\ c.pc \notin {"read", "publish"}
  BY <1>4
<1>8. Firm(m, q, k, c, h) /\ Permanent(l, k)
  BY <1>1, <1>2, <1>4, <1>5, <1>6, <1>7, FirmOfFlags
<1>9. ~l.troubled /\ ~Waiting(l) => Agree(k, c)
  <2> SUFFICES ASSUME ~l.troubled, ~Waiting(l) PROVE Agree(k, c)
    OBVIOUS
  <2>1. CASE a = None
    BY <1>2, <1>3, <1>4, <2>1 DEF Agree
  <2>2. CASE a # None
    <3>1. d.shown = a \/ l.attempts[a].entry = d.entry
      BY <1>1, <2>2 DEF FlagsOK
    <3>2. c.shown = a
      BY <1>3, <1>4, <2>2, <3>1
    <3>3. l.attempts[a].state \notin {"none", "terminal"}
      BY <1>1, <2>2 DEF LifeOK, ActiveOK
    <3> QED BY <1>2, <3>2, <3>3 DEF Agree
  <2> QED BY <2>1, <2>2
<1>10. FlagsOK(k, c) /\ Asked(k, c)
  BY <1>1, <1>2, <1>4, <1>9, SameAttempts DEF FlagsOK, Asked
<1> QED BY <1>8, <1>10 DEF k, c, b, PlayerInv

LEMMA PeekKeeps ==
  ASSUME NEW m, NEW q, NEW l, NEW d, NEW h, PlayerInv(m, q, l, d, h), d.pc = "idle"
  PROVE  LET c == [d EXCEPT !.batch = Present(l) \ Live(l)] IN
         PlayerInv(m, q, l, c, h) /\ Permanent(l, l)
<1> DEFINE B == Present(l) \ Live(l)
           c == [d EXCEPT !.batch = B]
<1>1. /\ Firm(m, q, l, d, h) /\ FlagsOK(l, d) /\ ShownOK(m, q, l, d, h) /\ d \in Adapters /\ l \in Lives
      /\ RestOK(m, l, d, h)
  BY FirmTypes DEF PlayerInv
<1>2. B \in SUBSET Attempts /\ \A a \in B : l.attempts[a].state = "terminal"
  BY DEF Present, Live
<1> HIDE DEF B
<1>3. /\ c \in Adapters /\ c.pc = "idle" /\ c.entry = d.entry /\ c.latest = d.latest
      /\ c.lateStart = d.lateStart /\ c.lateLoaded = d.lateLoaded
      /\ c.lateRestart = d.lateRestart /\ c.shown = d.shown
      /\ c.shownLoaded = d.shownLoaded /\ c.batch = B
  BY <1>1, <1>2 DEF Adapters
<1> HIDE DEF c
<1>4. ShownOK(m, q, l, c, h)
  BY <1>1, <1>3 DEF ShownOK
<1>5. BatchOK(l, c)
  BY <1>2, <1>3 DEF BatchOK
<1>6. d.pc # "lost" /\ d.pc # "sent" /\ c.pc # "lost" /\ c.pc # "sent"
      /\ c.pc \notin {"read", "publish"}
  BY <1>3
<1>7. Firm(m, q, l, c, h) /\ Permanent(l, l)
  BY <1>1, <1>3, <1>4, <1>5, <1>6, FirmOfFlags
<1>8. Agree(l, d) <=> Agree(l, c)
  BY <1>3 DEF Agree
<1>9. FlagsOK(l, c) /\ Asked(l, c)
  BY <1>1, <1>3, <1>8 DEF FlagsOK, Asked
<1> QED BY <1>7, <1>9 DEF B, c, PlayerInv

LEMMA AcknowledgeKeeps ==
  ASSUME NEW m, NEW q, NEW l, NEW d, NEW h, PlayerInv(m, q, l, d, h), d.pc = "idle"
  PROVE  LET k == CompactAll(l, d.batch)
             c == [d EXCEPT !.batch = {}] IN
         PlayerInv(m, q, k, c, h) /\ Permanent(l, k)
<1> DEFINE S == d.batch
           k == CompactAll(l, S)
           c == [d EXCEPT !.batch = {}]
<1>1. /\ Firm(m, q, l, d, h) /\ FlagsOK(l, d) /\ ShownOK(m, q, l, d, h) /\ d \in Adapters /\ l \in Lives
      /\ RestOK(m, l, d, h) /\ LifeOK(l) /\ DeferredOK(l) /\ l.next \in Nat \ {0}
      /\ d.shown \in Attempts \cup {None} /\ S \in SUBSET Attempts
      /\ l.active \in Attempts \cup {None}
  BY FirmTypes DEF PlayerInv
<1>2. \A a \in S : l.attempts[a].state = "terminal"
  BY <1>1 DEF RestOK, BatchOK
<1>3. /\ LifeOK(k) /\ DeferredOK(k)
      /\ \A b \in S : k.attempts[b] = NoAttempt
      /\ \A b \in Attempts \ S :
           /\ k.attempts[b].entry = l.attempts[b].entry
           /\ k.attempts[b].revoked = l.attempts[b].revoked
           /\ k.attempts[b].loaded = l.attempts[b].loaded
           /\ k.attempts[b].command = l.attempts[b].command
           /\ \/ k.attempts[b].state = l.attempts[b].state
              \/ l.attempts[b].state = "superseded" /\ k.attempts[b].state = "mayEmit"
      /\ k.owner = l.owner /\ k.active = l.active /\ k.deferred = l.deferred
      /\ k.required = l.required /\ k.troubled = l.troubled
      /\ k.next = l.next /\ k.due = l.due
  BY <1>1, <1>2, CompactKeeps
<1>4. /\ c \in Adapters /\ c.pc = "idle" /\ c.entry = d.entry /\ c.latest = d.latest
      /\ c.lateStart = d.lateStart /\ c.lateLoaded = d.lateLoaded
      /\ c.lateRestart = d.lateRestart /\ c.shown = d.shown
      /\ c.shownLoaded = d.shownLoaded /\ c.batch = {}
  BY <1>1 DEF Adapters
<1> HIDE DEF k, c, S
<1>5. Shrinks(l, k)
  BY <1>3, NoAttemptOK DEF Shrinks
<1>6. ShownOK(m, q, k, c, h)
  <2>1. d.shown # None => Stays(l.attempts[d.shown], k.attempts[d.shown])
    <3>1. CASE d.shown \in S
      BY <1>3, <3>1, NoAttemptOK DEF Stays
    <3>2. CASE d.shown \in Attempts \ S
      BY <1>3, <3>2 DEF Stays
    <3> QED BY <1>1, <3>1, <3>2
  <2>2. l.next <= k.next
    BY <1>1, <1>3
  <2> QED BY <1>1, <1>3, <1>4, <2>1, <2>2, ShownStays
<1>7. InFlight(k, c) /\ BatchOK(k, c)
  <2>1. \A b \in Attempts : k.attempts[b].state # "submitting"
    BY <1>1, <1>3, NoAttemptOK DEF RestOK, InFlight
  <2> QED BY <1>4, <2>1 DEF InFlight, BatchOK
<1>8. CompletedOK(k, h)
  BY <1>1, <1>3, NoAttemptOK DEF RestOK, CompletedOK
<1>9. RestOK(m, k, c, h)
  <2>1. DeferredMade(m, k) /\ k.next <= MaxAttempts + 1
    BY <1>1, <1>3 DEF RestOK, DeferredMade
  <2> QED BY <1>3, <1>4, <1>7, <1>8, <2>1 DEF RestOK
<1>10. Firm(m, q, k, c, h)
  BY <1>1, <1>4, <1>5, <1>6, <1>9, FirmOfAdapter
<1>11. FlagsOK(k, c) /\ Asked(k, c)
  <2>1. (Waiting(k) <=> Waiting(l)) /\ (Stray(l) => Stray(k))
    BY <1>2, <1>3, NoAttemptOK DEF Waiting, Stray
  <2>2. Agree(l, d) => Agree(k, c)
    BY <1>1, <1>2, <1>3, <1>4 DEF Agree
  <2>3. FlagsOK(k, c)
    BY <1>1, <1>3, <1>4, <2>1, <2>2, FlagsCarry
  <2> QED BY <1>4, <2>3 DEF Asked
<1>12. Permanent(l, k)
  BY <1>3 DEF Permanent
<1> QED BY <1>10, <1>11, <1>12 DEF k, c, S, PlayerInv

LEMMA FreshAdapterFields ==
  ASSUME NEW pc \in {"idle", "accepted", "lost"}, NEW B \in SUBSET Attempts
  PROVE  LET c == [FreshAdapter(pc) EXCEPT !.batch = B] IN
         /\ c \in Adapters /\ c.pc = pc /\ c.entry = None /\ c.latest = None
         /\ ~c.lateStart /\ ~c.lateLoaded /\ ~c.lateRestart
         /\ c.shown = None /\ ~c.shownLoaded /\ c.batch = B
<1>1. None \in Entries \cup {None} /\ None \in Attempts \cup {None} /\ {} \in SUBSET Attempts
  BY Values
<1> QED BY <1>1 DEF Adapters, FreshAdapter

LEMMA DisconnectKeeps ==
  ASSUME NEW m, NEW q, NEW l, NEW d, NEW h, PlayerInv(m, q, l, d, h), d.pc = "idle", NEW k,
         \/ k = CommitAll(l, Live(l), "disconnected")
         \/ l.active = None /\ k = l
  PROVE  LET c == [FreshAdapter("lost") EXCEPT !.batch = d.batch] IN
         PlayerInv(m, << >>, k, c, h) /\ Permanent(l, k)
<1> DEFINE c == [FreshAdapter("lost") EXCEPT !.batch = d.batch]
<1>1. /\ Firm(m, q, l, d, h) /\ FlagsOK(l, d) /\ d \in Adapters /\ l \in Lives
      /\ RestOK(m, l, d, h) /\ LifeOK(l) /\ DeferredOK(l) /\ l.next \in Nat \ {0}
      /\ d.batch \in SUBSET Attempts /\ h \in SUBSET Entries /\ l.active \in Attempts \cup {None}
      /\ Typed(m, q, d, h) /\ QueueOK(m, q, d, h) /\ OwnOK(m, q, l, d, h)
  BY FirmTypes DEF PlayerInv
<1>2. /\ Moves(l, k) /\ DeferredOK(k) /\ k.active = None
      /\ \A e \in Entries : k.owner[e] \in {None, l.owner[e]}
      /\ k.required = l.required /\ k.troubled = l.troubled /\ k.next = l.next
  <2>1. CASE k = CommitAll(l, Live(l), "disconnected")
    <3>1. "disconnected" \in Outcomes
      BY DEF Outcomes
    <3>2. /\ Moves(l, k) /\ (DeferredOK(l) => DeferredOK(k))
          /\ \A e \in Entries : k.owner[e] = (IF l.owner[e] \in Live(l) THEN None ELSE l.owner[e])
          /\ k.active = (IF l.active \in Live(l) THEN None ELSE l.active)
          /\ k.required = l.required /\ k.troubled = l.troubled /\ k.next = l.next
      BY <1>1, <2>1, <3>1, CommitMoves
    <3>3. l.active # None => l.active \in Live(l)
      BY <1>1 DEF LifeOK, ActiveOK, Live, Present
    <3> QED BY <1>1, <3>2, <3>3
  <2>2. CASE l.active = None /\ k = l
    BY <1>1, <2>2, MovesIsReflexive
  <2> QED BY <2>1, <2>2
<1>3. /\ c \in Adapters /\ c.pc = "lost" /\ c.entry = None /\ c.latest = None
      /\ ~c.lateStart /\ ~c.lateLoaded /\ ~c.lateRestart
      /\ c.shown = None /\ ~c.shownLoaded /\ c.batch = d.batch
  <2>1. "lost" \in {"idle", "accepted", "lost"}
    OBVIOUS
  <2> QED BY <1>1, <2>1, FreshAdapterFields
<1> HIDE DEF c
<1>4. LifeOK(k) /\ Evolves(l, k) /\ Uncompleted(l, k) /\ Within(k.deferred, l.deferred)
      /\ Permanent(l, k)
  BY <1>2 DEF Moves
<1>5. RestOK(m, k, c, h)
  <2>1. k.next <= MaxAttempts + 1
    BY <1>1, <1>2 DEF RestOK
  <2>2. DeferredMade(m, k)
    BY <1>1, <1>4, WithinMade DEF RestOK
  <2>3. c.pc # "sent" /\ d.pc # "sent"
    BY <1>3
  <2> QED BY <1>1, <1>2, <1>3, <1>4, <2>1, <2>2, <2>3, RestEvolves
<1>6. Typed(m, << >>, c, h) /\ QueueOK(m, << >>, c, h)
  <2>1. c.pc \in {"lost", "accepted"}
    BY <1>3
  <2> QED BY <1>1, <1>3, <2>1, QueueForgotten
<1>7. OwnOK(m, << >>, k, c, h)
  <2>1. Made(m) \in Nat /\ \A e \in Entries : e > Made(m) => k.owner[e] = None
    BY <1>1, <1>2, TypedFields DEF OwnOK, OwnsMade
  <2>2. c.pc # "read"
    BY <1>3
  <2> QED BY <1>2, <1>3, <2>1, <2>2, OwnForgotten
<1>8. ShownOK(m, << >>, k, c, h)
  BY <1>3, ShownHidden
<1>9. FlagsOK(k, c) /\ Asked(k, c)
  <2>1. Waiting(k) => Waiting(l)
    BY <1>4 DEF Waiting, Evolves, Grows
  <2> QED BY <1>1, <1>2, <1>3, <2>1 DEF FlagsOK, Asked
<1> QED BY <1>4, <1>5, <1>6, <1>7, <1>8, <1>9 DEF c, Firm, PlayerInv

LEMMA AttachKeeps ==
  ASSUME NEW m, NEW q, NEW l, NEW d, NEW h, PlayerInv(m, q, l, d, h)
  PROVE  LET k == FreshLife(l.next)
             c == FreshAdapter("accepted") IN
         PlayerInv(m, << >>, k, c, h) /\ Permanent(l, k)
<1> DEFINE k == FreshLife(l.next)
           c == FreshAdapter("accepted")
<1>1. /\ RestOK(m, l, d, h) /\ l.next \in Nat \ {0} /\ l.next <= MaxAttempts + 1
      /\ Typed(m, q, d, h) /\ QueueOK(m, q, d, h)
  BY FirmTypes DEF PlayerInv
<1>2. /\ LifeOK(k) /\ DeferredOK(k) /\ k.next = l.next /\ k.active = None
      /\ \A a \in Attempts : k.attempts[a] = NoAttempt
      /\ \A e \in Entries : k.owner[e] = None
      /\ k.deferred = << >> /\ k.required = TRUE /\ k.troubled = FALSE /\ k.due = TRUE
  BY <1>1, FreshLifeOK
<1>3. /\ c \in Adapters /\ c.pc = "accepted" /\ c.entry = None /\ c.latest = None
      /\ ~c.lateStart /\ ~c.lateLoaded /\ ~c.lateRestart
      /\ c.shown = None /\ ~c.shownLoaded /\ c.batch = {}
  <2>1. None \in Entries \cup {None} /\ None \in Attempts \cup {None}
    BY Values
  <2> QED BY <2>1 DEF Adapters, FreshAdapter
<1> HIDE DEF k, c
<1>4. RestOK(m, k, c, h)
  <2>1. InFlight(k, c) /\ BatchOK(k, c) /\ CompletedOK(k, h)
    BY <1>2, <1>3, NoAttemptOK DEF InFlight, BatchOK, CompletedOK
  <2>2. DeferredMade(m, k)
    BY <1>2 DEF DeferredMade, Distinct
  <2> QED BY <1>1, <1>2, <1>3, <2>1, <2>2 DEF RestOK
<1>5. Typed(m, << >>, c, h) /\ QueueOK(m, << >>, c, h)
  <2>1. c.pc \in {"lost", "accepted"}
    BY <1>3
  <2> QED BY <1>1, <1>3, <2>1, QueueForgotten
<1>6. OwnOK(m, << >>, k, c, h)
  <2>1. Made(m) \in Nat /\ \A e \in Entries : e > Made(m) => k.owner[e] = None
    BY <1>1, <1>2, TypedFields
  <2>2. c.pc # "read"
    BY <1>3
  <2> QED BY <1>2, <1>3, <2>1, <2>2, OwnForgotten
<1>7. ShownOK(m, << >>, k, c, h)
  BY <1>3, ShownHidden
<1>8. FlagsOK(k, c) /\ Asked(k, c) /\ Permanent(l, k)
  BY <1>2, <1>3, Values DEF FlagsOK, Asked, Permanent
<1> QED BY <1>4, <1>5, <1>6, <1>7, <1>8 DEF c, k, Firm, PlayerInv

-----------------------------------------------------------------------------
(* mpv's steps. *)

LEMMA StepOfMpv ==
  ASSUME NEW m, NEW q, NEW l, NEW d, NEW h, NEW n, NEW p, NEW k, PlayerInv(m, q, l, d, h),
         Typed(n, p, d, k), QueueOK(n, p, d, k), Advances(m, q, d, n, p), h \subseteq k
  PROVE  PlayerInv(n, p, l, d, k)
<1>1. Firm(n, p, l, d, k)
  BY FirmAdvances DEF PlayerInv
<1> QED BY <1>1 DEF PlayerInv

\* Each of mpv's steps by itself.
LEMMA MpvKeeps ==
  ASSUME NEW m, NEW q, NEW l, NEW d, NEW h, PlayerInv(m, q, l, d, h)
  PROVE  /\ PlayerInv([m EXCEPT !.list = None, !.current = None], q, l, d, h)
         /\ m.playing \notin {None, m.current} =>
              PlayerInv([m EXCEPT !.playing = None, !.loaded = FALSE],
                        Emitted(q, d, [kind |-> "stopped", entry |-> m.playing]), l, d, h)
         /\ m.playing = None /\ m.current # None =>
              PlayerInv([m EXCEPT !.playing = m.current],
                        Emitted(q, d, [kind |-> "start", entry |-> m.current]), l, d, h)
         /\ m.playing = m.current /\ m.playing # None /\ ~m.loaded =>
              PlayerInv([m EXCEPT !.loaded = TRUE],
                        Emitted(q, d, [kind |-> "loaded", entry |-> m.playing]), l, d,
                        h \cup {m.playing})
         /\ m.playing = m.current /\ m.loaded =>
              PlayerInv(m, Emitted(q, d, [kind |-> "restart", entry |-> m.playing]), l, d, h)
         /\ \A o \in {"ended", "failed"} : m.playing = m.current /\ m.playing # None =>
              PlayerInv([m EXCEPT !.playing = None, !.current = None, !.loaded = FALSE],
                        Emitted(q, d, [kind |-> o, entry |-> m.playing]), l, d, h)
<1>1. Typed(m, q, d, h) /\ QueueOK(m, q, d, h)
  BY DEF PlayerInv, Firm
<1>2. PlayerInv([m EXCEPT !.list = None, !.current = None], q, l, d, h)
  <2> DEFINE n == [m EXCEPT !.list = None, !.current = None]
  <2>1. Typed(n, q, d, h) /\ QueueOK(n, q, d, h) /\ Advances(m, q, d, n, q)
    BY <1>1, MpvStops
  <2> HIDE DEF n
  <2>2. PlayerInv(n, q, l, d, h)
    BY <2>1, StepOfMpv
  <2> QED BY <2>2 DEF n
<1>3. ASSUME m.playing \notin {None, m.current}
      PROVE  PlayerInv([m EXCEPT !.playing = None, !.loaded = FALSE],
                       Emitted(q, d, [kind |-> "stopped", entry |-> m.playing]), l, d, h)
  <2> DEFINE n == [m EXCEPT !.playing = None, !.loaded = FALSE]
             p == Emitted(q, d, [kind |-> "stopped", entry |-> m.playing])
  <2>1. Typed(n, p, d, h) /\ QueueOK(n, p, d, h) /\ Advances(m, q, d, n, p)
    BY <1>1, <1>3, MpvUnloads
  <2> HIDE DEF n, p
  <2>2. PlayerInv(n, p, l, d, h)
    BY <2>1, StepOfMpv
  <2> QED BY <2>2 DEF n, p
<1>4. ASSUME m.playing = None, m.current # None
      PROVE  PlayerInv([m EXCEPT !.playing = m.current],
                        Emitted(q, d, [kind |-> "start", entry |-> m.current]), l, d, h)
  <2> DEFINE n == [m EXCEPT !.playing = m.current]
             p == Emitted(q, d, [kind |-> "start", entry |-> m.current])
  <2>1. Typed(n, p, d, h) /\ QueueOK(n, p, d, h) /\ Advances(m, q, d, n, p)
    BY <1>1, <1>4, MpvStarts
  <2> HIDE DEF n, p
  <2>2. PlayerInv(n, p, l, d, h)
    BY <2>1, StepOfMpv
  <2> QED BY <2>2 DEF n, p
<1>5. ASSUME m.playing = m.current, m.playing # None, ~m.loaded
      PROVE  PlayerInv([m EXCEPT !.loaded = TRUE],
                        Emitted(q, d, [kind |-> "loaded", entry |-> m.playing]), l, d,
                        h \cup {m.playing})
  <2> DEFINE n == [m EXCEPT !.loaded = TRUE]
             p == Emitted(q, d, [kind |-> "loaded", entry |-> m.playing])
             k == h \cup {m.playing}
  <2>1. Typed(n, p, d, k) /\ QueueOK(n, p, d, k) /\ Advances(m, q, d, n, p)
    BY <1>1, <1>5, MpvLoads
  <2>2. h \subseteq k
    OBVIOUS
  <2> HIDE DEF n, p, k
  <2>3. PlayerInv(n, p, l, d, k)
    BY <2>1, <2>2, StepOfMpv
  <2> QED BY <2>3 DEF n, p, k
<1>6. ASSUME NEW o \in {"ended", "failed"}, m.playing = m.current, m.playing # None
      PROVE  PlayerInv([m EXCEPT !.playing = None, !.current = None, !.loaded = FALSE],
                        Emitted(q, d, [kind |-> o, entry |-> m.playing]), l, d, h)
  <2> DEFINE n == [m EXCEPT !.playing = None, !.current = None, !.loaded = FALSE]
             p == Emitted(q, d, [kind |-> o, entry |-> m.playing])
  <2>1. Typed(n, p, d, h) /\ QueueOK(n, p, d, h) /\ Advances(m, q, d, n, p)
    BY <1>1, <1>6, MpvEnds
  <2> HIDE DEF n, p
  <2>2. PlayerInv(n, p, l, d, h)
    BY <2>1, StepOfMpv
  <2> QED BY <2>2 DEF n, p
<1>7. ASSUME m.playing = m.current, m.loaded
      PROVE  PlayerInv(m, Emitted(q, d, [kind |-> "restart", entry |-> m.playing]), l, d, h)
  <2> DEFINE p == Emitted(q, d, [kind |-> "restart", entry |-> m.playing])
  <2>1. Typed(m, p, d, h) /\ QueueOK(m, p, d, h) /\ Advances(m, q, d, m, p)
    BY <1>1, <1>7, MpvRestarts
  <2> HIDE DEF p
  <2>2. PlayerInv(m, p, l, d, h)
    BY <2>1, StepOfMpv
  <2> QED BY <2>2 DEF p
<1> QED BY <1>2, <1>3, <1>4, <1>5, <1>6, <1>7

-----------------------------------------------------------------------------
(* The adapter's steps that handle an event. *)

Noted(d, e) == [d EXCEPT !.latest = e, !.lateStart = @ /\ d.latest = e,
                         !.lateLoaded = @ /\ d.latest = e, !.lateRestart = FALSE]
StartNoted(k, e) == IF k.owner[e] = None THEN [k EXCEPT !.due = TRUE] ELSE k
StartShown(k, d, e) ==
  IF k.owner[e] = None THEN [Noted(d, e) EXCEPT !.lateStart = TRUE]
  ELSE IF OwnsProjection(k, k.owner[e])
  THEN [Show(Noted(d, e), k.owner[e], FALSE) EXCEPT !.lateStart = FALSE]
  ELSE [Noted(d, e) EXCEPT !.lateStart = FALSE]

\* What the adapter knows after the start of e, which a owns, and which is shown if v.
StartTold(c, d, e, a, v) ==
  /\ c \in Adapters /\ c.pc = d.pc /\ c.entry = d.entry /\ c.latest = e /\ ~c.lateLoaded
  /\ (c.lateStart => a = None) /\ ~c.lateRestart /\ c.batch = d.batch
  /\ v => c.shown = a /\ ~c.shownLoaded
  /\ ~v => c.shown = d.shown /\ c.shownLoaded = d.shownLoaded

LEMMA StartShownFields ==
  ASSUME NEW k, NEW d \in Adapters, NEW e \in Entries, d.latest = None,
         k.owner[e] \in Attempts \cup {None}
  PROVE  StartTold(StartShown(k, d, e), d, e, k.owner[e],
                   k.owner[e] # None /\ OwnsProjection(k, k.owner[e]))
<1> DEFINE a == k.owner[e]
           n == Noted(d, e)
           c == StartShown(k, d, e)
           v == a # None /\ OwnsProjection(k, a)
<1>1. d.lateStart \in BOOLEAN /\ d.lateLoaded \in BOOLEAN /\ d.latest # e
  BY Values DEF Adapters
<1>2. n = [d EXCEPT !.latest = e, !.lateStart = FALSE, !.lateLoaded = FALSE,
                      !.lateRestart = FALSE]
  BY <1>1 DEF Noted
<1>3. /\ n \in Adapters /\ n.pc = d.pc /\ n.entry = d.entry /\ n.latest = e /\ ~n.lateLoaded
      /\ ~n.lateRestart /\ n.batch = d.batch /\ n.shown = d.shown /\ n.shownLoaded = d.shownLoaded
  BY <1>2 DEF Adapters
<1> HIDE DEF n
<1>4. CASE a = None
  <2>1. c = [n EXCEPT !.lateStart = TRUE]
    BY <1>4 DEF StartShown, n
  <2> HIDE DEF c
  <2>2. c \in Adapters /\ c.pc = n.pc /\ c.entry = n.entry /\ c.latest = n.latest
        /\ c.lateLoaded = n.lateLoaded /\ c.lateRestart = n.lateRestart /\ c.batch = n.batch
        /\ c.shown = n.shown /\ c.shownLoaded = n.shownLoaded
    BY <1>3, <2>1 DEF Adapters
  <2>3. StartTold(c, d, e, a, v)
    BY <1>3, <1>4, <2>2 DEF StartTold
  <2> QED BY <2>3 DEF c
<1>5. CASE v
  <2>1. c = [n EXCEPT !.shown = a, !.shownLoaded = FALSE, !.lateStart = FALSE]
    BY <1>5 DEF StartShown, n, Show
  <2>2. a \in Attempts
    BY <1>5
  <2> HIDE DEF c, a
  <2>3. c \in Adapters /\ c.pc = n.pc /\ c.entry = n.entry /\ c.latest = n.latest
        /\ c.lateLoaded = n.lateLoaded /\ c.lateRestart = n.lateRestart /\ c.batch = n.batch
        /\ c.shown = a /\ ~c.shownLoaded /\ ~c.lateStart
    BY <1>3, <2>1, <2>2 DEF Adapters
  <2>4. StartTold(c, d, e, a, v)
    BY <1>3, <1>5, <2>3 DEF StartTold
  <2> QED BY <2>4 DEF c, a
<1>6. CASE a # None /\ ~v
  <2>1. c = [n EXCEPT !.lateStart = FALSE]
    BY <1>6 DEF StartShown, n
  <2> HIDE DEF c
  <2>2. c \in Adapters /\ c.pc = n.pc /\ c.entry = n.entry /\ c.latest = n.latest
        /\ c.lateLoaded = n.lateLoaded /\ c.lateRestart = n.lateRestart /\ ~c.lateStart
        /\ c.batch = n.batch /\ c.shown = n.shown /\ c.shownLoaded = n.shownLoaded
    BY <1>3, <2>1 DEF Adapters
  <2>3. StartTold(c, d, e, a, v)
    BY <1>3, <1>6, <2>2 DEF StartTold
  <2> QED BY <2>3 DEF c
<1> QED BY <1>4, <1>5, <1>6

\* The firm part, whatever the reducer makes of the start.
LEMMA StartFirm ==
  ASSUME NEW m, NEW q, NEW l, NEW d, NEW h, Firm(m, q, l, d, h),
         d.pc \in {"idle", "read", "publish"}, q # << >>, q[1].kind = "start",
         NEW e, e = q[1].entry, NEW k, LifeOK(k), DeferredOK(k), Evolves(l, k), Uncompleted(l, k),
         k.next <= MaxAttempts + 1, DeferredMade(m, k),
         \A f \in Entries \ {e} : k.owner[f] = l.owner[f],
         k.owner[e] # None =>
            \/ l.owner[e] # None /\ k.active \in {None, k.owner[e]}
            \/ k.active = k.owner[e],
         NEW c, NEW v \in BOOLEAN, StartTold(c, d, e, k.owner[e], v),
         v => k.owner[e] # None /\ k.active = k.owner[e]
  PROVE  Firm(m, Tail(q), k, c, h)
<1>1. /\ ShownOK(m, q, l, d, h) /\ d \in Adapters /\ l \in Lives
      /\ RestOK(m, l, d, h) /\ LifeOK(l) /\ DeferredOK(l) /\ l.next \in Nat \ {0}
      /\ d.batch \in SUBSET Attempts /\ h \in SUBSET Entries /\ l.active \in Attempts \cup {None}
      /\ Typed(m, q, d, h) /\ QueueOK(m, q, d, h) /\ OwnOK(m, q, l, d, h)
      /\ d.shown \in Attempts \cup {None}
  BY FirmTypes
<1>2. e \in Entries /\ e # None
  <2>1. Len(q) > 0
    BY <1>1, TypedFields
  <2> QED BY <1>1, <2>1, TypedFields, Values
<1>3. /\ c \in Adapters /\ c.pc = d.pc /\ c.entry = d.entry /\ c.latest = e /\ ~c.lateLoaded
      /\ (c.lateStart => k.owner[e] = None) /\ ~c.lateRestart /\ c.batch = d.batch
  BY DEF StartTold
<1>4. Typed(m, Tail(q), c, h) /\ QueueOK(m, Tail(q), c, h)
  BY <1>1, <1>3, StartHandled
<1>5. OwnOK(m, Tail(q), k, c, h)
  BY <1>1, <1>3, OwnStart
<1>6. ShownOK(m, Tail(q), k, c, h)
  <2>1. CASE v
    <3>1. c.shown = k.active /\ k.active \in Attempts /\ ~c.shownLoaded
      BY <2>1, LifeFields DEF StartTold, LifeOK
    <3>2. k.attempts[c.shown].state \notin {"none", "quiescent"} /\ k.attempts[c.shown].entry # None
      BY <3>1, Values DEF LifeOK, ActiveOK
    <3> QED BY <1>2, <1>3, <3>1, <3>2, ShownAnew
  <2>2. CASE ~v
    <3>1. c.shown = d.shown /\ c.shownLoaded = d.shownLoaded
      BY <2>2 DEF StartTold
    <3>2. d.shown # None => Stays(l.attempts[d.shown], k.attempts[d.shown])
      <4>1. d.shown # None => d.shown \in Attempts /\ d.shown < l.next
        BY <1>1 DEF ShownOK
      <4> QED BY <4>1, GrowsStays DEF Evolves
    <3>3. l.next <= k.next
      BY DEF Evolves
    <3> QED BY <1>1, <1>2, <1>3, <3>1, <3>2, <3>3, ShownStays
  <2> QED BY <2>1, <2>2
<1>7. RestOK(m, k, c, h)
  <2>1. c.pc # "sent" /\ d.pc # "sent" /\ c.pc # "lost"
    BY <1>3
  <2> QED BY <1>1, <1>3, <2>1, RestEvolves
<1> QED BY <1>4, <1>5, <1>6, <1>7 DEF Firm

LEMMA StartOfOwnedKeeps ==
  ASSUME NEW m, NEW q, NEW l, NEW d, NEW h, PlayerInv(m, q, l, d, h),
         d.pc \in {"idle", "read", "publish"}, q # << >>, q[1].kind = "start",
         NEW e, e = q[1].entry, l.owner[e] # None, NEW k, k = StartSeen(l, e),
         NEW c, NEW v \in BOOLEAN, StartTold(c, d, e, k.owner[e], v),
         v <=> k.owner[e] # None /\ OwnsProjection(k, k.owner[e])
  PROVE  PlayerInv(m, Tail(q), k, c, h) /\ Permanent(l, k)
<1> DEFINE a == l.owner[e]
<1>1. /\ Firm(m, q, l, d, h) /\ FlagsOK(l, d) /\ ShownOK(m, q, l, d, h) /\ l \in Lives
      /\ RestOK(m, l, d, h) /\ LifeOK(l) /\ DeferredOK(l) /\ l.next \in Nat \ {0}
      /\ l.owner \in [Entries -> Attempts \cup {None}]
      /\ d.shown \in Attempts \cup {None} /\ l.active \in Attempts \cup {None}
      /\ Typed(m, q, d, h) /\ QueueOK(m, q, d, h) /\ OwnOK(m, q, l, d, h)
  BY FirmTypes DEF PlayerInv
<1>2. e \in Entries /\ Coming(m, q, e)
  <2>1. Len(q) > 0
    BY <1>1, TypedFields
  <2>2. 1 \in 1 .. Len(q)
    BY <1>1, <2>1, TypedFields
  <2> QED BY <1>1, <2>2, TypedFields DEF Coming
<1>3. a \in Attempts /\ l.active \in {None, a}
  BY <1>1, <1>2 DEF OwnOK, StartIsFree
<1>4. /\ Moves(l, k) /\ DeferredOK(k) /\ SameFlags(l, k) /\ k.owner = l.owner
      /\ \A b \in Attempts : Calm(l.attempts[b], k.attempts[b])
      /\ \/ k.active = l.owner[e]
         \/ /\ k.active = l.active
            /\ \/ l.attempts[l.owner[e]].revoked \/ l.attempts[l.owner[e]].state = "quiescent"
               \/ k = l
  BY <1>1, <1>2, <1>3, StartOfOwned
<1>5. /\ LifeOK(k) /\ Evolves(l, k) /\ Uncompleted(l, k) /\ Permanent(l, k)
      /\ k.deferred = l.deferred /\ k.required = l.required /\ k.troubled = l.troubled
      /\ k.next = l.next /\ k.due = l.due /\ k.owner[e] = a /\ k.active \in {None, a}
  BY <1>3, <1>4 DEF Moves, SameFlags
<1>6. Firm(m, Tail(q), k, c, h)
  <2>1. DeferredMade(m, k) /\ k.next <= MaxAttempts + 1
    BY <1>1, <1>5 DEF RestOK, DeferredMade
  <2>2. \A f \in Entries \ {e} : k.owner[f] = l.owner[f]
    BY <1>4
  <2>3. v => k.owner[e] # None /\ k.active = k.owner[e]
    BY DEF OwnsProjection
  <2>4. k.owner[e] # None =>
            \/ l.owner[e] # None /\ k.active \in {None, k.owner[e]}
            \/ k.active = k.owner[e]
    BY <1>5
  <2> QED BY <1>1, <1>4, <1>5, <2>1, <2>2, <2>3, <2>4, StartFirm
<1>7. /\ c.pc = d.pc /\ c.entry = d.entry
      /\ v => c.shown = a
      /\ ~v => c.shown = d.shown
  BY <1>5 DEF StartTold
<1>8. k.active # None => v \/ l.active = k.active
  <2> SUFFICES ASSUME k.active # None, ~v PROVE l.active = k.active
    OBVIOUS
  <2>1. k.active = a
    BY <1>5
  <2>2. k.attempts[a].state # "quiescent"
    BY <1>3, <1>5, <2>1 DEF LifeOK, ActiveOK
  <2>3. k.attempts[a].revoked
    BY <1>3, <1>5, <2>1, <2>2, Values DEF OwnsProjection
  <2>4. l.attempts[a].revoked
    BY <1>3, <1>4, <2>3 DEF Calm, Same
  <2> QED BY <1>3, <1>5, <2>1, <2>4 DEF Permanent
<1>9. \A b \in Attempts : /\ (k.attempts[b].state = "accepted" <=> l.attempts[b].state = "accepted")
                          /\ (l.attempts[b].entry = None => k.attempts[b].state = l.attempts[b].state)
                          /\ k.attempts[b].entry = l.attempts[b].entry
                          /\ (k.attempts[b].state = "none" <=> l.attempts[b].state = "none")
                          /\ (k.attempts[b].state = "terminal" <=> l.attempts[b].state = "terminal")
  BY <1>4 DEF Calm, Same
<1>10. (Waiting(k) <=> Waiting(l)) /\ (Stray(l) => Stray(k))
  BY <1>9 DEF Waiting, Stray
<1>11. Agree(l, d) => Agree(k, c)
  <2> SUFFICES ASSUME Agree(l, d) PROVE Agree(k, c)
    OBVIOUS
  <2>1. k.active # None => c.shown = k.active
    BY <1>5, <1>7, <1>8 DEF Agree
  <2>2. c.shown # None => k.attempts[c.shown].state \notin {"none", "terminal"}
    <3>1. CASE v
      <4>1. c.shown = a /\ k.active = a
        BY <1>5, <1>7, <3>1 DEF OwnsProjection
      <4> QED BY <1>3, <1>5, <4>1, Values DEF LifeOK, ActiveOK
    <3>2. CASE ~v
      BY <1>1, <1>7, <1>9, <3>2 DEF Agree
    <3> QED BY <3>1, <3>2
  <2> QED BY <2>1, <2>2 DEF Agree
<1>12. k.active # None =>
         \/ c.shown = k.active
         \/ /\ l.active # None /\ (d.shown = l.active => c.shown = k.active)
            /\ l.attempts[l.active].entry = d.entry => k.attempts[k.active].entry = c.entry
  <2>1. CASE v
    BY <1>5, <1>7, <2>1 DEF OwnsProjection
  <2>2. CASE ~v
    BY <1>1, <1>7, <1>8, <1>9, <2>2
  <2> QED BY <2>1, <2>2
<1>13. FlagsOK(k, c)
  BY <1>1, <1>5, <1>7, <1>10, <1>11, <1>12, FlagsCarry
<1>14. Asked(k, c)
  BY <1>7 DEF Asked
<1> QED BY <1>5, <1>6, <1>13, <1>14 DEF PlayerInv

\* An update of the other fields after a step from l to s.
LEMMA SameBut ==
  ASSUME NEW m, NEW l, NEW s, LifeOK(s), DeferredOK(s), Evolves(l, s), Uncompleted(l, s),
         Permanent(l, s), DeferredMade(m, s), NEW k \in Lives, k.attempts = s.attempts,
         k.owner = s.owner, k.active = s.active, k.ended = s.ended, k.next = s.next,
         k.deferred = s.deferred
  PROVE  /\ LifeOK(k) /\ DeferredOK(k) /\ Evolves(l, k) /\ Uncompleted(l, k) /\ Permanent(l, k)
         /\ DeferredMade(m, k)
<1>1. LifeOK(k)
  BY SameLife
<1>2. DeferredOK(k) /\ DeferredMade(m, k)
  BY DEF DeferredOK, Explained, DeferredMade
<1>3. Evolves(l, k) /\ Uncompleted(l, k) /\ Permanent(l, k)
  BY DEF Evolves, Uncompleted, Permanent
<1> QED BY <1>1, <1>2, <1>3

LEMMA StartOfUnownedKeeps ==
  ASSUME NEW m, NEW q, NEW l, NEW d, NEW h, PlayerInv(m, q, l, d, h),
         d.pc \in {"idle", "read", "publish"}, q # << >>, q[1].kind = "start",
         NEW e, e = q[1].entry, l.owner[e] = None, StartSeen(l, e).next <= MaxAttempts + 1,
         NEW s, s = StartSeen(l, e), NEW k, k = StartNoted(s, e),
         NEW c, NEW v \in BOOLEAN, StartTold(c, d, e, s.owner[e], v),
         v <=> s.owner[e] # None /\ OwnsProjection(s, s.owner[e])
  PROVE  PlayerInv(m, Tail(q), k, c, h) /\ Permanent(l, k)
<1>1. /\ Firm(m, q, l, d, h) /\ FlagsOK(l, d) /\ ShownOK(m, q, l, d, h) /\ l \in Lives
      /\ RestOK(m, l, d, h) /\ LifeOK(l) /\ DeferredOK(l) /\ l.next \in Nat \ {0}
      /\ l.next <= MaxAttempts + 1
      /\ l.owner \in [Entries -> Attempts \cup {None}]
      /\ d.shown \in Attempts \cup {None} /\ l.active \in Attempts \cup {None}
      /\ Typed(m, q, d, h) /\ QueueOK(m, q, d, h)
  BY FirmTypes DEF PlayerInv
<1>2. e \in Entries /\ e <= Made(m) /\ e # None
  <2>1. 1 \in 1 .. Len(q)
    BY <1>1, TypedFields
  <2> QED BY <1>1, <2>1, TypedFields, Values DEF QueueOK, Real
<1>3. /\ LifeOK(s) /\ DeferredOK(s) /\ Evolves(l, s) /\ Uncompleted(l, s) /\ Permanent(l, s)
      /\ \A f \in Entries \ {e} : s.owner[f] = l.owner[f]
      /\ DeferredMade(m, s) /\ s.next <= MaxAttempts + 1 /\ s.troubled = l.troubled
      /\ \/ s = l
         \/ /\ s.required /\ s.due /\ s.deferred # << >>
            /\ \/ s.owner[e] = None /\ s.attempts = l.attempts /\ s.active = l.active
               \/ s.owner[e] # None /\ s.active = s.owner[e] /\ ~s.attempts[s.active].revoked
  <2>1. \/ s = l /\ e \in l.tombs
        \/ /\ LifeOK(s) /\ DeferredOK(s) /\ Evolves(l, s) /\ Uncompleted(l, s) /\ Permanent(l, s)
           /\ WithStart(s.deferred, l.deferred, e) /\ s.required /\ s.due
           /\ s.troubled = l.troubled
           /\ \A f \in Entries \ {e} : s.owner[f] = l.owner[f]
           /\ \/ s.owner[e] = None /\ s.attempts = l.attempts /\ s.active = l.active
                 /\ s.next = l.next
              \/ /\ s.owner[e] # None /\ s.active = s.owner[e]
                 /\ ~Waiting(l)
                 /\ ~s.attempts[s.active].revoked
    BY <1>1, <1>2, StartOfUnowned
  <2>2. CASE s = l
    <3>1. Evolves(l, l) /\ Uncompleted(l, l) /\ Permanent(l, l)
      BY <1>1, MovesIsReflexive DEF Moves
    <3> QED BY <1>1, <2>2, <3>1 DEF RestOK
  <2>3. CASE WithStart(s.deferred, l.deferred, e)
    <3>1. DeferredMade(m, s) /\ s.deferred # << >>
      BY <1>1, <1>2, <2>3 DEF RestOK, DeferredMade, WithStart
    <3> QED BY <2>1, <2>2, <3>1
  <2> QED BY <2>1, <2>2, <2>3
<1>4. s.owner \in [Entries -> Attempts \cup {None}] /\ s \in Lives
      /\ s.active \in Attempts \cup {None} /\ s.next \in Nat
  BY <1>3, LifeFields DEF LifeOK
<1>5. /\ k \in Lives /\ k.attempts = s.attempts /\ k.owner = s.owner /\ k.active = s.active
      /\ k.ended = s.ended /\ k.next = s.next /\ k.deferred = s.deferred
      /\ k.required = s.required /\ k.troubled = s.troubled
      /\ k.due = (s.due \/ s.owner[e] = None)
  <2>1. CASE s.owner[e] = None
    <3>1. k = [s EXCEPT !.due = TRUE]
      BY <2>1 DEF StartNoted
    <3> QED BY <1>4, <2>1, <3>1 DEF Lives
  <2>2. CASE s.owner[e] # None
    <3>1. k = s /\ s.due \in BOOLEAN
      BY <1>4, <2>2 DEF StartNoted, Lives
    <3> QED BY <1>4, <2>2, <3>1
  <2> QED BY <2>1, <2>2
<1>6. /\ LifeOK(k) /\ DeferredOK(k) /\ Evolves(l, k) /\ Uncompleted(l, k) /\ Permanent(l, k)
      /\ DeferredMade(m, k)
  BY <1>3, <1>5, SameBut
<1>7. s.owner[e] # None => s.active = s.owner[e] /\ ~s.attempts[s.active].revoked
  BY <1>3
<1>8. v <=> s.owner[e] # None
  <2>1. ASSUME s.owner[e] # None PROVE OwnsProjection(s, s.owner[e])
    <3>1. s.attempts[s.active].state # "quiescent"
      BY <1>3, <1>7, <2>1 DEF LifeOK, ActiveOK
    <3> QED BY <1>7, <2>1, <3>1 DEF OwnsProjection
  <2> QED BY <2>1
<1>9. Firm(m, Tail(q), k, c, h)
  <2>1. StartTold(c, d, e, k.owner[e], v)
    BY <1>5
  <2>2. v => k.owner[e] # None /\ k.active = k.owner[e]
    BY <1>5, <1>7, <1>8
  <2>3. k.owner[e] # None =>
            \/ l.owner[e] # None /\ k.active \in {None, k.owner[e]}
            \/ k.active = k.owner[e]
    BY <1>5, <1>7
  <2>4. (\A f \in Entries \ {e} : k.owner[f] = l.owner[f]) /\ k.next <= MaxAttempts + 1
    BY <1>3, <1>5
  <2> QED BY <1>1, <1>6, <2>1, <2>2, <2>3, <2>4, StartFirm
<1>10. /\ c.pc = d.pc /\ c.entry = d.entry
       /\ v => c.shown = k.active
       /\ ~v => c.shown = d.shown
  BY <1>5, <1>7, <1>8 DEF StartTold
<1>11. FlagsOK(k, c)
  <2>1. CASE s = l
    <3>1. k.attempts = l.attempts /\ k.active = l.active /\ c.shown = d.shown /\ k.due
          /\ k.required = l.required /\ k.troubled = l.troubled /\ k.deferred = l.deferred
      BY <1>5, <1>8, <1>10, <2>1
    <3>2. (Waiting(k) <=> Waiting(l)) /\ (Stray(l) => Stray(k))
      BY <3>1, SameAttempts
    <3> QED BY <1>1, <1>10, <3>1, <3>2, FlagsCarry
  <2>2. CASE /\ s.required /\ s.due /\ s.deferred # << >>
             /\ s.owner[e] = None /\ s.attempts = l.attempts /\ s.active = l.active
    <3>1. k.attempts = l.attempts /\ k.active = l.active /\ c.shown = d.shown /\ k.due
          /\ k.required /\ k.troubled = l.troubled /\ k.deferred # << >>
      BY <1>3, <1>5, <1>8, <1>10, <2>2
    <3>2. Waiting(k) <=> Waiting(l)
      BY <3>1, SameAttempts
    <3>3. d.pc = "publish" /\ ~l.troubled /\ ~Waiting(l) /\ l.active # None =>
            d.shown = l.active \/ l.attempts[l.active].entry = d.entry
      BY <1>1 DEF FlagsOK
    <3>4. c.pc = "publish" /\ ~k.troubled /\ ~Waiting(k) /\ k.active # None =>
            c.shown = k.active \/ k.attempts[k.active].entry = c.entry
      BY <1>10, <3>1, <3>2, <3>3
    <3> QED BY <3>1, <3>4 DEF FlagsOK
  <2>3. CASE /\ s.required /\ s.due /\ s.deferred # << >> /\ s.owner[e] # None
    <3>1. c.shown = k.active /\ k.due /\ k.required /\ k.deferred # << >>
      BY <1>5, <1>8, <1>10, <2>3
    <3> QED BY <3>1 DEF FlagsOK
  <2> QED BY <1>3, <2>1, <2>2, <2>3
<1>12. Asked(k, c)
  BY <1>10 DEF Asked
<1> QED BY <1>6, <1>9, <1>11, <1>12 DEF PlayerInv

LEMMA HandleStartKeeps ==
  ASSUME NEW m, NEW q, NEW l, NEW d, NEW h, PlayerInv(m, q, l, d, h),
         d.pc \in {"idle", "read", "publish"}, q # << >>, q[1].kind = "start",
         NEW e, e = q[1].entry, StartSeen(l, e).next <= MaxAttempts + 1
  PROVE  LET s == StartSeen(l, e)
             k == StartNoted(s, e)
             c == StartShown(s, d, e) IN
         PlayerInv(m, Tail(q), k, c, h) /\ Permanent(l, k)
<1> DEFINE s == StartSeen(l, e)
           k == StartNoted(s, e)
           c == StartShown(s, d, e)
           v == s.owner[e] # None /\ OwnsProjection(s, s.owner[e])
<1>1. /\ Firm(m, q, l, d, h) /\ LifeOK(l) /\ DeferredOK(l) /\ d \in Adapters
      /\ Typed(m, q, d, h) /\ QueueOK(m, q, d, h) /\ OwnOK(m, q, l, d, h)
      /\ l.next <= MaxAttempts + 1 /\ l.owner \in [Entries -> Attempts \cup {None}]
  BY FirmTypes DEF PlayerInv
<1>2. e \in Entries /\ d.latest = None /\ Coming(m, q, e)
  <2>1. 1 \in 1 .. Len(q)
    BY <1>1, TypedFields
  <2>2. d.latest = None
    BY <1>1 DEF QueueOK, Heard
  <2> QED BY <1>1, <2>1, <2>2, TypedFields DEF Coming
<1>3. s.owner[e] \in Attempts \cup {None}
  <2>1. CASE l.owner[e] # None
    <3>1. l.active \in {None, l.owner[e]}
      BY <1>1, <1>2, <2>1 DEF OwnOK, StartIsFree
    <3>2. s.owner = l.owner
      BY <1>1, <1>2, <2>1, <3>1, StartOfOwned
    <3> QED BY <1>1, <1>2, <3>2
  <2>2. CASE l.owner[e] = None
    <3>1. LifeOK(s)
      BY <1>1, <1>2, <2>2, StartOfUnowned
    <3> QED BY <1>2, <3>1, LifeFields DEF LifeOK
  <2> QED BY <2>1, <2>2
<1>4. StartTold(c, d, e, s.owner[e], v)
  BY <1>1, <1>2, <1>3, StartShownFields
<1>5. v \in BOOLEAN
  OBVIOUS
<1>6. v <=> s.owner[e] # None /\ OwnsProjection(s, s.owner[e])
  OBVIOUS
<1>7. s.next <= MaxAttempts + 1
  OBVIOUS
<1>8. s = StartSeen(l, e) /\ k = StartNoted(s, e)
  OBVIOUS
<1> HIDE DEF s, k, c, v
<1>9. CASE l.owner[e] # None
  <2>1. s.owner[e] # None
    <3>1. l.active \in {None, l.owner[e]}
      BY <1>1, <1>2, <1>9 DEF OwnOK, StartIsFree
    <3>2. s.owner = l.owner
      BY <1>1, <1>2, <1>8, <1>9, <3>1, StartOfOwned
    <3> QED BY <1>9, <3>2
  <2>2. k = s
    BY <1>8, <2>1 DEF StartNoted
  <2>3. PlayerInv(m, Tail(q), s, c, h) /\ Permanent(l, s)
    BY <1>4, <1>5, <1>6, <1>8, <1>9, StartOfOwnedKeeps
  <2> QED BY <2>2, <2>3 DEF s, k, c
<1>10. CASE l.owner[e] = None
  <2>1. PlayerInv(m, Tail(q), k, c, h) /\ Permanent(l, k)
    BY <1>4, <1>5, <1>6, <1>8, <1>10, StartOfUnownedKeeps
  <2> QED BY <2>1 DEF s, k, c
<1> QED BY <1>9, <1>10

\* What a file-loaded of e, or a playback-restart, does to the attempts, in the lives l and
\* k before and after it.
LoadedOf(l, k, e) ==
  /\ LifeOK(k) /\ DeferredOK(k) /\ k.owner = l.owner /\ k.next = l.next
  /\ k.deferred = l.deferred /\ k.required = l.required /\ k.troubled = l.troubled
  /\ l.due => k.due
  /\ \A b \in Attempts :
       /\ k.attempts[b].entry = l.attempts[b].entry
       /\ k.attempts[b].revoked = l.attempts[b].revoked
       /\ l.attempts[b].loaded => k.attempts[b].loaded
       /\ \/ k.attempts[b].state = l.attempts[b].state
          \/ b = l.owner[e] /\ k.attempts[b].state = "active"
       /\ k.attempts[b].command = "completed" =>
            l.attempts[b].command = "completed" \/ b = l.owner[e]

\* What it does to the adapter, which shows the owner of e as loaded if v.
LoadedTold(l, k, c, d, e, v) ==
  /\ c \in Adapters /\ c.pc = d.pc /\ c.latest = d.latest /\ c.entry = d.entry
  /\ c.lateStart = d.lateStart /\ c.batch = d.batch
  /\ c.lateLoaded => d.lateLoaded \/ (c.latest = e /\ l.owner[e] = None)
  /\ c.lateRestart => d.lateRestart \/ c.latest = e
  /\ v => /\ l.active \in {None, l.owner[e]} /\ l.owner[e] # None /\ ~l.attempts[l.owner[e]].revoked
          /\ k.active = l.owner[e] /\ k.due /\ c.shown = k.active /\ k.attempts[k.active].loaded
  /\ ~v => k.active = l.active /\ c.shown = d.shown /\ c.shownLoaded = d.shownLoaded

LEMMA LoadedKeeps ==
  ASSUME NEW m, NEW q, NEW l, NEW d, NEW h, PlayerInv(m, q, l, d, h),
         d.pc \in {"idle", "read", "publish"}, q # << >>, q[1].kind \in Shows,
         NEW e, e = q[1].entry, NEW k, LoadedOf(l, k, e), NEW c, NEW v \in BOOLEAN,
         LoadedTold(l, k, c, d, e, v)
  PROVE  PlayerInv(m, Tail(q), k, c, h) /\ Permanent(l, k)
<1>1. /\ Firm(m, q, l, d, h) /\ FlagsOK(l, d) /\ ShownOK(m, q, l, d, h) /\ l \in Lives
      /\ RestOK(m, l, d, h) /\ LifeOK(l) /\ DeferredOK(l) /\ l.next \in Nat \ {0}
      /\ l.owner \in [Entries -> Attempts \cup {None}] /\ d.batch \in SUBSET Attempts
      /\ d.shown \in Attempts \cup {None} /\ l.active \in Attempts \cup {None}
      /\ Typed(m, q, d, h) /\ QueueOK(m, q, d, h) /\ OwnOK(m, q, l, d, h)
      /\ LifeOK(k) /\ DeferredOK(k)
  BY FirmTypes DEF PlayerInv, LoadedOf
<1>2. e \in Entries /\ e \in h
  <2>1. 1 \in 1 .. Len(q)
    BY <1>1, TypedFields
  <2> QED BY <1>1, <2>1, TypedFields DEF QueueOK, Real
<1>3. /\ c \in Adapters /\ c.pc = d.pc /\ c.latest = d.latest /\ c.entry = d.entry
      /\ c.lateStart = d.lateStart /\ c.batch = d.batch
      /\ c.lateLoaded => d.lateLoaded \/ (c.latest = e /\ l.owner[e] = None)
      /\ c.lateRestart => d.lateRestart \/ c.latest = e
  BY DEF LoadedTold
<1>4. /\ Typed(m, Tail(q), c, h) /\ QueueOK(m, Tail(q), c, h)
      /\ \A g \in Entries : ~Loading(m, Tail(q), g)
  BY <1>1, <1>3, LoadedHandled
<1>5. l.owner[e] # None => /\ l.owner[e] \in Attempts /\ l.attempts[l.owner[e]].entry = e
                           /\ l.attempts[l.owner[e]].state \notin {"none", "terminal", "accepted"}
  BY <1>1, <1>2, Values DEF LifeOK, OwnersOK, AttemptsOK, AttemptOK
<1>6. OwnOK(m, Tail(q), k, c, h)
  <2>1. /\ k.owner = l.owner
        /\ \A a \in Attempts : k.attempts[a].revoked = l.attempts[a].revoked
    BY DEF LoadedOf
  <2>2. \/ k.active = l.active
        \/ l.active \in {None, l.owner[e]} /\ k.active = l.owner[e]
    BY DEF LoadedTold
  <2>3. /\ c.lateLoaded => c.latest \in h /\ k.owner[c.latest] = None
        /\ c.lateRestart => c.latest \in h
    BY <1>1, <1>2, <1>3, <2>1 DEF OwnOK, LateOK
  <2> QED BY <1>1, <1>3, <2>1, <2>2, <2>3, OwnLoaded
<1>7. \A b \in Attempts :
       /\ k.attempts[b].entry = l.attempts[b].entry
       /\ l.attempts[b].loaded => k.attempts[b].loaded
       /\ \/ k.attempts[b].state = l.attempts[b].state
          \/ /\ b = l.owner[e] /\ k.attempts[b].state = "active"
             /\ l.attempts[b].state \notin {"none", "terminal", "accepted"}
  BY <1>5, Values DEF LoadedOf
<1>8. ShownOK(m, Tail(q), k, c, h)
  <2>1. CASE v
    <3>1. c.shown = k.active /\ k.active \in Attempts /\ k.attempts[k.active].loaded
      BY <1>5, <2>1 DEF LoadedTold
    <3>2. k.attempts[c.shown].state \notin {"none", "quiescent"} /\ k.attempts[c.shown].entry # None
      BY <1>1, <3>1, Values DEF LifeOK, ActiveOK
    <3> QED BY <1>1, <1>4, <3>1, <3>2, ShownAnew
  <2>2. CASE ~v
    <3>1. c.shown = d.shown /\ c.shownLoaded = d.shownLoaded
      BY <2>2 DEF LoadedTold
    <3>2. d.shown # None => Stays(l.attempts[d.shown], k.attempts[d.shown])
      BY <1>1, <1>7 DEF Stays
    <3>3. l.next <= k.next
      BY <1>1 DEF LoadedOf
    <3> QED BY <1>1, <1>4, <3>1, <3>2, <3>3, ShownStays
  <2> QED BY <2>1, <2>2
<1>9. RestOK(m, k, c, h)
  <2>1. InFlight(k, c) /\ BatchOK(k, c)
    <3>1. \A b \in Attempts : k.attempts[b].state # "submitting"
      BY <1>1, <1>7 DEF RestOK, InFlight
    <3>2. BatchOK(k, c)
      BY <1>1, <1>3, <1>7 DEF RestOK, BatchOK
    <3> QED BY <1>3, <3>1, <3>2 DEF InFlight
  <2>2. CompletedOK(k, h)
    BY <1>1, <1>2, <1>5, <1>7, Values DEF LoadedOf, RestOK, CompletedOK
  <2>3. DeferredMade(m, k) /\ k.next <= MaxAttempts + 1
    BY <1>1 DEF LoadedOf, RestOK, DeferredMade
  <2> QED BY <1>1, <1>3, <2>1, <2>2, <2>3 DEF RestOK
<1>10. Firm(m, Tail(q), k, c, h)
  BY <1>4, <1>6, <1>8, <1>9 DEF Firm
<1>11. (Waiting(k) <=> Waiting(l)) /\ (Stray(l) => Stray(k))
  BY <1>2, <1>5, <1>7, Values DEF Waiting, Stray
<1>12. ~k.due /\ Agree(l, d) => Agree(k, c)
  <2> SUFFICES ASSUME ~k.due, Agree(l, d) PROVE Agree(k, c)
    OBVIOUS
  <2>1. k.active = l.active /\ c.shown = d.shown
    BY DEF LoadedTold
  <2>2. d.shown # None => k.attempts[d.shown].state \notin {"none", "terminal"}
    BY <1>1, <1>7 DEF Agree
  <2> QED BY <2>1, <2>2 DEF Agree
<1>13. k.active # None =>
         \/ c.shown = k.active
         \/ /\ l.active # None /\ (d.shown = l.active => c.shown = k.active)
            /\ l.attempts[l.active].entry = d.entry => k.attempts[k.active].entry = c.entry
  <2>1. CASE v
    BY <2>1 DEF LoadedTold
  <2>2. CASE ~v
    <3>1. k.active = l.active /\ c.shown = d.shown
      BY <2>2 DEF LoadedTold
    <3> QED BY <1>1, <1>3, <1>7, <3>1
  <2> QED BY <2>1, <2>2
<1>14. FlagsOK(k, c)
  <2>1. /\ k.deferred = l.deferred /\ k.required = l.required /\ k.troubled = l.troubled
        /\ l.due => k.due
    BY DEF LoadedOf
  <2> QED BY <1>1, <1>3, <1>11, <1>12, <1>13, <2>1, FlagsCarry
<1>15. Asked(k, c)
  BY <1>3 DEF Asked
<1>16. Permanent(l, k)
  <2>1. CASE v
    BY <2>1 DEF LoadedTold, Permanent
  <2>2. CASE ~v
    BY <2>2 DEF LoadedTold, Permanent
  <2> QED BY <2>1, <2>2
<1> QED BY <1>10, <1>14, <1>15, <1>16 DEF PlayerInv

\* A step of a reconciliation becomes due.
LEMMA DueFields ==
  ASSUME NEW l, LifeOK(l), DeferredOK(l)
  PROVE  LET k == [l EXCEPT !.due = TRUE] IN
         /\ k \in Lives /\ LifeOK(k) /\ DeferredOK(k) /\ k.attempts = l.attempts
         /\ k.owner = l.owner /\ k.active = l.active /\ k.ended = l.ended
         /\ k.next = l.next /\ k.deferred = l.deferred /\ k.required = l.required
         /\ k.troubled = l.troubled /\ k.tombs = l.tombs /\ k.due
<1> DEFINE k == [l EXCEPT !.due = TRUE]
<1>1. /\ k \in Lives /\ k.attempts = l.attempts /\ k.owner = l.owner /\ k.active = l.active
      /\ k.ended = l.ended /\ k.next = l.next /\ k.deferred = l.deferred
      /\ k.required = l.required /\ k.troubled = l.troubled /\ k.tombs = l.tombs /\ k.due
  BY DEF LifeOK, Lives
<1> HIDE DEF k
<1>2. LifeOK(k)
  BY <1>1, SameLife
<1>3. DeferredOK(k)
  BY <1>1 DEF DeferredOK, Explained
<1> QED BY <1>1, <1>2, <1>3 DEF k

LEMMA AtLateLoaded ==
  ASSUME NEW d \in Adapters, NEW late \in BOOLEAN
  PROVE  LET c == [d EXCEPT !.lateLoaded = late] IN
         /\ c \in Adapters /\ c.pc = d.pc /\ c.entry = d.entry /\ c.latest = d.latest
         /\ c.lateStart = d.lateStart /\ c.lateLoaded = late /\ c.lateRestart = d.lateRestart
         /\ c.shown = d.shown
         /\ c.shownLoaded = d.shownLoaded /\ c.batch = d.batch
BY DEF Adapters

LEMMA DueIsLoadedOf ==
  ASSUME NEW l, LifeOK(l), DeferredOK(l), NEW e
  PROVE  LoadedOf(l, [l EXCEPT !.due = TRUE], e)
<1> DEFINE k == [l EXCEPT !.due = TRUE]
<1>1. /\ LifeOK(k) /\ DeferredOK(k) /\ k.attempts = l.attempts /\ k.owner = l.owner
      /\ k.next = l.next /\ k.deferred = l.deferred /\ k.required = l.required
      /\ k.troubled = l.troubled /\ k.due
  BY DueFields
<1> HIDE DEF k
<1>2. LoadedOf(l, k, e)
  BY <1>1 DEF LoadedOf
<1> QED BY <1>2 DEF k

\* The active attempt, if there is one, is the owner of the entry that has loaded.
LEMMA LoadTakesFromNobody ==
  ASSUME NEW m, NEW q, NEW l, NEW d, NEW h, Firm(m, q, l, d, h), q # << >>,
         q[1].kind \in Shows, NEW e, e = q[1].entry, l.owner[e] # None,
         ~l.attempts[l.owner[e]].revoked
  PROVE  l.active \in {None, l.owner[e]}
<1>1. /\ LifeOK(l) /\ l.active \in Attempts \cup {None} /\ Typed(m, q, d, h)
      /\ QueueOK(m, q, d, h) /\ OwnOK(m, q, l, d, h) /\ l.attempts \in [Attempts -> LoadAttempt]
  BY FirmTypes
<1>2. 1 \in 1 .. Len(q) /\ e \in Entries
  <2>1. 1 \in 1 .. Len(q)
    BY <1>1, TypedFields
  <2> QED BY <1>1, <2>1, TypedFields
<1>3. OpenEntry(m, q, d) = e
  <2>1. d \in Adapters /\ d.pc = d.pc /\ d.latest = d.latest /\ d.entry = d.entry
    BY <1>1 DEF Typed
  <2> QED BY <1>1, <2>1, LoadedHandled
<1>4. l.active = None \/ l.attempts[l.active].entry >= e
  BY <1>1, <1>2, <1>3, Values DEF OwnOK, LoadIsFree
<1>5. ASSUME l.active # None PROVE l.active = l.owner[e]
  <2> DEFINE f == l.attempts[l.active].entry
  <2>1. f # None /\ f \in Entries \cup {None} /\ l.owner[f] = l.active
    BY <1>1, <1>5 DEF LifeOK, ActiveOK, OwnersOK, LoadAttempt
  <2>2. ~(f > e)
    BY <1>1, <1>2, <1>5, <2>1 DEF OwnOK, OwnsOpened, Opens, Shows
  <2>3. f = e
    BY <1>2, <1>4, <1>5, <2>1, <2>2, Numbers
  <2> QED BY <2>1, <2>3
<1> QED BY <1>5

LEMMA HandleLoadedKeeps ==
  ASSUME NEW m, NEW q, NEW l, NEW d, NEW h, PlayerInv(m, q, l, d, h),
         d.pc \in {"idle", "read", "publish"}, q # << >>, q[1].kind = "loaded"
  PROVE  LET k == AfterLoaded(l, d)[1]
             c == AfterLoaded(l, d)[2] IN
         PlayerInv(m, Tail(q), k, c, h) /\ Permanent(l, k)
<1> DEFINE e == q[1].entry
           known == IF d.latest # None THEN d.latest
                    ELSE IF d.shown # None THEN l.attempts[d.shown].entry ELSE None
           a == l.owner[e]
           n == [d EXCEPT !.lateLoaded = FALSE]
<1>1. /\ Firm(m, q, l, d, h) /\ FlagsOK(l, d) /\ ShownOK(m, q, l, d, h) /\ l \in Lives
      /\ LifeOK(l) /\ DeferredOK(l) /\ d \in Adapters
      /\ l.owner \in [Entries -> Attempts \cup {None}]
      /\ d.shown \in Attempts \cup {None} /\ l.active \in Attempts \cup {None}
      /\ Typed(m, q, d, h) /\ QueueOK(m, q, d, h) /\ OwnOK(m, q, l, d, h)
  BY FirmTypes DEF PlayerInv
<1>2. e \in Entries /\ e # None /\ Loading(m, q, e)
  <2>1. 1 \in 1 .. Len(q)
    BY <1>1, TypedFields
  <2> QED BY <1>1, <2>1, TypedFields, Values DEF Loading
<1>3. known \in {None, e} /\ (known = None => d.latest = None)
  <2>1. CASE d.latest # None
    BY <1>1, <2>1 DEF QueueOK, Heard
  <2>2. CASE d.latest = None /\ d.shown # None
    BY <1>1, <1>2, <2>2 DEF ShownOK
  <2>3. CASE d.latest = None /\ d.shown = None
    BY <2>3
  <2> QED BY <2>1, <2>2, <2>3
<1>4. (IF d.latest = None THEN d ELSE ReplayStart(l, d)) = d
  BY <1>1 DEF OwnOK, LateOK, ReplayStart
<1>5. AfterLoaded(l, d) =
        IF known = None THEN <<[l EXCEPT !.due = TRUE], d>>
        ELSE IF l.owner[known] = None
        THEN <<[l EXCEPT !.due = TRUE], [d EXCEPT !.lateLoaded = (known = d.latest)]>>
        ELSE IF Owns(l, l.owner[known])
        THEN <<[FileLoaded(l, known) EXCEPT !.due = TRUE], Show(n, l.owner[known], TRUE)>>
        ELSE <<FileLoaded(l, known), n>>
  BY <1>4 DEF AfterLoaded
<1> HIDE DEF known, e, n
<1>6. SUFFICES ASSUME NEW k, NEW c, k = AfterLoaded(l, d)[1], c = AfterLoaded(l, d)[2]
               PROVE  PlayerInv(m, Tail(q), k, c, h) /\ Permanent(l, k)
  OBVIOUS
<1> DEFINE no == FALSE
           yes == TRUE
<1>7. no \in BOOLEAN /\ yes \in BOOLEAN /\ ~no /\ yes
  OBVIOUS
<1> HIDE DEF no, yes
<1>8. n \in Adapters /\ n.pc = d.pc /\ n.latest = d.latest /\ n.entry = d.entry
      /\ n.lateStart = d.lateStart /\ n.lateRestart = d.lateRestart /\ n.batch = d.batch /\ ~n.lateLoaded
      /\ n.shown = d.shown /\ n.shownLoaded = d.shownLoaded
  BY <1>1, AtLateLoaded DEF n
<1>9. CASE known = None
  <2>1. k = [l EXCEPT !.due = TRUE] /\ c = d
    BY <1>5, <1>6, <1>9
  <2>2. LoadedOf(l, k, e) /\ k.active = l.active
    BY <1>1, <2>1, DueIsLoadedOf, DueFields
  <2>3. LoadedTold(l, k, c, d, e, no)
    BY <1>1, <1>7, <2>1, <2>2 DEF LoadedTold
  <2> QED BY <1>7, <2>2, <2>3, LoadedKeeps DEF e, Shows
<1>10. CASE known = e /\ a = None
  <2> DEFINE late == (e = d.latest)
  <2>1. k = [l EXCEPT !.due = TRUE] /\ c = [d EXCEPT !.lateLoaded = late]
    BY <1>2, <1>5, <1>6, <1>10
  <2>2. LoadedOf(l, k, e) /\ k.active = l.active
    BY <1>1, <2>1, DueIsLoadedOf, DueFields
  <2>3. late \in BOOLEAN
    OBVIOUS
  <2>4. c \in Adapters /\ c.pc = d.pc /\ c.latest = d.latest /\ c.entry = d.entry
        /\ c.lateStart = d.lateStart /\ c.lateRestart = d.lateRestart
        /\ c.batch = d.batch /\ c.lateLoaded = late
        /\ c.shown = d.shown /\ c.shownLoaded = d.shownLoaded
    <3> HIDE DEF late
    <3> QED BY <1>1, <2>1, <2>3, AtLateLoaded
  <2>5. LoadedTold(l, k, c, d, e, no)
    BY <1>7, <1>10, <2>2, <2>4 DEF LoadedTold
  <2> QED BY <1>7, <2>2, <2>5, LoadedKeeps DEF e, Shows
<1>11. CASE known = e /\ a # None
  <2> DEFINE s == FileLoaded(l, e)
  <2>1. a \in Attempts /\ l.attempts[a].entry = e /\ l.attempts[a].state \notin {"none", "terminal"}
    BY <1>1, <1>2, <1>11 DEF LifeOK, OwnersOK
  <2>2. Owns(l, a) => l.active \in {None, a} /\ ~l.attempts[a].revoked
    <3>1. ~l.attempts[a].revoked => l.active \in {None, a}
      BY <1>1, <1>11, LoadTakesFromNobody DEF e, Shows
    <3> QED BY <3>1 DEF Owns
  <2>3. /\ LifeOK(s) /\ DeferredOK(s)
        /\ \A b \in Attempts \ {a} : s.attempts[b] = l.attempts[b]
        /\ s.attempts[a].entry = e /\ s.attempts[a].revoked = l.attempts[a].revoked
        /\ l.attempts[a].loaded => s.attempts[a].loaded
        /\ ~Owns(l, a) => /\ s.attempts[a].state = l.attempts[a].state
                          /\ s.attempts[a].command = l.attempts[a].command
        /\ Owns(l, a) => s.attempts[a].state = "active"
        /\ s.active = (IF Owns(l, a) THEN a ELSE l.active)
        /\ s.owner = l.owner /\ s.deferred = l.deferred /\ s.required = l.required
        /\ s.troubled = l.troubled /\ s.next = l.next /\ s.due = l.due
    BY <1>1, <1>2, <1>11, <2>2, FileLoadedKeeps
  <2> HIDE DEF s
  <2>4. CASE Owns(l, a)
    <3>1. k = [s EXCEPT !.due = TRUE] /\ c = Show(n, a, yes)
      BY <1>2, <1>5, <1>6, <1>11, <2>4 DEF s, yes
    <3>2. /\ LifeOK(k) /\ DeferredOK(k) /\ k.attempts = s.attempts
          /\ k.owner = s.owner /\ k.active = s.active
          /\ k.next = s.next /\ k.deferred = s.deferred /\ k.required = s.required
          /\ k.troubled = s.troubled /\ k.due
      BY <2>3, <3>1, DueFields
    <3>3. LoadedOf(l, k, e)
      BY <2>1, <2>3, <2>4, <3>2 DEF LoadedOf
    <3>4. c \in Adapters /\ c.pc = n.pc /\ c.entry = n.entry /\ c.latest = n.latest
          /\ c.lateStart = n.lateStart /\ c.lateLoaded = n.lateLoaded
          /\ c.lateRestart = n.lateRestart /\ c.shown = a
          /\ c.batch = n.batch
      <4>1. n \in Adapters /\ a \in Attempts \cup {None} /\ yes \in BOOLEAN
        BY <1>7, <1>8, <2>1
      <4>2. c = [n EXCEPT !.shown = a, !.shownLoaded = yes]
        BY <3>1 DEF Show
      <4> HIDE DEF a
      <4> QED BY <4>1, <4>2 DEF Adapters
    <3>5. k.active = a /\ k.attempts[a].loaded
      BY <2>1, <2>3, <2>4, <3>2 DEF LifeOK, AttemptsOK, AttemptOK
    <3>6. LoadedTold(l, k, c, d, e, yes)
      BY <1>7, <1>8, <1>11, <2>2, <2>4, <3>2, <3>4, <3>5 DEF LoadedTold
    <3> QED BY <1>7, <3>3, <3>6, LoadedKeeps DEF e, Shows
  <2>5. CASE ~Owns(l, a)
    <3>1. k = s /\ c = n
      BY <1>2, <1>5, <1>6, <1>11, <2>5 DEF s
    <3>2. LoadedOf(l, k, e)
      BY <2>1, <2>3, <2>5, <3>1 DEF LoadedOf
    <3>3. LoadedTold(l, k, c, d, e, no)
      BY <1>7, <1>8, <2>3, <2>5, <3>1 DEF LoadedTold
    <3> QED BY <1>7, <3>2, <3>3, LoadedKeeps DEF e, Shows
  <2> QED BY <2>4, <2>5
<1> QED BY <1>3, <1>9, <1>10, <1>11

\* The active attempt's entry is no younger than the one that mpv tells of.
LEMMA ActiveIsReached ==
  ASSUME NEW m, NEW q, NEW l, NEW d, NEW h, Firm(m, q, l, d, h), q # << >>,
         q[1].kind \in Shows, l.active # None
  PROVE  Reached(l.attempts[l.active].entry, h)
<1> DEFINE f == l.attempts[l.active].entry
<1>1. /\ LifeOK(l) /\ l.active \in Attempts /\ Typed(m, q, d, h)
      /\ QueueOK(m, q, d, h) /\ OwnOK(m, q, l, d, h) /\ l.attempts \in [Attempts -> LoadAttempt]
  BY FirmTypes
<1>2. 1 \in 1 .. Len(q) /\ q[1].entry \in Entries /\ q[1].entry \in h
  <2>1. 1 \in 1 .. Len(q)
    BY <1>1, TypedFields
  <2> QED BY <1>1, <2>1, TypedFields DEF QueueOK, Real
<1>3. f # None /\ f \in Entries \cup {None} /\ l.owner[f] = l.active
  BY <1>1 DEF LifeOK, ActiveOK, OwnersOK, LoadAttempt
<1>4. ~(f > q[1].entry)
  BY <1>1, <1>2, <1>3 DEF OwnOK, OwnsOpened, Opens, Shows
<1>5. f <= q[1].entry
  BY <1>2, <1>3, <1>4, Numbers
<1> QED BY <1>2, <1>5 DEF Reached

\* A playback-restart shows the active attempt as loaded.
LEMMA RestartShownKeeps ==
  ASSUME NEW m, NEW q, NEW l, NEW d, NEW h, PlayerInv(m, q, l, d, h),
         d.pc \in {"idle", "read", "publish"}, q # << >>, q[1].kind \in Shows, l.active # None,
         NEW c, c = Show(d, l.active, TRUE)
  PROVE  PlayerInv(m, Tail(q), l, c, h) /\ Permanent(l, l)
<1>1. /\ Firm(m, q, l, d, h) /\ FlagsOK(l, d) /\ RestOK(m, l, d, h) /\ LifeOK(l)
      /\ d \in Adapters /\ l.active \in Attempts /\ d.batch \in SUBSET Attempts
      /\ Typed(m, q, d, h) /\ QueueOK(m, q, d, h) /\ OwnOK(m, q, l, d, h)
  BY FirmTypes DEF PlayerInv
<1>2. /\ c \in Adapters /\ c.pc = d.pc /\ c.entry = d.entry /\ c.latest = d.latest
      /\ c.lateStart = d.lateStart /\ c.lateLoaded = d.lateLoaded
      /\ c.lateRestart = d.lateRestart /\ c.shown = l.active /\ c.batch = d.batch
  <2>1. c = [d EXCEPT !.shown = l.active, !.shownLoaded = TRUE]
    BY DEF Show
  <2> QED BY <1>1, <2>1 DEF Adapters
<1>3. /\ Typed(m, Tail(q), c, h) /\ QueueOK(m, Tail(q), c, h)
      /\ \A g \in Entries : ~Loading(m, Tail(q), g)
  BY <1>1, <1>2, LoadedHandled
<1>4. OwnOK(m, Tail(q), l, c, h)
  <2>1. /\ c.lateLoaded => c.latest \in h /\ l.owner[c.latest] = None
        /\ c.lateRestart => c.latest \in h
    BY <1>1, <1>2 DEF OwnOK, LateOK
  <2> QED BY <1>1, <1>2, <2>1, OwnLoaded
<1>5. l.attempts[l.active].state \notin {"none", "terminal", "quiescent"}
      /\ l.attempts[l.active].entry # None
  BY <1>1 DEF LifeOK, ActiveOK
<1>6. ShownOK(m, Tail(q), l, c, h)
  <2>1. Reached(l.attempts[l.active].entry, h)
    BY <1>1, ActiveIsReached
  <2> QED BY <1>1, <1>2, <1>3, <1>5, <2>1, ShownAnew
<1>7. RestOK(m, l, c, h)
  BY <1>1, <1>2 DEF RestOK, InFlight, BatchOK
<1>8. Firm(m, Tail(q), l, c, h)
  BY <1>3, <1>4, <1>6, <1>7 DEF Firm
<1>9. Agree(l, c)
  BY <1>2, <1>5 DEF Agree
<1>10. FlagsOK(l, c) /\ Asked(l, c)
  BY <1>1, <1>2, <1>9 DEF FlagsOK, Asked
<1>11. Permanent(l, l)
  BY <1>1 DEF Permanent
<1> QED BY <1>8, <1>10, <1>11 DEF PlayerInv

LEMMA HandleRestartKeeps ==
  ASSUME NEW m, NEW q, NEW l, NEW d, NEW h, PlayerInv(m, q, l, d, h),
         d.pc \in {"idle", "read", "publish"}, q # << >>, q[1].kind = "restart",
         NEW k, NEW c, k = AfterRestart(l, d)[1], c = AfterRestart(l, d)[2]
  PROVE  PlayerInv(m, Tail(q), k, c, h) /\ Permanent(l, k)
<1> DEFINE e == q[1].entry
           no == FALSE
           late == d.lateStart /\ l.owner[d.latest] \in {None} \cup (Attempts \ {l.active})
           other == \/ l.active = None
                    \/ d.shown # None /\ l.attempts[d.shown].entry # l.attempts[l.active].entry
<1>1. /\ LifeOK(l) /\ DeferredOK(l) /\ d \in Adapters
      /\ QueueOK(m, q, d, h) /\ OwnOK(m, q, l, d, h)
  BY FirmTypes DEF PlayerInv
<1>2. q[1].kind \in Shows /\ no \in BOOLEAN /\ ~no /\ e = q[1].entry
  BY DEF Shows
<1>3. <<k, c>> = IF late THEN <<[l EXCEPT !.due = TRUE], [d EXCEPT !.lateRestart = TRUE]>>
                 ELSE IF other THEN <<[l EXCEPT !.due = TRUE], d>>
                 ELSE <<l, Show(d, l.active, TRUE)>>
  BY DEF AfterRestart
<1> HIDE DEF no
<1>4. CASE late
  <2>1. k = [l EXCEPT !.due = TRUE] /\ c = [d EXCEPT !.lateRestart = TRUE]
    BY <1>3, <1>4
  <2>2. LoadedOf(l, k, e) /\ k.active = l.active
    BY <1>1, <2>1, DueIsLoadedOf, DueFields
  <2>3. d.latest = e
    BY <1>1, <1>4 DEF OwnOK, LateOK, QueueOK, Heard
  <2>4. c \in Adapters /\ c.pc = d.pc /\ c.latest = d.latest /\ c.entry = d.entry
        /\ c.lateStart = d.lateStart /\ c.lateLoaded = d.lateLoaded
        /\ c.batch = d.batch /\ c.shown = d.shown /\ c.shownLoaded = d.shownLoaded
    BY <1>1, <2>1 DEF Adapters
  <2>5. LoadedTold(l, k, c, d, e, no)
    BY <1>2, <2>2, <2>3, <2>4 DEF LoadedTold
  <2> QED BY <1>2, <2>2, <2>5, LoadedKeeps
<1>5. CASE ~late /\ other
  <2>1. k = [l EXCEPT !.due = TRUE] /\ c = d
    BY <1>3, <1>5
  <2>2. LoadedOf(l, k, e) /\ k.active = l.active
    BY <1>1, <2>1, DueIsLoadedOf, DueFields
  <2>3. LoadedTold(l, k, c, d, e, no)
    BY <1>1, <1>2, <2>1, <2>2 DEF LoadedTold
  <2> QED BY <1>2, <2>2, <2>3, LoadedKeeps
<1>6. CASE ~late /\ ~other
  <2>1. k = l /\ c = Show(d, l.active, TRUE) /\ l.active # None
    BY <1>3, <1>6
  <2> QED BY <1>2, <2>1, RestartShownKeeps
<1> QED BY <1>4, <1>5, <1>6

\* What the adapter knows after an end-file of e, and the attempts, of which only a ends.
EndNoted(d, e) ==
  IF d.latest = e THEN [d EXCEPT !.latest = None, !.lateStart = FALSE, !.lateLoaded = FALSE,
                                        !.lateRestart = FALSE]
  ELSE d
EndTold(c, d, a) ==
  /\ c \in Adapters /\ c.pc = d.pc /\ c.latest = None /\ c.entry = d.entry
  /\ ~c.lateStart /\ ~c.lateLoaded /\ ~c.lateRestart /\ c.batch = d.batch
  /\ \/ d.shown # a /\ c.shown = d.shown /\ c.shownLoaded = d.shownLoaded
     \/ d.shown = a /\ c.shown = None /\ ~c.shownLoaded
EndOf(l, k, a) ==
  /\ Moves(l, k) /\ DeferredOK(k)
  /\ \A b \in Attempts \ {a} : k.attempts[b] = l.attempts[b]
  /\ a \in Attempts => k.attempts[a].state = "terminal"
  /\ \A f \in Entries : k.owner[f] = (IF l.owner[f] = a THEN None ELSE l.owner[f])
  /\ k.active = (IF l.active = a THEN None ELSE l.active)
  /\ k.deferred = l.deferred /\ k.required = l.required /\ k.troubled = l.troubled
  /\ k.next = l.next /\ (l.due => k.due)

\* The one attempt that the end of e is about, or something else if there is none.
Ends(l, e, a) ==
  a # None /\ l.owner[e] \in {None, a} /\ (a \in Attempts => l.owner[e] = a)

LEMMA EndKeeps ==
  ASSUME NEW m, NEW q, NEW l, NEW d, NEW h, PlayerInv(m, q, l, d, h),
         d.pc \in {"idle", "read", "publish"}, q # << >>, q[1].kind \notin Opens,
         NEW e, e = q[1].entry, NEW a, Ends(l, e, a),
         NEW k, EndOf(l, k, a), NEW c, EndTold(c, d, a)
  PROVE  PlayerInv(m, Tail(q), k, c, h) /\ Permanent(l, k)
<1>1. /\ Firm(m, q, l, d, h) /\ FlagsOK(l, d) /\ ShownOK(m, q, l, d, h) /\ l \in Lives
      /\ RestOK(m, l, d, h) /\ LifeOK(l) /\ DeferredOK(l) /\ l.next \in Nat \ {0}
      /\ l.owner \in [Entries -> Attempts \cup {None}] /\ d.batch \in SUBSET Attempts
      /\ d.shown \in Attempts \cup {None} /\ l.active \in Attempts \cup {None}
      /\ Typed(m, q, d, h) /\ QueueOK(m, q, d, h) /\ OwnOK(m, q, l, d, h)
      /\ h \in SUBSET Entries
  BY FirmTypes DEF PlayerInv
<1>2. e \in Entries
  <2>1. 1 \in 1 .. Len(q)
    BY <1>1, TypedFields
  <2> QED BY <1>1, <2>1, TypedFields
<1>3. /\ c \in Adapters /\ c.pc = d.pc /\ c.latest = None /\ c.entry = d.entry
      /\ ~c.lateStart /\ ~c.lateLoaded /\ ~c.lateRestart /\ c.batch = d.batch
  BY DEF EndTold
<1>4. /\ LifeOK(k) /\ DeferredOK(k) /\ Evolves(l, k) /\ Uncompleted(l, k) /\ Permanent(l, k)
      /\ k.deferred = l.deferred /\ k.next = l.next /\ k.required = l.required
      /\ k.troubled = l.troubled /\ (l.due => k.due)
  BY DEF EndOf, Moves
<1>5. /\ Typed(m, Tail(q), c, h) /\ QueueOK(m, Tail(q), c, h)
      /\ \A g \in Entries : ~Loading(m, Tail(q), g)
  BY <1>1, <1>3, EndHandled
<1>6. a \in Attempts => /\ l.attempts[a].entry # None
                        /\ l.attempts[a].state \notin {"none", "terminal", "accepted"}
  BY <1>1, <1>2, Values DEF LifeOK, OwnersOK, AttemptsOK, AttemptOK, Ends
<1>7. OwnOK(m, Tail(q), k, c, h)
  <2>1. Shrinks(l, k)
    BY <1>4 DEF Shrinks, EndOf, Evolves, Grows
  <2>2. k.owner[q[1].entry] = None
    BY <1>2 DEF EndOf, Ends
  <2> QED BY <1>1, <1>3, <1>4, <2>1, <2>2, OwnEnd
<1>8. ShownOK(m, Tail(q), k, c, h)
  <2>1. CASE c.shown = None /\ ~c.shownLoaded
    BY <2>1, ShownHidden
  <2>2. CASE d.shown # a /\ c.shown = d.shown /\ c.shownLoaded = d.shownLoaded
    <3>1. d.shown # None => Stays(l.attempts[d.shown], k.attempts[d.shown])
      BY <1>1, <2>2, StaysSame DEF EndOf
    <3>2. l.next <= k.next
      BY <1>1, <1>4
    <3> QED BY <1>1, <1>4, <1>5, <2>2, <3>1, <3>2, ShownStays
  <2> QED BY <2>1, <2>2 DEF EndTold
<1>9. RestOK(m, k, c, h)
  <2>1. c.pc # "sent" /\ d.pc # "sent" /\ c.pc # "lost"
    BY <1>3
  <2>2. DeferredMade(m, k) /\ k.next <= MaxAttempts + 1
    BY <1>1, <1>4 DEF RestOK, DeferredMade
  <2> QED BY <1>1, <1>3, <1>4, <2>1, <2>2, RestEvolves
<1>10. Firm(m, Tail(q), k, c, h)
  BY <1>5, <1>7, <1>8, <1>9 DEF Firm
<1>11. (Waiting(k) <=> Waiting(l)) /\ (Stray(l) => Stray(k))
  BY <1>6 DEF EndOf, Waiting, Stray
<1>12. Agree(l, d) => Agree(k, c)
  <2> SUFFICES ASSUME Agree(l, d) PROVE Agree(k, c)
    OBVIOUS
  <2>1. k.active # None => c.shown = k.active
    BY DEF EndOf, EndTold, Agree
  <2>2. c.shown # None => c.shown \in Attempts \ {a} /\ c.shown = d.shown
    BY <1>1 DEF EndTold
  <2>3. c.shown # None => k.attempts[c.shown].state \notin {"none", "terminal"}
    BY <2>2 DEF EndOf, Agree
  <2> QED BY <2>1, <2>3 DEF Agree
<1>13. k.active # None =>
         \/ c.shown = k.active
         \/ /\ l.active # None /\ (d.shown = l.active => c.shown = k.active)
            /\ l.attempts[l.active].entry = d.entry => k.attempts[k.active].entry = c.entry
  <2> SUFFICES ASSUME k.active # None
               PROVE  /\ l.active # None /\ (d.shown = l.active => c.shown = k.active)
                      /\ l.attempts[l.active].entry = d.entry => k.attempts[k.active].entry = c.entry
    OBVIOUS
  <2>1. k.active = l.active /\ l.active # a /\ l.active \in Attempts
    BY <1>1 DEF EndOf
  <2>2. k.attempts[k.active] = l.attempts[l.active]
    BY <2>1 DEF EndOf
  <2> QED BY <1>3, <2>1, <2>2 DEF EndTold
<1>14. FlagsOK(k, c)
  BY <1>1, <1>3, <1>4, <1>11, <1>12, <1>13, FlagsCarry
<1>15. Asked(k, c)
  BY <1>3 DEF Asked
<1> QED BY <1>4, <1>10, <1>14, <1>15 DEF PlayerInv

\* The adapter and the reducer after the end of e, whose owner is a.
EndShown(l, d, e) ==
  IF l.owner[e] # None /\ EndNoted(d, e).shown = l.owner[e] THEN Hidden(EndNoted(d, e))
  ELSE EndNoted(d, e)

EndLife(l, e, outcome, due) ==
  IF l.owner[e] = None THEN [l EXCEPT !.due = @ \/ due] ELSE Commit(l, l.owner[e], outcome)

LEMMA HandleEndKeeps ==
  ASSUME NEW m, NEW q, NEW l, NEW d, NEW h, PlayerInv(m, q, l, d, h),
         d.pc \in {"idle", "read", "publish"}, q # << >>, q[1].kind \notin Opens,
         NEW e, e = q[1].entry, NEW k, NEW due, due \in BOOLEAN,
         k = EndLife(l, e, q[1].kind, due)
  PROVE  LET c == EndShown(l, d, e) IN
         PlayerInv(m, Tail(q), k, c, h) /\ Permanent(l, k)
<1> DEFINE n == EndNoted(d, e)
           c == EndShown(l, d, e)
<1>1. /\ Firm(m, q, l, d, h) /\ LifeOK(l) /\ DeferredOK(l) /\ d \in Adapters /\ l \in Lives
      /\ l.owner \in [Entries -> Attempts \cup {None}] /\ l.active \in Attempts \cup {None}
      /\ d.shown \in Attempts \cup {None} /\ h \in SUBSET Entries
      /\ Typed(m, q, d, h) /\ QueueOK(m, q, d, h) /\ OwnOK(m, q, l, d, h)
  BY FirmTypes DEF PlayerInv
<1>2. e \in Entries /\ q[1].kind \in Outcomes
  <2>1. 1 \in 1 .. Len(q)
    BY <1>1, TypedFields
  <2> QED BY <1>1, <2>1, TypedFields DEF Opens, Outcomes
<1>3. d.latest \in {None, e}
  BY <1>1 DEF QueueOK, Heard
<1>4. n \in Adapters /\ n.pc = d.pc /\ n.latest = None /\ n.entry = d.entry
      /\ ~n.lateStart /\ ~n.lateLoaded /\ ~n.lateRestart /\ n.batch = d.batch
      /\ n.shown = d.shown /\ n.shownLoaded = d.shownLoaded
  <2>1. CASE d.latest = e
    <3>1. n = [d EXCEPT !.latest = None, !.lateStart = FALSE, !.lateLoaded = FALSE,
                      !.lateRestart = FALSE]
      BY <2>1 DEF EndNoted
    <3> QED BY <1>1, <3>1, Values DEF Adapters
  <2>2. CASE d.latest # e
    <3>1. n = d /\ d.latest = None
      BY <1>3, <2>2 DEF EndNoted
    <3>2. ~d.lateStart /\ ~d.lateLoaded /\ ~d.lateRestart
      BY <1>1, <3>1, Values DEF OwnOK, LateOK
    <3> QED BY <1>1, <3>1, <3>2
  <2> QED BY <2>1, <2>2
<1> HIDE DEF n
<1>5. CASE l.owner[e] = None
  <2>1. c = n
    BY <1>5 DEF EndShown, n
  <2>2. /\ k \in Lives /\ k.attempts = l.attempts /\ k.owner = l.owner /\ k.active = l.active
        /\ k.ended = l.ended /\ k.next = l.next /\ k.deferred = l.deferred
        /\ k.required = l.required /\ k.troubled = l.troubled /\ (l.due => k.due)
    <3>1. k = [l EXCEPT !.due = l.due \/ due] /\ l.due \in BOOLEAN
      BY <1>1, <1>5 DEF Lives, EndLife
    <3> QED BY <1>1, <3>1 DEF Lives
  <2>3. Moves(l, k) /\ DeferredOK(k)
    <3>1. Within(k.deferred, l.deferred)
      BY <2>2 DEF Within
    <3>2. DeferredOK(k)
      BY <1>1, <2>2 DEF DeferredOK, Explained
    <3> QED BY <1>1, <2>2, <3>1, <3>2, FlagsMove
  <2>4. PICK a : a \notin Attempts \cup {None}
    BY NoSetContainsEverything
  <2>5. EndOf(l, k, a)
    BY <1>1, <2>2, <2>3, <2>4 DEF EndOf
  <2>6. EndTold(c, d, a)
    BY <1>1, <1>4, <2>1, <2>4 DEF EndTold
  <2>7. Ends(l, e, a)
    BY <1>5, <2>4 DEF Ends
  <2> HIDE DEF c
  <2>8. PlayerInv(m, Tail(q), k, c, h) /\ Permanent(l, k)
    BY <2>5, <2>6, <2>7, EndKeeps
  <2> QED BY <2>8 DEF c
<1>6. CASE l.owner[e] # None
  <2> DEFINE a == l.owner[e]
  <2>1. k = CommitAll(l, {a}, q[1].kind)
    BY <1>6 DEF Commit, EndLife
  <2>2. a \in Attempts /\ l.attempts[a].state # "none"
    BY <1>1, <1>2, <1>6 DEF LifeOK, OwnersOK
  <2>3. EndOf(l, k, a)
    <3>1. /\ Moves(l, k) /\ (DeferredOK(l) => DeferredOK(k))
          /\ \A b \in Attempts : b \notin {a} => k.attempts[b] = l.attempts[b]
          /\ \A b \in Attempts : b \in {a} /\ l.attempts[b].state # "none" =>
                k.attempts[b].state = "terminal"
          /\ \A f \in Entries : k.owner[f] = (IF l.owner[f] \in {a} THEN None ELSE l.owner[f])
          /\ k.active = (IF l.active \in {a} THEN None ELSE l.active)
          /\ k.deferred = l.deferred /\ k.required = l.required /\ k.troubled = l.troubled
          /\ k.next = l.next /\ k.due = l.due
      BY <1>1, <1>2, <2>1, CommitMoves
    <3> HIDE DEF a
    <3> QED BY <1>1, <2>2, <3>1 DEF EndOf
  <2>4. EndTold(c, d, a)
    <3>1. CASE d.shown = a
      <4>1. c = [n EXCEPT !.shown = None, !.shownLoaded = FALSE]
        BY <1>4, <1>6, <3>1 DEF EndShown, Hidden, n
      <4> HIDE DEF c, a
      <4>2. c \in Adapters /\ c.pc = n.pc /\ c.latest = n.latest /\ c.entry = n.entry
            /\ c.lateStart = n.lateStart /\ c.lateLoaded = n.lateLoaded
            /\ c.lateRestart = n.lateRestart /\ c.batch = n.batch
            /\ c.shown = None /\ ~c.shownLoaded
        BY <1>4, <4>1, Values DEF Adapters
      <4> QED BY <1>4, <3>1, <4>2 DEF EndTold
    <3>2. CASE d.shown # a
      <4>1. c = n
        BY <1>4, <3>2 DEF EndShown, n
      <4> HIDE DEF c, a
      <4> QED BY <1>4, <3>2, <4>1 DEF EndTold
    <3> QED BY <3>1, <3>2
  <2>6. Ends(l, e, a)
    BY <1>6 DEF Ends
  <2> HIDE DEF c, a
  <2>5. PlayerInv(m, Tail(q), k, c, h) /\ Permanent(l, k)
    BY <2>3, <2>4, <2>6, EndKeeps
  <2> QED BY <2>5 DEF c
<1> QED BY <1>5, <1>6

-----------------------------------------------------------------------------
(* The answer of a reconciliation. *)

\* The adapter after the snapshot, with nothing to replay.
Unreplayed(c, d) ==
  /\ c \in Adapters /\ c.pc = "publish" /\ c.entry = d.entry /\ c.latest = d.latest
  /\ c.lateStart = d.lateStart /\ c.lateLoaded = d.lateLoaded
  /\ c.lateRestart = d.lateRestart /\ c.shown = d.shown
  /\ c.shownLoaded = d.shownLoaded /\ c.batch = d.batch

LEMMA SnapshotOfNothingKeeps ==
  ASSUME NEW m, NEW q, NEW l, NEW d, NEW h, PlayerInv(m, q, l, d, h), d.pc = "read",
         NEW k, SnappedIdle(l, k), NEW c, Unreplayed(c, d)
  PROVE  PlayerInv(m, q, k, c, h) /\ Permanent(l, k)
<1>1. /\ Firm(m, q, l, d, h) /\ ShownOK(m, q, l, d, h) /\ RestOK(m, l, d, h) /\ LifeOK(l)
      /\ d \in Adapters /\ d.batch \in SUBSET Attempts /\ h \in SUBSET Entries
      /\ d.shown \in Attempts \cup {None} /\ l.next \in Nat \ {0}
  BY FirmTypes DEF PlayerInv
<1>2. /\ LifeOK(k) /\ DeferredOK(k) /\ Evolves(l, k) /\ Uncompleted(l, k) /\ Permanent(l, k)
      /\ Within(k.deferred, l.deferred) /\ k.active \in {None, l.active} /\ k.next = l.next
      /\ \A f \in Entries : k.owner[f] \in {None, l.owner[f]}
      /\ (k.troubled \/ Waiting(k) <=> k.required)
      /\ (~k.troubled /\ ~Waiting(k) => k.active = None)
  BY DEF SnappedIdle, Moves
<1>3. /\ c \in Adapters /\ c.pc = "publish" /\ c.entry = d.entry /\ c.latest = d.latest
      /\ c.lateStart = d.lateStart /\ c.lateLoaded = d.lateLoaded
      /\ c.lateRestart = d.lateRestart /\ c.shown = d.shown
      /\ c.shownLoaded = d.shownLoaded /\ c.batch = d.batch
  BY DEF Unreplayed
<1>4. Shrinks(l, k)
  BY <1>2 DEF Shrinks, Evolves, Grows
<1>5. ShownOK(m, q, k, c, h)
  <2>1. d.shown # None => Stays(l.attempts[d.shown], k.attempts[d.shown])
    <3>1. d.shown # None => d.shown \in Attempts /\ d.shown < l.next
      BY <1>1 DEF ShownOK
    <3> QED BY <1>2, <3>1, GrowsStays DEF Evolves
  <2>2. l.next <= k.next
    BY <1>1, <1>2
  <2>3. LifeOK(k) /\ c.shown = d.shown /\ (c.shownLoaded => d.shownLoaded) /\ c.latest = d.latest
    BY <1>2, <1>3
  <2> QED BY <1>1, <2>1, <2>2, <2>3, ShownStays
<1>6. RestOK(m, k, c, h)
  <2>1. c.pc # "sent" /\ d.pc # "sent" /\ c.pc # "lost"
    BY <1>3
  <2>2. DeferredMade(m, k) /\ k.next <= MaxAttempts + 1
    BY <1>1, <1>2, WithinMade DEF RestOK
  <2> QED BY <1>1, <1>2, <1>3, <2>1, <2>2, RestEvolves
<1>7. Firm(m, q, k, c, h)
  <2>1. c.pc # "lost" /\ d.pc # "lost"
    BY <1>3
  <2> QED BY <1>1, <1>3, <1>4, <1>5, <1>6, <2>1, FirmOfAdapter
<1>8. FlagsOK(k, c) /\ Asked(k, c)
  BY <1>2, <1>3 DEF FlagsOK, Asked
<1> QED BY <1>2, <1>7, <1>8 DEF PlayerInv

\* The adapter after a snapshot of e, with what it replays: it shows what it did, or the
\* active attempt.
SnapTold(k, c, d, h) ==
  /\ c \in Adapters /\ c.pc = "publish" /\ c.entry = d.entry /\ c.latest = d.latest
  /\ c.batch = d.batch
  /\ c.lateStart => d.lateStart /\ k.owner[d.latest] = None
  /\ c.lateLoaded => d.lateLoaded /\ k.owner[d.latest] = None
  /\ c.lateRestart => d.lateRestart
  /\ \/ c.shown = d.shown /\ c.shownLoaded = d.shownLoaded
     \/ /\ d.latest # None /\ c.shown = k.active /\ k.active # None
        /\ c.shownLoaded =>
             k.attempts[k.active].loaded \/ Reached(k.attempts[k.active].entry, h)

\* The reducer after the snapshot s of e and what is replayed.
SnapReplayed(s, k, e, h) ==
  /\ LoadedOf(s, k, e) /\ (Uncompleted(s, k) \/ e \in h)
  /\ \/ k.active = s.active
     \/ /\ k.active = s.owner[e] /\ s.owner[e] \in Attempts
        /\ ~s.attempts[s.owner[e]].revoked

LEMMA SnapshotOfEntryKeeps ==
  ASSUME NEW m, NEW q, NEW l, NEW d, NEW h, PlayerInv(m, q, l, d, h), d.pc = "read", q = << >>,
         NEW e \in Entries, e = d.entry, NEW s, Snapped(l, s, e), s.next <= MaxAttempts + 1,
         NEW k, SnapReplayed(s, k, e, h), NEW c, SnapTold(k, c, d, h)
  PROVE  PlayerInv(m, q, k, c, h) /\ Permanent(l, k)
<1>1. /\ Firm(m, q, l, d, h) /\ ShownOK(m, q, l, d, h) /\ RestOK(m, l, d, h) /\ LifeOK(l)
      /\ d \in Adapters /\ d.batch \in SUBSET Attempts /\ h \in SUBSET Entries
      /\ d.shown \in Attempts \cup {None} /\ l.next \in Nat \ {0}
      /\ Typed(m, q, d, h) /\ QueueOK(m, q, d, h) /\ OwnOK(m, q, l, d, h)
      /\ l.attempts \in [Attempts -> LoadAttempt]
  BY FirmTypes DEF PlayerInv
<1>2. /\ LifeOK(s) /\ Evolves(l, s) /\ Uncompleted(l, s) /\ Permanent(l, s)
      /\ Within(s.deferred, l.deferred) /\ s.active \in {None, s.owner[e]}
      /\ ~s.troubled /\ (s.required <=> Waiting(s))
  BY DEF Snapped, Moves
<1>3. /\ LifeOK(k) /\ DeferredOK(k) /\ k.owner = s.owner /\ k.next = s.next
      /\ k.deferred = s.deferred /\ k.required = s.required /\ k.troubled = s.troubled
      /\ \A b \in Attempts :
           /\ k.attempts[b].entry = s.attempts[b].entry
           /\ k.attempts[b].revoked = s.attempts[b].revoked
           /\ s.attempts[b].loaded => k.attempts[b].loaded
           /\ \/ k.attempts[b].state = s.attempts[b].state
              \/ b = s.owner[e] /\ k.attempts[b].state = "active"
           /\ k.attempts[b].command = "completed" =>
                s.attempts[b].command = "completed" \/ b = s.owner[e]
      /\ k.active \in {None, k.owner[e]}
  BY <1>2 DEF SnapReplayed, LoadedOf
<1>4. s.owner[e] \in Attempts => /\ s.attempts[s.owner[e]].entry = e
                                 /\ s.attempts[s.owner[e]].state \notin {"none", "terminal", "accepted"}
  BY <1>2, Values DEF LifeOK, OwnersOK, AttemptsOK, AttemptOK
<1>5. /\ c \in Adapters /\ c.pc = "publish" /\ c.entry = d.entry /\ c.latest = d.latest
      /\ c.batch = d.batch
      /\ c.lateStart => d.lateStart /\ k.owner[d.latest] = None
      /\ c.lateLoaded => d.lateLoaded /\ k.owner[d.latest] = None
      /\ c.lateRestart => d.lateRestart
  BY DEF SnapTold
<1>6. Typed(m, q, c, h) /\ QueueOK(m, q, c, h)
  <2>1. Typed(m, q, c, h)
    BY <1>1, <1>5 DEF Typed
  <2>2. (c.pc = "lost" <=> d.pc = "lost") /\ c.entry = d.entry /\ d.pc \in {"read", "publish"}
    BY <1>5
  <2> QED BY <1>1, <1>5, <2>1, <2>2, QueueOfAdapter
<1>7. OwnOK(m, q, k, c, h)
  <2>1. \A a \in Attempts : l.attempts[a].revoked => k.attempts[a].revoked
    BY <1>2, <1>3 DEF Evolves, Grows
  <2>2. d.entry \in Entries /\ Snapped(l, s, d.entry) /\ k.active \in {None, k.owner[d.entry]}
    BY <1>3
  <2> QED BY <1>1, <1>3, <1>5, <2>1, <2>2, OwnSnapshot
<1>8. \A b \in Attempts :
        \/ k.attempts[b].state = s.attempts[b].state
        \/ /\ k.attempts[b].state = "active"
           /\ s.attempts[b].state \notin {"none", "terminal", "accepted"}
           /\ s.attempts[b].entry # None
  BY <1>3, <1>4, Values
<1>9. \A b \in Attempts : Grows(l.attempts[b], s.attempts[b])
                          /\ (b < l.next /\ l.attempts[b].state = "none" => s.attempts[b].state = "none")
  BY <1>2 DEF Evolves
<1>10. ShownOK(m, q, k, c, h)
  <2>1. CASE c.shown = d.shown /\ c.shownLoaded = d.shownLoaded
    <3>1. d.shown # None => d.shown \in Attempts /\ d.shown < l.next
      BY <1>1 DEF ShownOK
    <3>2. d.shown # None => Stays(l.attempts[d.shown], s.attempts[d.shown])
      BY <1>9, <3>1, GrowsStays
    <3>3. d.shown # None => Stays(l.attempts[d.shown], k.attempts[d.shown])
      <4> SUFFICES ASSUME d.shown # None PROVE Stays(l.attempts[d.shown], k.attempts[d.shown])
        OBVIOUS
      <4> DEFINE x == l.attempts[d.shown]
                 y == s.attempts[d.shown]
                 z == k.attempts[d.shown]
      <4>1. Stays(x, y) /\ z.entry = y.entry /\ (y.loaded => z.loaded)
            /\ (z.state = y.state \/ (z.state = "active" /\ y.state # "none"))
        BY <1>3, <1>8, <3>1, <3>2
      <4> HIDE DEF x, y, z
      <4>2. Stays(x, z)
        BY <4>1 DEF Stays
      <4> QED BY <4>2 DEF x, z
    <3>4. l.next <= k.next
      BY <1>2, <1>3 DEF Evolves
    <3> QED BY <1>1, <1>3, <1>5, <2>1, <3>3, <3>4, ShownStays
  <2>2. CASE /\ d.latest # None /\ c.shown = k.active /\ k.active # None
             /\ c.shownLoaded =>
                  k.attempts[k.active].loaded \/ Reached(k.attempts[k.active].entry, h)
    <3>1. c.shown \in Attempts
      BY <1>5, <2>2 DEF Adapters
    <3>2. k.attempts[c.shown].state \notin {"none", "quiescent"} /\ k.attempts[c.shown].entry # None
      BY <1>3, <2>2 DEF LifeOK, ActiveOK
    <3> QED BY <1>3, <1>5, <2>2, <3>1, <3>2, ShownAnew
  <2> QED BY <2>1, <2>2 DEF SnapTold
<1>11. RestOK(m, k, c, h)
  <2>1. InFlight(k, c) /\ BatchOK(k, c)
    <3>1. \A b \in Attempts : l.attempts[b].state # "submitting"
      BY <1>1 DEF RestOK, InFlight
    <3>2. \A b \in Attempts : k.attempts[b].state # "submitting"
      BY <1>8, <1>9, <3>1 DEF Grows
    <3>3. BatchOK(k, c)
      BY <1>1, <1>5, <1>8, <1>9 DEF RestOK, BatchOK, Grows
    <3> QED BY <1>5, <3>2, <3>3 DEF InFlight
  <2>2. CompletedOK(k, h)
    <3> SUFFICES ASSUME NEW b \in Attempts, k.attempts[b].command = "completed"
                 PROVE  k.attempts[b].entry \in h
      BY DEF CompletedOK
    <3>1. CASE s.attempts[b].command = "completed"
      <4>1. l.attempts[b].entry \in h
        BY <1>1, <1>2, <3>1 DEF RestOK, CompletedOK, Uncompleted
      <4>2. l.attempts[b].entry # None
        BY <1>1, <4>1, Values
      <4> QED BY <1>3, <1>9, <4>1, <4>2 DEF Grows
    <3>2. CASE s.attempts[b].command # "completed"
      <4>1. b = s.owner[e] /\ e \in h
        BY <1>3, <3>2 DEF SnapReplayed, Uncompleted
      <4> QED BY <1>3, <1>4, <4>1
    <3> QED BY <3>1, <3>2
  <2>3. DeferredMade(m, k) /\ k.next <= MaxAttempts + 1
    <3>1. DeferredMade(m, s)
      BY <1>1, <1>2, WithinMade DEF RestOK
    <3> QED BY <1>3, <3>1 DEF DeferredMade
  <2> QED BY <1>3, <1>5, <2>1, <2>2, <2>3 DEF RestOK
<1>12. Firm(m, q, k, c, h)
  BY <1>6, <1>7, <1>10, <1>11 DEF Firm
<1>13. FlagsOK(k, c) /\ Asked(k, c)
  <2>1. Waiting(k) <=> Waiting(s)
    BY <1>8 DEF Waiting
  <2>2. k.active # None => k.attempts[k.active].entry = c.entry
    BY <1>3, <1>5 DEF LifeOK, OwnersOK
  <2> QED BY <1>2, <1>3, <1>5, <2>1, <2>2 DEF FlagsOK, Asked
<1>14. Permanent(l, k)
  <2>1. CASE k.active = s.active
    BY <1>2, <2>1 DEF Permanent
  <2>2. CASE /\ k.active = s.owner[e] /\ s.owner[e] \in Attempts
             /\ ~s.attempts[s.owner[e]].revoked
    BY <1>9, <2>2 DEF Permanent, Grows
  <2> QED BY <2>1, <2>2 DEF SnapReplayed
<1> QED BY <1>12, <1>13, <1>14 DEF PlayerInv

\* What ApplySnapshot replays after a snapshot has left s.
StartReplayed(s, d) == IF d.latest = None THEN d ELSE ReplayStart(s, d)
LoadReplayed(s, r) ==
  IF r.lateLoaded /\ s.owner[r.latest] # None THEN AfterLoaded(s, r) ELSE <<s, r>>

\* The adapter after the replay of a start-file, and of the playback-restart kept with it.
StartAgain(s, r, d, h) ==
  /\ r \in Adapters /\ r.pc = d.pc /\ r.entry = d.entry /\ r.latest = d.latest
  /\ r.batch = d.batch /\ r.lateLoaded = d.lateLoaded
  /\ r.lateStart => d.lateStart /\ d.latest # None /\ s.owner[d.latest] = None
  /\ r.lateRestart => d.lateRestart
  /\ \/ r.shown = d.shown /\ r.shownLoaded = d.shownLoaded
     \/ /\ d.latest # None /\ r.shown = s.active /\ s.active # None
        /\ r.shownLoaded => Reached(s.attempts[s.active].entry, h)

LEMMA ReplayOfStart ==
  ASSUME NEW s, LifeOK(s), NEW d \in Adapters, d.lateStart => d.latest # None,
         NEW h, d.lateRestart => d.latest \in h
  PROVE  StartAgain(s, StartReplayed(s, d), d, h)
<1> DEFINE r == StartReplayed(s, d)
           a == s.owner[d.latest]
           no == FALSE
<1>1. /\ d.latest \in Entries \cup {None} /\ s.owner \in [Entries -> Attempts \cup {None}]
      /\ d.lateStart \in BOOLEAN /\ d.lateRestart \in BOOLEAN
  BY LifeFields DEF Adapters, LifeOK
<1>2. CASE ~d.lateStart \/ d.latest = None \/ a = None
  <2>1. r = d
    BY <1>2 DEF StartReplayed, ReplayStart
  <2> HIDE DEF r
  <2> QED BY <1>2, <2>1 DEF StartAgain, r
<1>3. CASE d.lateStart /\ d.latest # None /\ a # None
  <2>1. a \in Attempts
    BY <1>1, <1>3
  <2>2. no \in BOOLEAN /\ ~no
    OBVIOUS
  <2>3. CASE OwnsProjection(s, a)
    <3> DEFINE v == d.lateRestart
    <3>1. r = [d EXCEPT !.shown = a, !.shownLoaded = v, !.lateStart = no, !.lateRestart = no]
      <4>1. r = Replayed(Show(d, a, v))
        BY <1>3, <2>3 DEF StartReplayed, ReplayStart
      <4> QED BY <4>1 DEF Show, Replayed, Adapters
    <3>2. s.active = a
      BY <2>3 DEF OwnsProjection
    <3>5. v => Reached(s.attempts[a].entry, h)
      <4>1. s.attempts[a].entry = d.latest /\ d.latest \in Entries
        BY <1>1, <1>3 DEF LifeOK, OwnersOK
      <4>2. d.latest <= d.latest
        BY <4>1, Numbers
      <4> QED BY <4>1, <4>2 DEF Reached
    <3>6. v \in BOOLEAN
      BY <1>1
    <3> HIDE DEF r, a, no, v
    <3>3. /\ r \in Adapters /\ r.pc = d.pc /\ r.entry = d.entry /\ r.latest = d.latest
          /\ r.batch = d.batch /\ r.lateLoaded = d.lateLoaded /\ r.shown = a
          /\ r.shownLoaded = v /\ r.lateStart = no /\ r.lateRestart = no
      BY <2>1, <2>2, <3>1, <3>6 DEF Adapters
    <3>4. StartAgain(s, r, d, h)
      BY <1>3, <2>1, <2>2, <3>2, <3>3, <3>5, Values DEF StartAgain
    <3> QED BY <3>4 DEF r
  <2>4. CASE ~OwnsProjection(s, a)
    <3>1. r = [d EXCEPT !.lateStart = no, !.lateRestart = no]
      BY <1>3, <2>4 DEF StartReplayed, ReplayStart, Replayed
    <3> HIDE DEF r, a, no
    <3>2. /\ r \in Adapters /\ r.pc = d.pc /\ r.entry = d.entry /\ r.latest = d.latest
          /\ r.batch = d.batch /\ r.lateLoaded = d.lateLoaded /\ r.shown = d.shown
          /\ r.shownLoaded = d.shownLoaded /\ r.lateStart = no /\ r.lateRestart = no
      BY <2>2, <3>1 DEF Adapters
    <3>3. StartAgain(s, r, d, h)
      BY <2>2, <3>2 DEF StartAgain
    <3> QED BY <3>3 DEF r
  <2> QED BY <2>3, <2>4
<1> QED BY <1>1, <1>2, <1>3

LEMMA SameIsLoadedOf ==
  ASSUME NEW s, LifeOK(s), DeferredOK(s), NEW e
  PROVE  LoadedOf(s, s, e)
BY DEF LoadedOf

\* The replay of a file-loaded of e, whose owner the snapshot has found.
LEMMA ReplayOfLoad ==
  ASSUME NEW s, LifeOK(s), DeferredOK(s), NEW e \in Entries, s.owner[e] # None,
         s.active \in {None, s.owner[e]}, NEW h, e \in h,
         NEW d, NEW r, StartAgain(s, r, d, h), d.latest = e
  PROVE  LET k == AfterLoaded(s, r)[1]
             c == AfterLoaded(s, r)[2] IN
         /\ SnapReplayed(s, k, e, h)
         /\ SnapTold(k, [c EXCEPT !.pc = "publish"], d, h)
<1> DEFINE a == s.owner[e]
           no == FALSE
           yes == TRUE
           n == [r EXCEPT !.lateLoaded = no]
           f == FileLoaded(s, e)
<1>1. /\ r \in Adapters /\ r.pc = d.pc /\ r.entry = d.entry /\ r.latest = e
      /\ r.batch = d.batch /\ ~r.lateStart /\ e # None /\ (r.lateRestart => d.lateRestart)
  <2>1. e # None
    BY Values
  <2> QED BY <2>1 DEF StartAgain
<1>2. ReplayStart(s, r) = r
  BY <1>1 DEF ReplayStart
<1>3. AfterLoaded(s, r) = IF Owns(s, a) THEN <<[f EXCEPT !.due = yes], Show(n, a, yes)>>
                          ELSE <<f, n>>
  BY <1>1, <1>2 DEF AfterLoaded
<1>4. a \in Attempts /\ s.attempts[a].entry = e /\ s.attempts[a].state \notin {"none", "terminal"}
      /\ s.active \in Attempts \cup {None}
  BY LifeFields DEF LifeOK, OwnersOK
<1>5. Owns(s, a) => s.active \in {None, a} /\ ~s.attempts[a].revoked
  BY DEF Owns
<1>6. /\ LifeOK(f) /\ DeferredOK(f)
      /\ \A b \in Attempts \ {a} : f.attempts[b] = s.attempts[b]
      /\ f.attempts[a].entry = e /\ f.attempts[a].revoked = s.attempts[a].revoked
      /\ s.attempts[a].loaded => f.attempts[a].loaded
      /\ ~Owns(s, a) => /\ f.attempts[a].state = s.attempts[a].state
                        /\ f.attempts[a].command = s.attempts[a].command
      /\ Owns(s, a) => f.attempts[a].state = "active"
      /\ f.active = (IF Owns(s, a) THEN a ELSE s.active)
      /\ f.owner = s.owner /\ f.deferred = s.deferred /\ f.required = s.required
      /\ f.troubled = s.troubled /\ f.next = s.next /\ f.due = s.due
  BY <1>5, FileLoadedKeeps
<1>7. no \in BOOLEAN /\ yes \in BOOLEAN /\ ~no /\ yes
  OBVIOUS
<1>8. SUFFICES ASSUME NEW k, NEW c, NEW g, k = AfterLoaded(s, r)[1], g = AfterLoaded(s, r)[2],
                      c = [g EXCEPT !.pc = "publish"]
               PROVE  SnapReplayed(s, k, e, h) /\ SnapTold(k, c, d, h)
  OBVIOUS
<1> HIDE DEF f, no, yes, n
<1>9. /\ n \in Adapters /\ n.pc = r.pc /\ n.entry = r.entry /\ n.latest = r.latest
      /\ n.lateStart = r.lateStart /\ n.lateLoaded = no /\ n.lateRestart = r.lateRestart
      /\ n.shown = r.shown
      /\ n.shownLoaded = r.shownLoaded /\ n.batch = r.batch
  BY <1>1, <1>7, AtLateLoaded DEF n
<1>10. CASE Owns(s, a)
  <2>1. k = [f EXCEPT !.due = TRUE] /\ g = Show(n, a, yes)
    BY <1>3, <1>8, <1>10 DEF yes
  <2>2. /\ LifeOK(k) /\ DeferredOK(k) /\ k.attempts = f.attempts
        /\ k.owner = f.owner /\ k.active = f.active
        /\ k.next = f.next /\ k.deferred = f.deferred /\ k.required = f.required
        /\ k.troubled = f.troubled /\ k.due
    BY <1>6, <2>1, DueFields
  <2>3. LoadedOf(s, k, e)
    BY <1>4, <1>6, <1>10, <2>2 DEF LoadedOf
  <2>4. k.active = a /\ k.attempts[a].loaded
    BY <1>4, <1>6, <1>10, <2>2 DEF LifeOK, AttemptsOK, AttemptOK
  <2>5. SnapReplayed(s, k, e, h)
    BY <1>4, <1>5, <1>10, <2>3, <2>4 DEF SnapReplayed
  <2>6. g \in Adapters /\ g.entry = n.entry /\ g.latest = n.latest
        /\ g.lateStart = n.lateStart /\ g.lateLoaded = n.lateLoaded
        /\ g.lateRestart = n.lateRestart /\ g.shown = a
        /\ g.batch = n.batch
    <3>1. n \in Adapters /\ a \in Attempts \cup {None} /\ yes \in BOOLEAN
      BY <1>4, <1>7, <1>9
    <3>2. g = [n EXCEPT !.shown = a, !.shownLoaded = yes]
      BY <2>1 DEF Show
    <3> HIDE DEF a
    <3> QED BY <3>1, <3>2 DEF Adapters
  <2>7. /\ c \in Adapters /\ c.pc = "publish" /\ c.entry = g.entry /\ c.latest = g.latest
        /\ c.lateStart = g.lateStart /\ c.lateLoaded = g.lateLoaded
        /\ c.lateRestart = g.lateRestart /\ c.shown = g.shown
        /\ c.batch = g.batch
    BY <1>8, <2>6, AtPc
  <2>8. a # None /\ d.latest # None
    BY <1>1, <1>4, Values
  <2>9. /\ c.entry = d.entry /\ c.latest = d.latest /\ c.batch = d.batch
        /\ ~c.lateStart /\ ~c.lateLoaded /\ (c.lateRestart => d.lateRestart)
        /\ c.shown = k.active /\ k.active # None
        /\ k.attempts[k.active].loaded
    BY <1>1, <1>7, <1>9, <2>4, <2>6, <2>7, <2>8
  <2>10. SnapTold(k, c, d, h)
    BY <2>7, <2>8, <2>9 DEF SnapTold
  <2> QED BY <2>5, <2>10
<1>11. CASE ~Owns(s, a)
  <2>1. k = f /\ g = n
    BY <1>3, <1>8, <1>11
  <2>2. LoadedOf(s, k, e) /\ k.active = s.active
    BY <1>4, <1>6, <1>11, <2>1 DEF LoadedOf
  <2>3. SnapReplayed(s, k, e, h)
    BY <2>2 DEF SnapReplayed
  <2>4. /\ c \in Adapters /\ c.pc = "publish" /\ c.entry = g.entry /\ c.latest = g.latest
        /\ c.lateStart = g.lateStart /\ c.lateLoaded = g.lateLoaded
        /\ c.lateRestart = g.lateRestart /\ c.shown = g.shown
        /\ c.shownLoaded = g.shownLoaded /\ c.batch = g.batch
    <3>1. g \in Adapters /\ c = [g EXCEPT !.pc = "publish"]
      BY <1>8, <1>9, <2>1
    <3> QED BY <3>1, AtPc
  <2>5. /\ c.entry = d.entry /\ c.latest = d.latest /\ c.batch = d.batch
        /\ ~c.lateStart /\ ~c.lateLoaded /\ (c.lateRestart => d.lateRestart)
        /\ c.shown = r.shown /\ c.shownLoaded = r.shownLoaded
    BY <1>1, <1>7, <1>9, <2>1, <2>4
  <2>6. \/ c.shown = d.shown /\ c.shownLoaded = d.shownLoaded
        \/ /\ d.latest # None /\ c.shown = k.active /\ k.active # None
           /\ c.shownLoaded => Reached(k.attempts[k.active].entry, h)
    <3>1. k.active # None => k.attempts[k.active].entry = s.attempts[s.active].entry
      BY <1>4, <2>2 DEF LoadedOf
    <3> QED BY <2>2, <2>5, <3>1 DEF StartAgain
  <2>7. SnapTold(k, c, d, h)
    BY <2>4, <2>5, <2>6 DEF SnapTold
  <2> QED BY <2>3, <2>7
<1> QED BY <1>10, <1>11

LEMMA SnapshotOfEntry ==
  ASSUME NEW m, NEW q, NEW l, NEW d, NEW h, PlayerInv(m, q, l, d, h), d.pc = "read", q = << >>,
         NEW e \in Entries, e = d.entry, NEW s, Snapped(l, s, e), s.next <= MaxAttempts + 1
  PROVE  LET after == LoadReplayed(s, StartReplayed(s, d))
             k == after[1]
             c == [after[2] EXCEPT !.pc = "publish"] IN
         PlayerInv(m, q, k, c, h) /\ Permanent(l, k)
<1> DEFINE r == StartReplayed(s, d)
           after == LoadReplayed(s, r)
<1>1. LifeOK(s) /\ DeferredOK(s) /\ d \in Adapters /\ h \in SUBSET Entries /\ LateOK(l, d, h)
  BY FirmTypes DEF PlayerInv, Snapped, Moves, OwnOK
<1>2. StartAgain(s, r, d, h)
  BY <1>1, ReplayOfStart DEF LateOK
<1> HIDE DEF r
<1>3. r \in Adapters /\ r.latest = d.latest /\ r.lateLoaded = d.lateLoaded /\ r.batch = d.batch
      /\ r.entry = d.entry
  BY <1>2 DEF StartAgain
<1>4. SUFFICES ASSUME NEW k, NEW c, k = after[1], c = [after[2] EXCEPT !.pc = "publish"]
               PROVE  PlayerInv(m, q, k, c, h) /\ Permanent(l, k)
  BY DEF r
<1>5. CASE ~(d.lateLoaded /\ s.owner[d.latest] # None)
  <2>1. k = s /\ c = [r EXCEPT !.pc = "publish"]
    BY <1>3, <1>4, <1>5 DEF LoadReplayed
  <2>2. /\ c \in Adapters /\ c.pc = "publish" /\ c.entry = r.entry /\ c.latest = r.latest
        /\ c.lateStart = r.lateStart /\ c.lateLoaded = r.lateLoaded
        /\ c.lateRestart = r.lateRestart /\ c.shown = r.shown
        /\ c.shownLoaded = r.shownLoaded /\ c.batch = r.batch
    BY <1>3, <2>1, AtPc
  <2>3. SnapReplayed(s, k, e, h)
    <3>1. LoadedOf(s, s, e) /\ Uncompleted(s, s)
      BY <1>1, SameIsLoadedOf DEF Uncompleted
    <3> QED BY <2>1, <3>1 DEF SnapReplayed
  <2>4. /\ c.lateStart => d.lateStart /\ k.owner[d.latest] = None
        /\ c.lateLoaded => d.lateLoaded /\ k.owner[d.latest] = None
        /\ c.lateRestart => d.lateRestart
    BY <1>2, <1>3, <1>5, <2>1, <2>2 DEF StartAgain
  <2>5. \/ c.shown = d.shown /\ c.shownLoaded = d.shownLoaded
        \/ /\ d.latest # None /\ c.shown = k.active /\ k.active # None
           /\ c.shownLoaded => Reached(k.attempts[k.active].entry, h)
    BY <1>2, <2>1, <2>2 DEF StartAgain
  <2>6. SnapTold(k, c, d, h)
    BY <1>3, <2>2, <2>4, <2>5 DEF SnapTold
  <2> QED BY <2>3, <2>6, SnapshotOfEntryKeeps
<1>6. CASE d.lateLoaded /\ s.owner[d.latest] # None
  <2>1. d.latest \in h /\ d.latest \in Entries /\ l.owner[d.latest] = None
    BY <1>1, <1>6 DEF LateOK
  <2>2. d.latest = e
    BY <1>6, <2>1 DEF Snapped
  <2>3. s.owner[e] # None /\ e \in h /\ s.active \in {None, s.owner[e]}
    BY <1>6, <2>1, <2>2 DEF Snapped
  <2>4. after = AfterLoaded(s, r)
    BY <1>3, <1>6 DEF LoadReplayed
  <2>5. /\ SnapReplayed(s, AfterLoaded(s, r)[1], e, h)
        /\ SnapTold(AfterLoaded(s, r)[1], [AfterLoaded(s, r)[2] EXCEPT !.pc = "publish"], d, h)
    BY <1>1, <1>2, <2>2, <2>3, ReplayOfLoad
  <2>6. SnapReplayed(s, k, e, h) /\ SnapTold(k, c, d, h)
    BY <1>4, <2>4, <2>5
  <2> QED BY <2>6, SnapshotOfEntryKeeps
<1> QED BY <1>5, <1>6

\* The snapshot that the reducer is given.
SnapshotOf(m, l, d) ==
  IF d.entry = None THEN SnapshotIdle(l, m.playing # None)
  ELSE Observed(SnapshotEntry(l, d.entry, m.target[d.entry]), d.entry, m.target[d.entry],
                d.shownLoaded)

LEMMA ApplySnapshotKeeps ==
  ASSUME NEW m, NEW q, NEW l, NEW d, NEW h, PlayerInv(m, q, l, d, h), d.pc = "read", q = << >>,
         SnapshotOf(m, l, d).next <= MaxAttempts + 1
  PROVE  LET s == SnapshotOf(m, l, d)
             after == LoadReplayed(s, StartReplayed(s, d))
             k == after[1]
             c == [after[2] EXCEPT !.pc = "publish"] IN
         PlayerInv(m, q, k, c, h) /\ Permanent(l, k)
<1> DEFINE s == SnapshotOf(m, l, d)
<1>1. /\ LifeOK(l) /\ DeferredOK(l) /\ d \in Adapters /\ h \in SUBSET Entries /\ OwnOK(m, q, l, d, h)
      /\ LateOK(l, d, h) /\ RestOK(m, l, d, h) /\ Typed(m, q, d, h) /\ l.next <= MaxAttempts + 1
      /\ d.entry \in Entries \cup {None} /\ d.shownLoaded \in BOOLEAN
      /\ d.latest \in Entries \cup {None}
  BY FirmTypes, TypedFields DEF PlayerInv, OwnOK
<1>2. CASE d.entry = None
  <2> DEFINE path == (m.playing # None)
  <2>1. path \in BOOLEAN /\ s = SnapshotIdle(l, path)
    BY <1>2 DEF SnapshotOf
  <2>2. \A a \in Attempts : l.attempts[a].state # "submitting"
    BY <1>1 DEF RestOK, InFlight
  <2> HIDE DEF path
  <2>3. SnappedIdle(l, s)
    BY <1>1, <2>1, <2>2, SnapshotIdleKeeps
  <2> HIDE DEF s
  <2>4. d.latest # None => s.owner[d.latest] \in {None, l.owner[d.latest]}
    BY <1>1, <2>3 DEF SnappedIdle
  <2>5. (d.lateStart => s.owner[d.latest] = None) /\ (d.lateLoaded => s.owner[d.latest] = None)
    BY <1>1, <2>4, Values DEF LateOK
  <2>6. StartReplayed(s, d) = d
    BY <2>5 DEF StartReplayed, ReplayStart
  <2>7. LoadReplayed(s, d) = <<s, d>>
    BY <2>5 DEF LoadReplayed
  <2> DEFINE c == [d EXCEPT !.pc = "publish"]
  <2>8. Unreplayed(c, d)
    BY <1>1, AtPc DEF Unreplayed
  <2> HIDE DEF c
  <2>9. PlayerInv(m, q, s, c, h) /\ Permanent(l, s)
    BY <2>3, <2>8, SnapshotOfNothingKeeps
  <2> QED BY <2>6, <2>7, <2>9 DEF s, c
<1>3. CASE d.entry # None
  <2> DEFINE e == d.entry
             t == m.target[e]
             shown == d.shownLoaded
  <2>1. e \in Entries /\ e \in 1 .. Len(m.target) /\ m.target \in Seq(Targets)
    BY <1>1, <1>3, TypedFields, Numbers DEF OwnOK, OwnsMade, Made
  <2>2. t \in Targets /\ shown \in BOOLEAN
    BY <1>1, <2>1
  <2>3. s = Observed(SnapshotEntry(l, e, t), e, t, shown)
    BY <1>3 DEF SnapshotOf
  <2>4. s.next <= MaxAttempts + 1
    OBVIOUS
  <2> HIDE DEF s, t, shown
  <2>5. Snapped(l, s, e)
    BY <1>1, <2>1, <2>2, <2>3, <2>4, SnapshotKeeps
  <2>6. LET after == LoadReplayed(s, StartReplayed(s, d))
            k == after[1]
            c == [after[2] EXCEPT !.pc = "publish"] IN
        PlayerInv(m, q, k, c, h) /\ Permanent(l, k)
    BY <2>1, <2>4, <2>5, SnapshotOfEntry
  <2> QED BY <2>6 DEF s
<1> QED BY <1>2, <1>3

-----------------------------------------------------------------------------
(* The specification. *)

LEMMA IdleMpvFields ==
  /\ IdleMpv \in Mpvs /\ Made(IdleMpv) = 0 /\ IdleMpv.list = None
  /\ IdleMpv.current = None /\ IdleMpv.playing = None /\ ~IdleMpv.loaded
<1>1. None \in Entries \cup {None} /\ << >> \in Seq(Targets) /\ Len(<< >>) = 0
  OBVIOUS
<1> QED BY <1>1 DEF IdleMpv, Mpvs, Made

LEMMA InitiallyOK ==
  PlayerInv(IdleMpv, << >>, [FreshLife(1) EXCEPT !.due = FALSE, !.required = FALSE],
            FreshAdapter("idle"), {})
<1> DEFINE m == IdleMpv
           q == << >>
           f == FreshLife(1)
           l == [f EXCEPT !.due = FALSE, !.required = FALSE]
           d == FreshAdapter("idle")
           h == {}
<1>1. /\ m \in Mpvs /\ Made(m) = 0 /\ m.list = None
      /\ m.current = None /\ m.playing = None /\ ~m.loaded
  BY IdleMpvFields
<1>2. /\ LifeOK(f) /\ DeferredOK(f) /\ f.next = 1 /\ f.active = None
      /\ \A a \in Attempts : f.attempts[a] = NoAttempt
      /\ \A e \in Entries : f.owner[e] = None
      /\ f.deferred = << >> /\ f.required = TRUE /\ f.troubled = FALSE /\ f.due = TRUE
      /\ f.tombs = {} /\ f.ended = FALSE
  <2>1. 1 \in Nat \ {0}
    OBVIOUS
  <2> QED BY <2>1, FreshLifeOK
<1> HIDE DEF m, f
<1>3. /\ l \in Lives /\ l.attempts = f.attempts /\ l.owner = f.owner /\ l.active = f.active
      /\ l.ended = f.ended /\ l.next = f.next /\ l.deferred = f.deferred
      /\ l.troubled = f.troubled /\ l.tombs = f.tombs /\ ~l.required /\ ~l.due
  BY <1>2 DEF LifeOK, Lives
<1>4. /\ d \in Adapters /\ d.pc = "idle" /\ d.entry = None /\ d.latest = None
      /\ ~d.lateStart /\ ~d.lateLoaded /\ ~d.lateRestart
      /\ d.shown = None /\ ~d.shownLoaded /\ d.batch = {}
  <2>1. None \in Entries \cup {None} /\ None \in Attempts \cup {None}
    BY Values
  <2> QED BY <2>1 DEF Adapters, FreshAdapter
<1> HIDE DEF l, d
<1>5. LifeOK(l) /\ DeferredOK(l)
  <2>1. LifeOK(l)
    BY <1>2, <1>3, SameLife
  <2> QED BY <1>2, <1>3, <2>1 DEF DeferredOK
<1>6. Typed(m, q, d, h) /\ Len(q) = 0
  BY <1>1, <1>4, Numbers DEF Typed
<1>7. QueueOK(m, q, d, h)
  <2>1. OpenEntry(m, q, d) = None
    BY <1>1, <1>4 DEF OpenEntry
  <2> QED BY <1>1, <1>4, <1>6, <2>1, Numbers
          DEF QueueOK, MachineOK, Sorted, Chained, Real, Told, Deaf, Ahead, Heard, Timely
<1>8. OwnOK(m, q, l, d, h)
  <2>1. Made(m) \in Nat /\ \A e \in Entries : e > Made(m) => l.owner[e] = None
    BY <1>1, <1>2, <1>3
  <2> QED BY <1>1, <1>2, <1>3, <1>4, <1>6, <2>1, Numbers, TypedFields
          DEF OwnOK, OwnsMade, OwnsOpened, StartIsFree, ReadIsFresh, LoadIsFree, LateOK, OpenEntry
<1>9. ShownOK(m, q, l, d, h)
  BY <1>4, ShownHidden
<1>10. RestOK(m, l, d, h)
  <2>1. InFlight(l, d) /\ BatchOK(l, d) /\ CompletedOK(l, h)
    BY <1>2, <1>3, <1>4, NoAttemptOK DEF InFlight, BatchOK, CompletedOK
  <2>2. DeferredMade(m, l)
    BY <1>2, <1>3 DEF DeferredMade, Distinct
  <2> QED BY <1>2, <1>3, <1>4, <1>5, <2>1, <2>2, LoadAssumption DEF RestOK
<1>11. FlagsOK(l, d) /\ Asked(l, d)
  <2>1. ~Waiting(l)
    BY <1>2, <1>3, NoAttemptOK DEF Waiting
  <2> QED BY <1>2, <1>3, <1>4, <2>1 DEF FlagsOK, Asked, Agree
<1> QED BY <1>6, <1>7, <1>8, <1>9, <1>10, <1>11 DEF Firm, PlayerInv, m, l, d, f

\* The inductive invariant.
PlayerIndInv == PlayerInv(mpv, events, life, adapter, played) /\ trouble \in 0 .. MaxTrouble

\* What every step does.
Kept == PlayerInv(mpv', events', life', adapter', played') /\ Permanent(life, life')
Counted == trouble' \in 0 .. MaxTrouble

LEMMA StaysPermanent ==
  ASSUME NEW l
  PROVE  Permanent(l, l)
BY DEF Permanent

LEMMA TroubleCounted ==
  ASSUME trouble \in 0 .. MaxTrouble, Troubled \/ UNCHANGED trouble
  PROVE  Counted
BY LoadAssumption DEF Troubled, Counted

LEMMA LoadKeeps ==
  ASSUME PlayerIndInv, Load
  PROVE  Kept /\ Counted
<1>1. PlayerInv(mpv, events, life, adapter, played) /\ trouble \in 0 .. MaxTrouble
  BY DEF PlayerIndInv
<1>2. Sent = SentOf(life)
  BY DEF Sent, SentOf
<1>3. ASSUME NEW t \in Targets, OpenFile(t) PROVE Kept /\ Counted
  <2>1. /\ adapter.pc = "idle" /\ life.next <= MaxAttempts
        /\ life' = Submitted(life, t, {mpv.list} \ {None})
        /\ adapter' = [adapter EXCEPT !.pc = "sent"]
        /\ mpv' = mpv /\ events' = events /\ trouble' = trouble /\ played' = played
    BY <1>3 DEF OpenFile
  <2>2. Counted
    BY <1>1, <2>1, TroubleCounted
  <2>3. LET k == Submitted(life, t, {mpv.list} \ {None})
            c == [adapter EXCEPT !.pc = "sent"] IN
        PlayerInv(mpv, events, k, c, played) /\ Permanent(life, k)
    BY <1>1, <2>1, OpenFileKeeps
  <2> QED BY <2>1, <2>2, <2>3 DEF Kept
<1>4. CASE LoadAccepted
  <2>1. /\ adapter.pc = "sent" /\ Made(mpv) < MaxEntries
        /\ mpv' = Loadfile(mpv, life.attempts[SentOf(life)].target)
        /\ events' = events /\ trouble' = trouble /\ played' = played
    BY <1>2, <1>4 DEF LoadAccepted, Made
  <2>2. PICK s \in {life, TimerAdvanced(life)} :
          /\ life' = Accepted(s, SentOf(life))
          /\ adapter' = [AfterTimer(s, adapter) EXCEPT !.pc = "accepted"]
    BY <1>2, <1>4 DEF LoadAccepted
  <2>3. Counted
    BY <1>1, <2>1, TroubleCounted
  <2>4. LET n == Loadfile(mpv, life.attempts[SentOf(life)].target)
            k == Accepted(s, SentOf(life))
            c == [AfterTimer(s, adapter) EXCEPT !.pc = "accepted"] IN
        PlayerInv(n, events, k, c, played) /\ Permanent(life, k)
    BY <1>1, <2>1, LoadAcceptedKeeps
  <2> QED BY <2>1, <2>2, <2>3, <2>4 DEF Kept
<1>5. CASE LoadRejected
  <2>1. /\ adapter.pc = "sent" /\ Troubled
        /\ \/ mpv' = mpv
           \/ /\ Made(mpv) < MaxEntries
              /\ mpv' = Loadfile(mpv, life.attempts[SentOf(life)].target)
        /\ life' = Rejected(life, SentOf(life))
        /\ adapter' = [adapter EXCEPT !.pc = "idle"]
        /\ events' = events /\ played' = played
    BY <1>2, <1>5 DEF LoadRejected, Made
  <2>2. Counted
    BY <1>1, <2>1, TroubleCounted
  <2>3. life.attempts[SentOf(life)].target \in Targets
    BY <1>1, <2>1, SentIsLast DEF PlayerInv, Asked
  <2>4. PlayerInv(mpv', events, life, adapter, played)
    BY <1>1, <2>1, <2>3, LoadfileKeeps
  <2>5. LET k == Rejected(life, SentOf(life))
            c == [adapter EXCEPT !.pc = "idle"] IN
        PlayerInv(mpv', events, k, c, played) /\ Permanent(life, k)
    BY <2>1, <2>4, LoadRejectedKeeps
  <2> QED BY <2>1, <2>2, <2>5 DEF Kept
<1> QED BY <1>3, <1>4, <1>5 DEF Load

LEMMA HandleEventKeeps ==
  ASSUME PlayerIndInv, HandleEvent
  PROVE  Kept /\ Counted
<1> DEFINE e == events[1].entry
<1>1. PlayerInv(mpv, events, life, adapter, played) /\ trouble \in 0 .. MaxTrouble
  BY DEF PlayerIndInv
<1>2. /\ adapter.pc \in {"idle", "read", "publish"} /\ events # << >>
      /\ events' = Tail(events) /\ mpv' = mpv /\ trouble' = trouble /\ played' = played
  BY DEF HandleEvent
<1>3. Head(events) = events[1] /\ events[1] \in Events
  BY <1>1, <1>2, Behead DEF PlayerInv, Firm, Typed
<1>4. Counted
  BY <1>1, <1>2, TroubleCounted
<1>5. CASE events[1].kind = "start"
  <2>1. HandleStart(e)
    BY <1>3, <1>5 DEF HandleEvent
  <2> DEFINE s == StartSeen(life, e)
  <2>2. s.next <= MaxAttempts + 1 /\ life' = StartNoted(s, e) /\ adapter' = StartShown(s, adapter, e)
    BY <2>1 DEF HandleStart, StartSeen, StartNoted, StartShown, Noted
  <2>3. LET k == StartNoted(StartSeen(life, e), e)
            c == StartShown(StartSeen(life, e), adapter, e) IN
        PlayerInv(mpv, Tail(events), k, c, played) /\ Permanent(life, k)
    BY <1>1, <1>2, <1>5, <2>2, HandleStartKeeps
  <2> QED BY <1>2, <1>4, <2>2, <2>3 DEF Kept
<1>6. CASE events[1].kind = "loaded"
  <2>1. HandleLoaded
    BY <1>3, <1>6 DEF HandleEvent
  <2>2. life' = AfterLoaded(life, adapter)[1] /\ adapter' = AfterLoaded(life, adapter)[2]
    BY <2>1 DEF HandleLoaded
  <2>3. LET k == AfterLoaded(life, adapter)[1]
            c == AfterLoaded(life, adapter)[2] IN
        PlayerInv(mpv, Tail(events), k, c, played) /\ Permanent(life, k)
    BY <1>1, <1>2, <1>6, HandleLoadedKeeps
  <2> QED BY <1>2, <1>4, <2>2, <2>3 DEF Kept
<1>7. CASE events[1].kind \notin Opens
  <2>1. HandleEnd(e, events[1].kind)
    <3>1. events[1].kind \notin {"start", "loaded", "restart"}
      BY <1>7 DEF Opens
    <3> QED BY <1>3, <3>1 DEF HandleEvent
  <2> DEFINE over == \/ e \in life.tombs
                     \/ \E b \in Present(life) \ Live(life) : life.attempts[b].entry = e
             due == ~over
  <2>2. due \in BOOLEAN
    OBVIOUS
  <2>3. life' = EndLife(life, e, events[1].kind, due) /\ adapter' = EndShown(life, adapter, e)
    BY <2>1 DEF HandleEnd, EndLife, EndShown, EndNoted
  <2> HIDE DEF due
  <2>4. LET c == EndShown(life, adapter, e) IN
        PlayerInv(mpv, Tail(events), life', c, played) /\ Permanent(life, life')
    BY <1>1, <1>2, <1>7, <2>2, <2>3, HandleEndKeeps
  <2> QED BY <1>2, <1>4, <2>3, <2>4 DEF Kept
<1>8. CASE events[1].kind = "restart"
  <2>1. HandleRestart
    BY <1>3, <1>8 DEF HandleEvent
  <2>2. life' = AfterRestart(life, adapter)[1] /\ adapter' = AfterRestart(life, adapter)[2]
    BY <2>1 DEF HandleRestart
  <2>3. PlayerInv(mpv, Tail(events), life', adapter', played) /\ Permanent(life, life')
    BY <1>1, <1>2, <1>8, <2>2, HandleRestartKeeps
  <2> QED BY <1>2, <1>4, <2>3 DEF Kept
<1> QED BY <1>5, <1>6, <1>7, <1>8 DEF Opens

LEMMA ReconcileKeeps ==
  ASSUME PlayerIndInv, Reconcile
  PROVE  Kept /\ Counted
<1>1. PlayerInv(mpv, events, life, adapter, played) /\ trouble \in 0 .. MaxTrouble
  BY DEF PlayerIndInv
<1>2. CASE ReadPlaylist
  <2>1. /\ adapter.pc \in {"accepted", "idle"} /\ Reading(life, life')
        /\ adapter' = [adapter EXCEPT !.pc = "read", !.entry = mpv.list]
        /\ mpv' = mpv /\ events' = events /\ trouble' = trouble /\ played' = played
    BY <1>2 DEF ReadPlaylist, Reading
  <2>2. Counted
    BY <1>1, <2>1, TroubleCounted
  <2>3. LET c == [adapter EXCEPT !.pc = "read", !.entry = mpv.list] IN
        PlayerInv(mpv, events, life', c, played) /\ Permanent(life, life')
    BY <1>1, <2>1, ReadPlaylistKeeps
  <2> QED BY <2>1, <2>2, <2>3 DEF Kept
<1>3. CASE ReadFails
  <2>1. /\ adapter.pc \in {"read", "publish"} /\ Troubled /\ life' = ReconciliationFailed(life)
        /\ adapter' = [adapter EXCEPT !.pc = "idle"]
        /\ mpv' = mpv /\ events' = events /\ played' = played
    BY <1>3 DEF ReadFails
  <2>2. Counted
    BY <1>1, <2>1, TroubleCounted
  <2>3. LET k == ReconciliationFailed(life)
            c == [adapter EXCEPT !.pc = "idle"] IN
        PlayerInv(mpv, events, k, c, played) /\ Permanent(life, k)
    BY <1>1, <2>1, ReadFailsKeeps
  <2> QED BY <2>1, <2>2, <2>3 DEF Kept
<1>4. CASE ApplySnapshot
  <2> DEFINE s == SnapshotOf(mpv, life, adapter)
             after == LoadReplayed(s, StartReplayed(s, adapter))
  <2>1. s = Snapshot(life, adapter.entry)
    BY DEF SnapshotOf, Snapshot, ObserveCurrent, Observed
  <2> HIDE DEF s
  <2>2. /\ adapter.pc = "read" /\ events = << >> /\ s.next <= MaxAttempts + 1
        /\ life' = after[1] /\ adapter' = [after[2] EXCEPT !.pc = "publish"]
        /\ mpv' = mpv /\ events' = events /\ trouble' = trouble /\ played' = played
    BY <1>4, <2>1 DEF ApplySnapshot, LoadReplayed, StartReplayed
  <2>3. Counted
    BY <1>1, <2>2, TroubleCounted
  <2>4. LET r == SnapshotOf(mpv, life, adapter)
            n == LoadReplayed(r, StartReplayed(r, adapter))
            k == n[1]
            c == [n[2] EXCEPT !.pc = "publish"] IN
        PlayerInv(mpv, events, k, c, played) /\ Permanent(life, k)
    BY <1>1, <2>2, ApplySnapshotKeeps DEF s
  <2> QED BY <2>2, <2>3, <2>4 DEF Kept, s
<1>5. CASE Publish
  <2>1. /\ adapter.pc = "publish" /\ events = << >> /\ life' = [life EXCEPT !.due = FALSE]
        /\ adapter' = [Published(life, adapter) EXCEPT !.pc = "idle", !.entry = None]
        /\ mpv' = mpv /\ events' = events /\ trouble' = trouble /\ played' = played
    BY <1>5 DEF Publish, Published
  <2>2. Counted
    BY <1>1, <2>1, TroubleCounted
  <2>3. LET k == [life EXCEPT !.due = FALSE]
            c == [Published(life, adapter) EXCEPT !.pc = "idle", !.entry = None] IN
        PlayerInv(mpv, events, k, c, played) /\ Permanent(life, k)
    BY <1>1, <2>1, PublishKeeps
  <2> QED BY <2>1, <2>2, <2>3 DEF Kept
<1> QED BY <1>2, <1>3, <1>4, <1>5 DEF Reconcile

LEMMA OwnStepKeeps ==
  ASSUME PlayerIndInv, Tick \/ Consume \/ Disconnect \/ Attach
  PROVE  Kept /\ Counted
<1>1. PlayerInv(mpv, events, life, adapter, played) /\ trouble \in 0 .. MaxTrouble
  BY DEF PlayerIndInv
<1>2. CASE Tick
  <2>1. /\ adapter.pc = "idle" /\ life' = TimerAdvanced(life)
        /\ adapter' = AfterTimer(TimerAdvanced(life), adapter)
        /\ mpv' = mpv /\ events' = events /\ trouble' = trouble /\ played' = played
    BY <1>2 DEF Tick
  <2>2. Counted
    BY <1>1, <2>1, TroubleCounted
  <2>3. LET k == TimerAdvanced(life)
            c == AfterTimer(k, adapter) IN
        PlayerInv(mpv, events, k, c, played) /\ Permanent(life, k)
    BY <1>1, <2>1, TickKeeps
  <2> QED BY <2>1, <2>2, <2>3 DEF Kept
<1>3. CASE PeekBatch
  <2>1. /\ adapter.pc = "idle" /\ life' = life
        /\ adapter' = [adapter EXCEPT !.batch = Present(life) \ Live(life)]
        /\ mpv' = mpv /\ events' = events /\ trouble' = trouble /\ played' = played
    BY <1>3 DEF PeekBatch
  <2>2. Counted
    BY <1>1, <2>1, TroubleCounted
  <2>3. LET c == [adapter EXCEPT !.batch = Present(life) \ Live(life)] IN
        PlayerInv(mpv, events, life, c, played) /\ Permanent(life, life)
    BY <1>1, <2>1, PeekKeeps
  <2> QED BY <2>1, <2>2, <2>3 DEF Kept
<1>4. CASE AcknowledgeBatch
  <2>1. /\ adapter.pc = "idle" /\ life' = CompactAll(life, adapter.batch)
        /\ adapter' = [adapter EXCEPT !.batch = {}]
        /\ mpv' = mpv /\ events' = events /\ trouble' = trouble /\ played' = played
    BY <1>4 DEF AcknowledgeBatch
  <2>2. Counted
    BY <1>1, <2>1, TroubleCounted
  <2>3. LET k == CompactAll(life, adapter.batch)
            c == [adapter EXCEPT !.batch = {}] IN
        PlayerInv(mpv, events, k, c, played) /\ Permanent(life, k)
    BY <1>1, <2>1, AcknowledgeKeeps
  <2> QED BY <2>1, <2>2, <2>3 DEF Kept
<1>5. CASE Disconnect
  <2>1. /\ adapter.pc = "idle" /\ Troubled
        /\ \/ life' = CommitAll(life, Live(life), "disconnected")
           \/ life.active = None /\ life' = life
        /\ adapter' = [FreshAdapter("lost") EXCEPT !.batch = adapter.batch]
        /\ events' = << >> /\ mpv' = mpv /\ played' = played
    BY <1>5 DEF Disconnect
  <2>2. Counted
    BY <1>1, <2>1, TroubleCounted
  <2>3. ASSUME NEW k, \/ k = CommitAll(life, Live(life), "disconnected")
                      \/ life.active = None /\ k = life
        PROVE  LET c == [FreshAdapter("lost") EXCEPT !.batch = adapter.batch] IN
               PlayerInv(mpv, << >>, k, c, played) /\ Permanent(life, k)
    BY <1>1, <2>1, <2>3, DisconnectKeeps
  <2> QED BY <2>1, <2>2, <2>3 DEF Kept
<1>6. CASE Attach
  <2>1. /\ life' = FreshLife(life.next) /\ adapter' = FreshAdapter("accepted")
        /\ events' = << >> /\ mpv' = mpv /\ trouble' = trouble /\ played' = played
    BY <1>6 DEF Attach
  <2>2. Counted
    BY <1>1, <2>1, TroubleCounted
  <2>3. LET k == FreshLife(life.next)
            c == FreshAdapter("accepted") IN
        PlayerInv(mpv, << >>, k, c, played) /\ Permanent(life, k)
    BY <1>1, AttachKeeps
  <2> QED BY <2>1, <2>2, <2>3 DEF Kept
<1> QED BY <1>2, <1>3, <1>4, <1>5, <1>6 DEF Consume

LEMMA MpvStepKeeps ==
  ASSUME PlayerIndInv, Mpv
  PROVE  Kept /\ Counted
<1>1. PlayerInv(mpv, events, life, adapter, played) /\ trouble \in 0 .. MaxTrouble
  BY DEF PlayerIndInv
<1>2. Permanent(life, life)
  BY StaysPermanent
<1>3. ASSUME NEW t \in Targets, MpvExternalLoad(t) PROVE Kept /\ Counted
  <2>1. /\ Made(mpv) < MaxEntries /\ Troubled /\ mpv' = Loadfile(mpv, t)
        /\ events' = events /\ life' = life /\ adapter' = adapter /\ played' = played
    BY <1>3 DEF MpvExternalLoad, Made
  <2>2. Counted
    BY <1>1, <2>1, TroubleCounted
  <2>3. PlayerInv(Loadfile(mpv, t), events, life, adapter, played)
    BY <1>1, <2>1, LoadfileKeeps
  <2> QED BY <1>2, <2>1, <2>2, <2>3 DEF Kept
<1>4. CASE MpvStop
  <2>1. /\ Troubled /\ mpv' = [mpv EXCEPT !.list = None, !.current = None]
        /\ events' = events /\ life' = life /\ adapter' = adapter /\ played' = played
    BY <1>4 DEF MpvStop
  <2>2. Counted
    BY <1>1, <2>1, TroubleCounted
  <2>3. PlayerInv([mpv EXCEPT !.list = None, !.current = None], events, life, adapter, played)
    BY <1>1, MpvKeeps
  <2> QED BY <1>2, <2>1, <2>2, <2>3 DEF Kept
<1>5. CASE MpvUnload
  <2>1. /\ mpv.playing \notin {None, mpv.current}
        /\ mpv' = [mpv EXCEPT !.playing = None, !.loaded = FALSE]
        /\ events' = Emitted(events, adapter, [kind |-> "stopped", entry |-> mpv.playing])
        /\ life' = life /\ adapter' = adapter /\ trouble' = trouble /\ played' = played
    BY <1>5 DEF MpvUnload, Emit, Emitted
  <2>2. Counted
    BY <1>1, <2>1, TroubleCounted
  <2>3. PlayerInv([mpv EXCEPT !.playing = None, !.loaded = FALSE],
                  Emitted(events, adapter, [kind |-> "stopped", entry |-> mpv.playing]),
                  life, adapter, played)
    BY <1>1, <2>1, MpvKeeps
  <2> QED BY <1>2, <2>1, <2>2, <2>3 DEF Kept
<1>6. CASE MpvStart
  <2>1. /\ mpv.playing = None /\ mpv.current # None
        /\ mpv' = [mpv EXCEPT !.playing = mpv.current]
        /\ events' = Emitted(events, adapter, [kind |-> "start", entry |-> mpv.current])
        /\ life' = life /\ adapter' = adapter /\ trouble' = trouble /\ played' = played
    BY <1>6 DEF MpvStart, Emit, Emitted
  <2>2. Counted
    BY <1>1, <2>1, TroubleCounted
  <2>3. PlayerInv([mpv EXCEPT !.playing = mpv.current],
                  Emitted(events, adapter, [kind |-> "start", entry |-> mpv.current]),
                  life, adapter, played)
    BY <1>1, <2>1, MpvKeeps
  <2> QED BY <1>2, <2>1, <2>2, <2>3 DEF Kept
<1>7. CASE MpvLoaded
  <2>1. /\ mpv.playing = mpv.current /\ mpv.playing # None /\ ~mpv.loaded
        /\ mpv' = [mpv EXCEPT !.loaded = TRUE]
        /\ events' = Emitted(events, adapter, [kind |-> "loaded", entry |-> mpv.playing])
        /\ played' = played \cup {mpv.playing}
        /\ life' = life /\ adapter' = adapter /\ trouble' = trouble
    BY <1>7 DEF MpvLoaded, Emit, Emitted
  <2>2. Counted
    BY <1>1, <2>1, TroubleCounted
  <2>3. PlayerInv([mpv EXCEPT !.loaded = TRUE],
                  Emitted(events, adapter, [kind |-> "loaded", entry |-> mpv.playing]),
                  life, adapter, played \cup {mpv.playing})
    BY <1>1, <2>1, MpvKeeps
  <2> QED BY <1>2, <2>1, <2>2, <2>3 DEF Kept
<1>8. CASE MpvEnd
  <2> DEFINE o == IF mpv.loaded THEN "ended" ELSE "failed"
  <2>1. /\ mpv.playing = mpv.current /\ mpv.playing # None
        /\ mpv' = [mpv EXCEPT !.playing = None, !.current = None, !.loaded = FALSE]
        /\ events' = Emitted(events, adapter, [kind |-> o, entry |-> mpv.playing])
        /\ life' = life /\ adapter' = adapter /\ trouble' = trouble /\ played' = played
    BY <1>8 DEF MpvEnd, Emit, Emitted
  <2>2. Counted
    BY <1>1, <2>1, TroubleCounted
  <2>3. o \in {"ended", "failed"}
    OBVIOUS
  <2> HIDE DEF o
  <2>4. PlayerInv([mpv EXCEPT !.playing = None, !.current = None, !.loaded = FALSE],
                  Emitted(events, adapter, [kind |-> o, entry |-> mpv.playing]),
                  life, adapter, played)
    BY <1>1, <2>1, <2>3, MpvKeeps
  <2> QED BY <1>2, <2>1, <2>2, <2>4 DEF Kept
<1>9. CASE MpvRestart
  <2>1. /\ mpv.playing = mpv.current /\ mpv.loaded /\ mpv' = mpv
        /\ events' = Emitted(events, adapter, [kind |-> "restart", entry |-> mpv.playing])
        /\ life' = life /\ adapter' = adapter /\ trouble' = trouble /\ played' = played
    BY <1>9 DEF MpvRestart, Emit, Emitted
  <2>2. Counted
    BY <1>1, <2>1, TroubleCounted
  <2>3. PlayerInv(mpv, Emitted(events, adapter, [kind |-> "restart", entry |-> mpv.playing]),
                  life, adapter, played)
    BY <1>1, <2>1, MpvKeeps
  <2> QED BY <1>2, <2>1, <2>2, <2>3 DEF Kept
<1> QED BY <1>3, <1>4, <1>5, <1>6, <1>7, <1>8, <1>9 DEF Mpv

LEMMA StepKeeps ==
  ASSUME PlayerIndInv, [PlayerNext]_playerVars
  PROVE  PlayerIndInv' /\ Permanent(life, life')
<1>1. Kept /\ Counted
  <2>1. CASE PlayerNext
    BY <2>1, LoadKeeps, HandleEventKeeps, ReconcileKeeps, OwnStepKeeps, MpvStepKeeps DEF PlayerNext
  <2>2. CASE UNCHANGED playerVars
    <3>1. /\ mpv' = mpv /\ events' = events /\ life' = life /\ adapter' = adapter
          /\ trouble' = trouble /\ played' = played
      BY <2>2 DEF playerVars
    <3> QED BY <3>1, StaysPermanent, TroubleCounted DEF PlayerIndInv, Kept
  <2> QED BY <2>1, <2>2
<1> QED BY <1>1 DEF PlayerIndInv, Kept, Counted

\* The reducer, mpv's events and the adapter agree in every reachable state: whatever the
\* order of handled events, answers, snapshots, ticks, acknowledgements and reconnects of
\* adapter.rs, each step of the specification keeps PlayerInv.
THEOREM PlayerIsInductive == PlayerSpec => []PlayerIndInv
<1>1. PlayerInit => PlayerIndInv
  BY InitiallyOK, LoadAssumption DEF PlayerInit, PlayerIndInv
<1>2. PlayerIndInv /\ [PlayerNext]_playerVars => PlayerIndInv'
  BY StepKeeps
<1> QED BY <1>1, <1>2, PTL DEF PlayerSpec

\* A revoked attempt never becomes the active one again: not by a late event, a snapshot,
\* the rejection of its successor or the compaction of it (lifecycle.rs, start_attempt,
\* FileLoaded and compact_acknowledged_lifecycle).
THEOREM RevocationStays == PlayerSpec => RevocationIsPermanent
<1>1. PlayerIndInv /\ [PlayerNext]_playerVars =>
        [\A a \in Attempts : life.attempts[a].revoked /\ life'.active = a => life.active = a]_playerVars
  BY StepKeeps DEF Permanent
<1> QED BY <1>1, PlayerIsInductive, PTL DEF PlayerSpec, RevocationIsPermanent

-----------------------------------------------------------------------------
(* What the invariant says. *)

\* Distinct entries that were made are no more than were made.
LEMMA DeferredAreFew ==
  ASSUME NEW q \in Seq(Entries), NEW n \in Nat, Distinct(q), \A i \in 1 .. Len(q) : q[i] <= n
  PROVE  Len(q) <= n
<1> DEFINE S == 1 .. Len(q)
           T == 1 .. n
           f == [i \in S |-> q[i]]
<1>1. Len(q) \in Nat
  OBVIOUS
<1>2. f \in [S -> T]
  <2>1. \A i \in S : q[i] \in T
    BY Numbers
  <2> QED BY <2>1
<1>3. IsFiniteSet(S) /\ IsFiniteSet(T) /\ Cardinality(S) = Len(q) /\ Cardinality(T) = n
  <2>1. ASSUME NEW k \in Nat PROVE IsFiniteSet(1 .. k) /\ Cardinality(1 .. k) = k
    <3>1. 1 \in Int /\ k \in Int /\ (IF 1 > k THEN 0 ELSE k - 1 + 1) = k
      OBVIOUS
    <3>2. IsFiniteSet(1 .. k) /\ Cardinality(1 .. k) = IF 1 > k THEN 0 ELSE k - 1 + 1
      BY <3>1, FS_Interval
    <3> QED BY <3>1, <3>2
  <2> QED BY <1>1, <2>1
<1>4. \A x, y \in S : f[x] = f[y] => x = y
  BY DEF Distinct
<1> HIDE DEF f, S, T
<1>5. ~(Cardinality(T) < Cardinality(S))
  BY <1>2, <1>3, <1>4, FS_PigeonHole
<1> QED BY <1>1, <1>3, <1>5

LEMMA TypesHold ==
  ASSUME PlayerIndInv
  PROVE  PlayerTypeOK
<1>1. Firm(mpv, events, life, adapter, played) /\ trouble \in 0 .. MaxTrouble
  BY DEF PlayerIndInv, PlayerInv
<1>2. /\ Typed(mpv, events, adapter, played) /\ life \in Lives /\ life.next <= MaxAttempts + 1
      /\ DeferredMade(mpv, life)
  BY <1>1, FirmTypes DEF RestOK
<1>3. Made(mpv) \in Nat /\ life.deferred \in Seq(Entries)
  BY <1>2, TypedFields, LifeFields
<1>4. Len(life.deferred) <= Made(mpv)
  BY <1>2, <1>3, DeferredAreFew DEF DeferredMade
<1> QED BY <1>1, <1>2, <1>4 DEF PlayerTypeOK, Typed, Made

LEMMA LoadsDoAgree ==
  ASSUME PlayerIndInv
  PROVE  LoadsAgree
<1> DEFINE x == life.attempts
<1>1. LifeOK(life) /\ x \in [Attempts -> LoadAttempt] /\ life.active \in Attempts \cup {None}
      /\ life.owner \in [Entries -> Attempts \cup {None}]
  BY FirmTypes DEF PlayerIndInv, PlayerInv
<1>2. /\ \A a : a \in Live(life) <=> a \in Attempts /\ x[a].state \notin {"none", "terminal"}
      /\ \A a : a \in Present(life) <=> a \in Attempts /\ x[a].state # "none"
  BY DEF Live, Present
<1>3. /\ life.active # None => life.active \in Live(life) /\ x[life.active].state # "quiescent"
      /\ life.ended => life.active = None \/ x[life.active].loaded
      /\ \A a \in Live(life) : x[a].state = "active" => life.active = a
  BY <1>1, <1>2 DEF LifeOK, ActiveOK
<1>4. /\ \A e \in Entries : life.owner[e] # None =>
           life.owner[e] \in Live(life) /\ x[life.owner[e]].entry = e
      /\ \A a \in Live(life) : x[a].entry # None => life.owner[x[a].entry] = a
  BY <1>1, <1>2 DEF LifeOK, OwnersOK
<1>5. ASSUME NEW a \in Present(life)
      PROVE  /\ x[a].state = "accepted" => x[a].entry = None /\ x[a].deadline # Never
             /\ x[a].deadline # Never => x[a].result = "none" /\ ~x[a].revoked /\ ~x[a].loaded
             /\ x[a].state = "active" => x[a].loaded
             /\ x[a].successor # None => x[a].revoked
             /\ x[a].state = "superseded" => x[a].successor # None
  <2>1. AttemptOK(x[a])
    BY <1>1, <1>2 DEF LifeOK, AttemptsOK
  <2> QED BY <2>1 DEF AttemptOK
<1>6. ASSUME NEW a \in Present(life)
      PROVE  /\ x[a].successor # None =>
                  x[a].successor \in Present(life) /\ x[x[a].successor].replaced = a
             /\ x[a].replaced \in Present(life) => x[x[a].replaced].successor \in {None, a}
  <2>1. /\ a \in Attempts /\ x[a].successor \in Attempts \cup {None}
        /\ x[a].replaced \in Attempts \cup {None}
    BY <1>1, <1>2 DEF LoadAttempt
  <2> QED BY <1>1, <1>2, <2>1, Values DEF LifeOK, LinksOK
<1> QED BY <1>3, <1>4, <1>5, <1>6 DEF LoadsAgree

LEMMA LoadsAreAnswered ==
  ASSUME PlayerIndInv
  PROVE  LoadsWillBeAnswered
<1>1. LifeOK(life) /\ InFlight(life, adapter)
  BY FirmTypes DEF PlayerIndInv, PlayerInv, RestOK
<1> SUFFICES ASSUME NEW a \in Live(life), life.attempts[a].result = "none"
             PROVE  \/ life.attempts[a].state = "submitting" /\ adapter.pc = "sent"
                    \/ life.attempts[a].deadline > 0
  BY DEF LoadsWillBeAnswered
<1>2. a \in Attempts /\ life.attempts[a].state # "none" /\ AttemptOK(life.attempts[a])
  BY <1>1 DEF Live, Present, LifeOK, AttemptsOK
<1>3. CASE life.attempts[a].state = "submitting"
  BY <1>1, <1>2, <1>3 DEF InFlight
<1>4. CASE life.attempts[a].state # "submitting"
  BY <1>2, <1>4 DEF AttemptOK
<1> QED BY <1>3, <1>4

LEMMA CompletedAreLoaded ==
  ASSUME PlayerIndInv
  PROVE  CompletedMeansLoaded
<1>1. CompletedOK(life, played)
  BY FirmTypes DEF PlayerIndInv, PlayerInv, RestOK
<1> QED BY <1>1 DEF CompletedMeansLoaded, CompletedOK, Present

LEMMA ProjectionAgrees ==
  ASSUME PlayerIndInv
  PROVE  SettledProjectionAgrees
<1>1. /\ FlagsOK(life, adapter) /\ ShownOK(mpv, events, life, adapter, played)
      /\ adapter.shown \in Attempts \cup {None} /\ life.active \in Attempts \cup {None}
      /\ life.attempts \in [Attempts -> LoadAttempt] /\ played \in SUBSET Entries
  BY FirmTypes DEF PlayerIndInv, PlayerInv
<1> SUFFICES ASSUME Settled
             PROVE  /\ life.active # None => adapter.shown = life.active
                    /\ adapter.shown # None => adapter.shown \in Live(life)
                    /\ adapter.shownLoaded =>
                         \/ life.attempts[adapter.shown].loaded
                         \/ \E e \in played : life.attempts[adapter.shown].entry \in 1..e
  BY DEF SettledProjectionAgrees
<1>2. Agree(life, adapter)
  BY <1>1 DEF Settled, FlagsOK
<1>3. adapter.shown # None => adapter.shown \in Live(life)
  BY <1>1, <1>2 DEF Agree, Live, Present
<1>4. ASSUME adapter.shownLoaded, ~life.attempts[adapter.shown].loaded
      PROVE  \E e \in played : life.attempts[adapter.shown].entry \in 1..e
  <2>1. /\ adapter.shown \in Attempts /\ life.attempts[adapter.shown].state # "none"
        /\ life.attempts[adapter.shown].entry # None
        /\ Reached(life.attempts[adapter.shown].entry, played)
    BY <1>1, <1>2, <1>4 DEF ShownOK, Agree
  <2>2. life.attempts[adapter.shown].entry \in Nat /\ played \subseteq Nat
    BY <1>1, <2>1, Numbers DEF LoadAttempt
  <2> QED BY <2>1, <2>2 DEF Reached, None
<1> QED BY <1>2, <1>3, <1>4 DEF Agree

LEMMA PollingIsExplained ==
  ASSUME PlayerIndInv
  PROVE  PollingHasReason
<1>1. FlagsOK(life, adapter) /\ LifeOK(life)
  BY FirmTypes DEF PlayerIndInv, PlayerInv
<1> SUFFICES ASSUME adapter.pc = "idle", life.required
             PROVE  \/ life.troubled \/ life.deferred # << >>
                    \/ \E a \in Unbound(life) : life.attempts[a].reconcile > 0
                    \/ life.due /\ Proactive(life)
  BY DEF PollingHasReason
<1>2. life.troubled \/ life.deferred # << >> \/ Waiting(life) \/ (life.due /\ Stray(life))
  BY <1>1 DEF FlagsOK
<1>3. Waiting(life) => \E a \in Unbound(life) : life.attempts[a].reconcile > 0
  BY <1>1, WaitingIsUnresolved
<1>4. Stray(life) => Proactive(life)
  BY DEF Stray, Proactive, Unbound, Live, Present
<1> QED BY <1>2, <1>3, <1>4

\* Every variable keeps its type, countdowns stay in range, and no more starts are deferred
\* than mpv has made entries.
THEOREM PlayerIsTyped == PlayerSpec => []PlayerTypeOK
BY PlayerIsInductive, TypesHold, PTL

\* What assert_invariants (lifecycle.rs:1075) says of loads holds between any two steps:
\* entries and owners name each other, one attempt has the transport, successors and
\* predecessors name each other, and deadlines are those of open loads.
THEOREM LoadsStayInAgreement == PlayerSpec => []LoadsAgree
BY PlayerIsInductive, LoadsDoAgree, PTL

\* A load that has no outcome is in flight, or a deadline runs that will give it one: no
\* order of events, snapshots and ticks leaves a load command without an answer to come.
THEOREM EveryLoadIsAnswered == PlayerSpec => []LoadsWillBeAnswered
BY PlayerIsInductive, LoadsAreAnswered, PTL

\* A load command is reported complete only if mpv has loaded the entry that the load is
\* bound to, though file-loaded names no entry and may be replayed after a snapshot.
THEOREM CompletionIsEarned == PlayerSpec => []CompletedMeansLoaded
BY PlayerIsInductive, CompletedAreLoaded, PTL

\* When no reconciliation is due or wanted, the adapter shows the reducer's active attempt,
\* nothing that is over, and nothing as loaded before mpv has loaded its entry or one made
\* after it.
THEOREM SettledProjectionIsRight == PlayerSpec => []SettledProjectionAgrees
BY PlayerIsInductive, ProjectionAgrees, PTL

\* The adapter only keeps asking mpv while a read has failed, a start is unexplained, the
\* time of an unbound load runs, or one reconciliation that is due will end it.
THEOREM PollingIsJustified == PlayerSpec => []PollingHasReason
BY PlayerIsInductive, PollingIsExplained, PTL
=============================================================================
