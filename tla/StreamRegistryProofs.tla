------------------------ MODULE StreamRegistryProofs ------------------------
(***************************************************************************)
(* Theorems about the durable buffers of a model and the CleanupTask that  *)
(* removes them, for any buffers, capacity, disk limit and bounds.         *)
(*                                                                         *)
(* The invariant speaks of one buffer at a time (Whole): an action of a    *)
(* buffer, and a step of the sweep, leave every other one as it is         *)
(* (OthersKept), so each is proved for the buffer it is about; it says     *)
(* nothing of what the sweep still has to do. The budget of a pass has an  *)
(* invariant of its own (Pass), over what the pass lists and has counted.  *)
(***************************************************************************)
EXTENDS StreamRegistry, SequenceTheorems, FiniteSetTheorems, NaturalsInduction,
        WellFoundedInduction, TLAPS

Logs == Seq(Nat \ {0})
Suspensions == {"idle", "source", "open", "write", "written", "blocked", "raised", "finished", "failed"}

\* A table has an entry for some of the buffers.
Table(f, S) == DOMAIN f \subseteq Buffers /\ \A b \in DOMAIN f : f[b] \in S

Typed ==
    /\ status \in [Buffers -> {"new", "in", "out", "rejected"}]
    /\ file \in [Buffers -> Logs \cup {Missing}]
    /\ unflushed \in [Buffers -> Logs]
    /\ Table(writers, Nat) /\ Table(index, Logs) /\ Table(hot, Nat)
    /\ prod \in [Buffers -> Suspensions]
    /\ fd \in [Buffers -> Nat] /\ held \in [Buffers -> Nat]
    /\ last \in [Buffers -> BOOLEAN] /\ failing \in [Buffers -> BOOLEAN]
    /\ done \subseteq Buffers
    /\ opened \in [Buffers -> Nat] /\ closed \in [Buffers -> Nat] /\ unlinked \in [Buffers -> Nat]
    /\ DOMAIN sweep = {"pc", "by", "todo", "total", "usage"}
    /\ sweep.pc \in {"asleep", "next", "closing", "unlinking"}
    /\ open \in BOOLEAN
    /\ parting \in [Buffers -> [prod : Suspensions \cup {"none"}, held : Nat]]
    /\ faults \in Nat /\ sweeps \in Nat

\* A block has a number from 1 on, so no line is what marks a missing file.
Numbered(b) == prod[b] \notin {"idle", "source", "finished", "failed"} => held[b] > 0

\* Only a task that has been started opens the file, and only for a buffer of the pool.
Fresh(b) ==
    /\ status[b] = "new" => prod[b] = "idle"
    /\ prod[b] = "idle" => b \notin DOMAIN writers

\* Until the sweep takes it, a buffer has at most one descriptor, which is open,
\* and its table entry, its index and its file come together.
Sound(b) ==
    status[b] \in {"new", "in"} =>
        /\ closed[b] = 0 /\ unlinked[b] = 0 /\ unflushed[b] = <<>> /\ prod[b] # "raised"
        /\ b \in DOMAIN writers =>
              /\ writers[b] = 1 /\ opened[b] = 1
              /\ b \in DOMAIN index
              /\ file[b] = IF prod[b] = "written" THEN Append(index[b], held[b]) ELSE index[b]
              /\ prod[b] # "open"
        /\ b \notin DOMAIN writers =>
              /\ opened[b] = 0 /\ b \notin DOMAIN index /\ file[b] = Missing
              /\ prod[b] \notin {"write", "written", "blocked"}
        /\ prod[b] \in {"write", "written"} => fd[b] = 1

\* Of a buffer removed after its load had returned, what the steps of a removal
\* that is under way have not got to.
Gone(b) ==
    parting[b].prod \in {"finished", "failed"} =>
        /\ status[b] = "out" /\ prod[b] \in {"finished", "failed"}
        /\ b \notin DOMAIN hot /\ b \notin DOMAIN writers
        /\ sweep.pc = "closing" /\ UnderRemoval(b) => closed[b] + 1 = opened[b]
        /\ ~(sweep.pc = "closing" /\ UnderRemoval(b)) => b \notin DOMAIN index /\ closed[b] = opened[b]
        /\ ~UnderRemoval(b) => file[b] = Missing

\* A producer removed while it waited for room holds the same block until it has
\* appended it, and the tier has none of its blocks while it waits.
Woken(b) ==
    parting[b].prod = "blocked" =>
        /\ held[b] >= parting[b].held
        /\ held[b] = parting[b].held =>
              /\ prod[b] \in {"blocked", "source", "finished"}
              /\ prod[b] = "blocked" => b \notin DOMAIN hot

Whole(b) ==
    /\ Numbered(b) /\ Fresh(b)
    /\ UnderRemoval(b) => status[b] = "out"
    /\ faults = 0 => Sound(b) /\ Gone(b)
    /\ Woken(b)

\* A closed registry has nothing on disk and no task that could put it there.
Shut ==
    ~open =>
        /\ sweep.pc = "asleep"
        /\ \A b \in Buffers : /\ AtRest(b) /\ ~OnDisk(b)
                              /\ prod[b] = "idle" => status[b] \in {"new", "rejected"}
                              /\ status[b] # "in"

Inv == Typed /\ Shut /\ \A b \in Buffers : Whole(b)
-----------------------------------------------------------------------------
(* Tables and logs *)

\* A table stays one when an entry goes or comes.
LEMMA TablesTyped ==
    ASSUME NEW f, NEW S, Table(f, S), NEW b
    PROVE  /\ Table(Without(f, b), S)
           /\ b \in Buffers => \A v \in S : Table(With(f, b, v), S)
<1>1. Table(Without(f, b), S)
  BY DEF Table, Without
<1>2. ASSUME NEW v \in S, b \in Buffers PROVE Table(With(f, b, v), S)
  <2>1. DOMAIN With(f, b, v) = DOMAIN f \cup {b}
    BY DEF With
  <2>2. \A x \in DOMAIN f \cup {b} : With(f, b, v)[x] = IF x = b THEN v ELSE f[x]
    BY DEF With
  <2>. QED
    BY <1>2, <2>1, <2>2 DEF Table
<1>. QED
  BY <1>1, <1>2

\* A log stays a log when lines are appended to it or flushed to its file.
LEMMA LogsGrow ==
    ASSUME NEW s \in Logs, NEW t \in Logs, NEW n \in Nat \ {0}
    PROVE  /\ <<>> \in Logs /\ Append(s, n) \in Logs /\ s \o t \in Logs
           /\ Append(<<>>, n) = <<n>> /\ s \o <<n>> = Append(s, n) /\ s \o <<>> = s
  BY DEF Logs

\* What marks a missing file is no log.
LEMMA MissingIsNoLog == Missing \notin Logs
<1>1. Missing \in Logs => Missing[1] \in Nat \ {0}
  BY ElementOfSeq, Len(Missing) = 1 DEF Missing, Logs
<1>2. Missing[1] = 0
  BY DEF Missing
<1>. QED
  BY <1>1, <1>2

\* What a flush leaves at the path is a log, or nothing.
LEMMA FlushedTyped ==
    ASSUME Typed, NEW b \in Buffers, NEW d, NEW lines \in Logs
    PROVE  Flushed(b, d, lines) \in Logs \cup {Missing}
<1>1. file[b] \in Logs \cup {Missing}
  BY DEF Typed
<1>2. CASE file[b] = Missing
  BY <1>2 DEF Flushed
<1>3. CASE file[b] # Missing
  <2>1. file[b] \in Logs
    BY <1>1, <1>3
  <2>2. file[b] \o lines \in Logs
    BY <2>1 DEF Logs
  <2>. QED
    BY <2>1, <2>2 DEF Flushed
<1>. QED
  BY <1>2, <1>3

-----------------------------------------------------------------------------
(* Types *)

\* The initial values have their types.
LEMMA InitTyped == Init => Typed
<1> SUFFICES ASSUME Init PROVE Typed
  OBVIOUS
<1>1. <<>> \in Logs
  BY DEF Logs
<1>2. DOMAIN <<>> = {}
  OBVIOUS
<1>3. Table(writers, Nat) /\ Table(index, Logs) /\ Table(hot, Nat)
  BY <1>2 DEF Init, Table
<1>. QED
  BY <1>1, <1>3 DEF Init, Typed, Suspensions, Asleep, NoFd

\* What load does to the local variables of a buffer keeps their types.
LEMMA AppendingTyped ==
    ASSUME Typed, NEW b \in Buffers, NEW n \in Nat, NEW stop \in BOOLEAN, NEW inError \in BOOLEAN,
           Appending(b, n, stop, inError)
    PROVE  /\ prod' \in [Buffers -> Suspensions]
           /\ fd' \in [Buffers -> Nat] /\ held' \in [Buffers -> Nat]
           /\ last' \in [Buffers -> BOOLEAN] /\ failing' \in [Buffers -> BOOLEAN]
  BY DEF Typed, Table, Appending, Suspensions, NoFd

\* Admitting a block keeps the types of the tier and of the task.
LEMMA AdmitTyped ==
    ASSUME Typed, NEW b \in Buffers, Admit(b)
    PROVE  /\ prod' \in [Buffers -> Suspensions] /\ done' \subseteq Buffers
           /\ Table(hot', Nat)
<1> DEFINE v == IF b \in DOMAIN hot THEN hot[b] + 1 ELSE 1
<1>1. v \in Nat
  BY DEF Typed, Table
<1>2. hot' = With(hot, b, v)
  BY DEF Admit
<1> HIDE DEF v
<1>3. Table(hot', Nat)
  BY <1>1, <1>2, TablesTyped DEF Typed
<1>4. prod' \in [Buffers -> Suspensions] /\ done' \subseteq Buffers
  BY DEF Admit, Typed, Suspensions
<1>. QED
  BY <1>3, <1>4

\* The actions of a buffer keep every type.
LEMMA BufferTyped ==
    ASSUME NEW b \in Buffers, Typed, Numbered(b),
           Create(b) \/ Reject(b) \/ Start(b) \/ Load(b) \/ Drain(b)
    PROVE  Typed'
<1> USE DEF producer, disk
<1>1. CASE Create(b) \/ Reject(b)
  BY <1>1 DEF Create, Reject, Typed
<1>2. CASE Start(b) \/ Exhausted(b)
  BY <1>2 DEF Start, Exhausted, Typed, Suspensions
<1>3. CASE Emit(b) \/ Raise(b)
  <2>1. PICK stop \in BOOLEAN, inError \in BOOLEAN : Appending(b, held[b] + 1, stop, inError)
    BY <1>3 DEF Emit, Raise
  <2>2. held[b] + 1 \in Nat
    BY DEF Typed
  <2>3. /\ prod' \in [Buffers -> Suspensions]
        /\ fd' \in [Buffers -> Nat] /\ held' \in [Buffers -> Nat]
        /\ last' \in [Buffers -> BOOLEAN] /\ failing' \in [Buffers -> BOOLEAN]
    BY <2>1, <2>2, AppendingTyped
  <2>4. UNCHANGED <<status, order, disk, hot, done, sweep, open, parting, faults, sweeps>>
    BY <1>3 DEF Emit, Raise
  <2>. QED
    BY <2>3, <2>4 DEF Typed
<1>4. CASE OpenLog(b)
  <2>1. /\ opened' \in [Buffers -> Nat] /\ fd' \in [Buffers -> Nat]
        /\ prod' \in [Buffers -> Suspensions]
    BY <1>4 DEF OpenLog, Typed, Suspensions
  <2>2. <<>> \in Logs
    BY DEF Logs
  <2>3. file' \in [Buffers -> Logs \cup {Missing}]
    BY <1>4, <2>2 DEF OpenLog, Typed
  <2>4. Table(writers', Nat)
    <3>1. opened[b] + 1 \in Nat /\ writers' = With(writers, b, opened[b] + 1)
      BY <1>4 DEF OpenLog, Typed
    <3>. QED
      BY <3>1, TablesTyped DEF Typed
  <2>5. Table(index', Logs)
    <3>1. index' = With(index, b, <<>>)
      BY <1>4 DEF OpenLog
    <3>. QED
      BY <3>1, <2>2, TablesTyped DEF Typed
  <2>. QED
    BY <1>4, <2>1, <2>3, <2>4, <2>5 DEF OpenLog, Typed
<1>5. CASE WriteLine(b) \/ WriteFails(b)
  <2>1. held[b] \in Nat \ {0}
    BY <1>5 DEF WriteLine, WriteFails, Typed, Numbered
  <2>2. Append(unflushed[b], held[b]) \in Logs /\ <<>> \in Logs
    BY <2>1, LogsGrow DEF Typed
  <2>3. Flushed(b, fd[b], Append(unflushed[b], held[b])) \in Logs \cup {Missing}
    BY <2>2, FlushedTyped
  <2>4. prod' \in [Buffers -> Suspensions] /\ faults' \in Nat
    <3>1. faults' = faults + 1 \/ faults' = faults
      BY <1>5 DEF WriteLine, WriteFails
    <3>2. prod' \in [Buffers -> Suspensions]
      <4>1. prod' = [prod EXCEPT ![b] = "written"] \/ prod' = [prod EXCEPT ![b] = "raised"]
        BY <1>5 DEF WriteLine, WriteFails
      <4>. QED
        BY <4>1 DEF Typed, Suspensions
    <3>. QED
      BY <3>1, <3>2 DEF Typed
  <2>5. CASE WriteLine(b)
    BY <2>2, <2>3, <2>4, <2>5 DEF WriteLine, Typed
  <2>6. CASE WriteFails(b)
    <3>1. unflushed' \in [Buffers -> Logs]
      BY <2>2, <2>6 DEF WriteFails, Typed
    <3>. QED
      BY <2>4, <2>6, <3>1 DEF WriteFails, Typed
  <2>. QED
    BY <1>5, <2>5, <2>6
<1>6. CASE Indexed(b)
  <2>1. held[b] \in Nat \ {0} /\ index[b] \in Logs
    BY <1>6 DEF Indexed, Typed, Numbered, Table
  <2>2. Append(index[b], held[b]) \in Logs
    BY <2>1, LogsGrow
  <2>3. Table(index', Logs)
    BY <1>6, <2>2 DEF Indexed, Typed, Table
  <2>4. /\ prod' \in [Buffers -> Suspensions] /\ done' \subseteq Buffers
        /\ Table(hot', Nat)
    <3>1. CASE Full(b)
      BY <1>6, <3>1 DEF Indexed, Typed, Suspensions
    <3>2. CASE ~Full(b)
      BY <1>6, <3>2, AdmitTyped DEF Indexed
    <3>. QED
      BY <3>1, <3>2
  <2>. QED
    BY <1>6, <2>3, <2>4 DEF Indexed, Typed
<1>7. CASE AppendRaises(b)
  <2>1. held[b] + 1 \in Nat
    BY DEF Typed
  <2>2. /\ prod' \in [Buffers -> Suspensions]
        /\ fd' \in [Buffers -> Nat] /\ held' \in [Buffers -> Nat]
        /\ last' \in [Buffers -> BOOLEAN] /\ failing' \in [Buffers -> BOOLEAN]
    <3>1. CASE failing[b]
      BY <1>7, <3>1 DEF AppendRaises, Typed, Suspensions
    <3>2. CASE ~failing[b]
      BY <1>7, <2>1, <3>2, AppendingTyped DEF AppendRaises
    <3>. QED
      BY <3>1, <3>2
  <2>. QED
    BY <1>7, <2>2 DEF AppendRaises, Typed
<1>8. CASE Unblock(b)
  BY <1>8, AdmitTyped DEF Unblock, Typed
<1>9. CASE Drain(b)
  <2>1. PICK n \in 1..hot[b] : hot' = [hot EXCEPT ![b] = @ - n]
    BY <1>9 DEF Drain
  <2>2. hot[b] \in Nat /\ b \in DOMAIN hot
    BY <1>9 DEF Drain, Typed, Table
  <2>3. Table(hot', Nat)
    BY <2>1, <2>2 DEF Typed, Table
  <2>. QED
    BY <1>9, <2>3 DEF Drain, Typed
<1>. QED
  BY <1>1, <1>2, <1>3, <1>4, <1>5, <1>6, <1>7, <1>8, <1>9 DEF Load

\* So do the sweep, whatever it takes next, and the end of the registry.
LEMMA SweepTyped ==
    ASSUME Typed, Sweep \/ Tick \/ Close
    PROVE  Typed'
<1> USE DEF producer, disk
<1>1. DOMAIN Asleep = {"pc", "by", "todo", "total", "usage"} /\ Asleep.pc = "asleep"
  BY DEF Asleep
<1> DEFINE h == Head(sweep.todo)
<1>2. CASE Tick \/ CountUsage \/ EndPass
  <2>1. DOMAIN sweep' = {"pc", "by", "todo", "total", "usage"} /\ sweep'.pc \in {"asleep", "next"}
    BY <1>1, <1>2 DEF Tick, CountUsage, EndPass, Typed
  <2>2. sweeps' \in Nat
    <3>1. sweeps' = sweeps + 1 \/ sweeps' = sweeps
      BY <1>2 DEF Tick, CountUsage, EndPass
    <3>. QED
      BY <3>1 DEF Typed
  <2>. QED
    BY <1>2, <2>1, <2>2 DEF Tick, CountUsage, EndPass, Typed
<1>3. CASE RemoveNext
  <2>1. CASE status[h] = "in"
    <3>1. Removing(h)
      BY <1>3, <2>1 DEF RemoveNext
    <3>2. DOMAIN sweep' = {"pc", "by", "todo", "total", "usage"} /\ sweep'.pc \in {"closing", "unlinking"}
      BY <3>1 DEF Removing, Typed
    <3>3. status' \in [Buffers -> {"new", "in", "out", "rejected"}]
      BY <3>1 DEF Removing, Typed
    <3>4. parting' \in [Buffers -> [prod : Suspensions \cup {"none"}, held : Nat]]
      <4>1. CASE h \in Buffers
        <5>1. [prod |-> prod[h], held |-> held[h]] \in [prod : Suspensions \cup {"none"}, held : Nat]
          BY <4>1 DEF Typed
        <5>. QED
          BY <3>1, <5>1 DEF Removing, Typed
      <4>2. CASE h \notin Buffers
        BY <3>1, <4>2 DEF Removing, Typed
      <4>. QED
        BY <4>1, <4>2
    <3>5. Table(hot', Nat)
      BY <3>1, TablesTyped DEF Removing, Typed
    <3>6. Table(writers', Nat)
      BY <3>1, TablesTyped DEF Removing, Typed
    <3>7. Table(index', Logs)
      BY <3>1, TablesTyped DEF Removing, Typed
    <3>. QED
      BY <1>3, <3>2, <3>3, <3>4, <3>5, <3>6, <3>7 DEF RemoveNext, Typed
  <2>2. CASE status[h] # "in"
    BY <1>3, <2>2 DEF RemoveNext, Typed
  <2>. QED
    BY <2>1, <2>2
<1>4. CASE CloseReturns
  <2>1. <<>> \in Logs
    BY DEF Logs
  <2>2. file' \in [Buffers -> Logs \cup {Missing}]
    <3>1. file' = [file EXCEPT ![h] = Flushed(h, closed[h] + 1, unflushed[h])]
      BY <1>4 DEF CloseReturns
    <3>2. h \in Buffers => Flushed(h, closed[h] + 1, unflushed[h]) \in Logs \cup {Missing}
      BY FlushedTyped DEF Typed
    <3>. QED
      BY <3>1, <3>2 DEF Typed
  <2>3. unflushed' \in [Buffers -> Logs] /\ closed' \in [Buffers -> Nat]
    <3>1. unflushed' = [unflushed EXCEPT ![h] = <<>>] /\ closed' = [closed EXCEPT ![h] = @ + 1]
      BY <1>4 DEF CloseReturns
    <3>2. unflushed' \in [Buffers -> Logs]
      BY <2>1, <3>1 DEF Typed
    <3>3. closed' \in [Buffers -> Nat]
      <4>1. h \in Buffers => closed[h] + 1 \in Nat
        BY DEF Typed
      <4>2. closed' = [closed EXCEPT ![h] = closed[h] + 1]
        BY <3>1
      <4>. QED
        BY <4>1, <4>2 DEF Typed
    <3>. QED
      BY <3>2, <3>3
  <2>4. Table(index', Logs)
    BY <1>4, TablesTyped DEF CloseReturns, Typed
  <2>5. DOMAIN sweep' = {"pc", "by", "todo", "total", "usage"} /\ sweep'.pc = "unlinking"
    BY <1>4 DEF CloseReturns, Typed
  <2>. QED
    BY <1>4, <2>2, <2>3, <2>4, <2>5 DEF CloseReturns, Typed
<1>5. CASE UnlinkReturns
  <2>1. DOMAIN sweep' = {"pc", "by", "todo", "total", "usage"} /\ sweep'.pc = "next"
    BY <1>5 DEF UnlinkReturns, Typed
  <2>2. file' \in [Buffers -> Logs \cup {Missing}] /\ unlinked' \in [Buffers -> Nat]
    BY <1>5 DEF UnlinkReturns, Typed
  <2>. QED
    BY <1>5, <2>1, <2>2 DEF UnlinkReturns, Typed
<1>6. CASE UnlinkRaises
  BY <1>1, <1>6 DEF UnlinkRaises, Typed
<1>7. CASE Close
  <2>1. <<>> \in Logs /\ DOMAIN <<>> = {}
    BY DEF Logs
  <2>. QED
    BY <1>1, <1>7, <2>1 DEF Close, Typed, Table
<1>. QED
  BY <1>2, <1>3, <1>4, <1>5, <1>6, <1>7 DEF Sweep

-----------------------------------------------------------------------------
(* What a step leaves alone *)

SameAt(b) ==
    /\ status'[b] = status[b] /\ prod'[b] = prod[b] /\ fd'[b] = fd[b] /\ held'[b] = held[b]
    /\ file'[b] = file[b] /\ unflushed'[b] = unflushed[b]
    /\ opened'[b] = opened[b] /\ closed'[b] = closed[b] /\ unlinked'[b] = unlinked[b]
    /\ parting'[b] = parting[b]
    /\ (b \in DOMAIN writers') = (b \in DOMAIN writers)
    /\ b \in DOMAIN writers => writers'[b] = writers[b]
    /\ (b \in DOMAIN index') = (b \in DOMAIN index)
    /\ b \in DOMAIN index => index'[b] = index[b]
    /\ (b \in DOMAIN hot') = (b \in DOMAIN hot)

\* The sweep is where it was with this buffer.
SweepSame(b) == /\ UnderRemoval(b)' = UnderRemoval(b)
                /\ UnderRemoval(b) => sweep'.pc = sweep.pc

\* A buffer that a step leaves as it is stays whole.
LEMMA Elsewhere ==
    ASSUME NEW b \in Buffers, Whole(b), SameAt(b), SweepSame(b), faults' = 0 => faults = 0
    PROVE  Whole(b)'
<1>1. Numbered(b)' /\ Fresh(b)' /\ Woken(b)' /\ (UnderRemoval(b)' => status'[b] = "out")
  BY DEF Whole, SameAt, SweepSame, Numbered, Fresh, Woken
<1>2. Sound(b) => Sound(b)'
  BY DEF SameAt, Sound
<1>3. Gone(b) => Gone(b)'
  BY DEF SameAt, SweepSame, Gone
<1>. QED
  BY <1>1, <1>2, <1>3 DEF Whole

\* An action of a buffer concerns no other one.
LEMMA OthersKept ==
    ASSUME NEW b \in Buffers, Typed, Create(b) \/ Reject(b) \/ Start(b) \/ Load(b) \/ Drain(b)
    PROVE  /\ \A x \in Buffers \ {b} : SameAt(x)
           /\ sweep' = sweep /\ \A x \in Buffers : SweepSame(x)
           /\ parting' = parting
           /\ faults' = 0 => faults = 0
<1> USE DEF producer, disk
<1>1. sweep' = sweep /\ parting' = parting
  BY DEF Create, Reject, Start, Load, Emit, Raise, Exhausted, OpenLog, WriteLine, WriteFails,
         Indexed, AppendRaises, Unblock, Drain
<1>2. faults' = 0 => faults = 0
  <2>1. faults' = faults \/ faults' = faults + 1
    BY DEF Create, Reject, Start, Load, Emit, Raise, Exhausted, OpenLog, WriteLine, WriteFails,
           Indexed, AppendRaises, Unblock, Drain
  <2>. QED
    BY <2>1 DEF Typed
<1>3. \A x \in Buffers : SweepSame(x)
  BY <1>1 DEF SweepSame, UnderRemoval
<1>4. ASSUME NEW x \in Buffers \ {b} PROVE SameAt(x)
  <2>1. CASE Create(b) \/ Reject(b) \/ Start(b) \/ Exhausted(b)
    BY <2>1 DEF Create, Reject, Start, Exhausted, Typed, SameAt
  <2>2. CASE Emit(b) \/ Raise(b) \/ AppendRaises(b)
    <3>1. UNCHANGED <<status, disk, hot, parting>>
      BY <2>2 DEF Emit, Raise, AppendRaises
    <3>2. prod'[x] = prod[x] /\ fd'[x] = fd[x] /\ held'[x] = held[x]
      BY <2>2 DEF Emit, Raise, AppendRaises, Appending, Typed
    <3>. QED
      BY <3>1, <3>2 DEF SameAt
  <2>3. CASE OpenLog(b)
    <3>1. /\ writers' = With(writers, b, opened[b] + 1) /\ index' = With(index, b, <<>>)
      BY <2>3 DEF OpenLog
    <3>2. /\ (x \in DOMAIN writers') = (x \in DOMAIN writers)
          /\ x \in DOMAIN writers => writers'[x] = writers[x]
          /\ (x \in DOMAIN index') = (x \in DOMAIN index)
          /\ x \in DOMAIN index => index'[x] = index[x]
      BY <3>1 DEF With
    <3>. QED
      BY <2>3, <3>2 DEF OpenLog, Typed, SameAt
  <2>4. CASE WriteLine(b) \/ WriteFails(b)
    BY <2>4 DEF WriteLine, WriteFails, Typed, SameAt
  <2>5. ASSUME Admit(b) PROVE (x \in DOMAIN hot') = (x \in DOMAIN hot) /\ prod'[x] = prod[x]
    BY <2>5 DEF Admit, With, Typed
  <2>6. CASE Indexed(b)
    <3>1. (x \in DOMAIN hot') = (x \in DOMAIN hot) /\ prod'[x] = prod[x]
      BY <2>5, <2>6 DEF Indexed, Typed
    <3>2. (x \in DOMAIN index') = (x \in DOMAIN index) /\ (x \in DOMAIN index => index'[x] = index[x])
      BY <2>6 DEF Indexed
    <3>. QED
      BY <2>6, <3>1, <3>2 DEF Indexed, SameAt
  <2>7. CASE Unblock(b)
    BY <2>5, <2>7 DEF Unblock, SameAt
  <2>8. CASE Drain(b)
    <3>1. (x \in DOMAIN hot') = (x \in DOMAIN hot)
      BY <2>8 DEF Drain
    <3>. QED
      BY <2>8, <3>1 DEF Drain, SameAt
  <2>. QED
    BY <2>1, <2>2, <2>3, <2>4, <2>6, <2>7, <2>8 DEF Load
<1>. QED
  BY <1>1, <1>2, <1>3, <1>4

-----------------------------------------------------------------------------
(* The actions of a buffer *)

\* What is read from the invariant in the cases below.
LEMMA SoundFacts ==
    ASSUME NEW b \in Buffers, Typed, Whole(b), faults = 0, status[b] \in {"new", "in"}
    PROVE  /\ closed[b] = 0 /\ unlinked[b] = 0 /\ unflushed[b] = <<>> /\ prod[b] # "raised"
           /\ b \in DOMAIN writers =>
                 /\ writers[b] = 1 /\ opened[b] = 1 /\ b \in DOMAIN index /\ index[b] \in Logs
                 /\ file[b] = IF prod[b] = "written" THEN Append(index[b], held[b]) ELSE index[b]
                 /\ prod[b] # "open"
           /\ b \notin DOMAIN writers =>
                 /\ opened[b] = 0 /\ b \notin DOMAIN index /\ file[b] = Missing
                 /\ prod[b] \notin {"write", "written", "blocked"}
           /\ prod[b] \in {"write", "written"} => fd[b] = 1
  BY DEF Whole, Sound, Typed, Table

\* Creation, rejection, start and exhaustion touch neither disk nor tier.
LEMMA LifeWhole ==
    ASSUME NEW b \in Buffers, Typed, Whole(b), Create(b) \/ Reject(b) \/ Start(b) \/ Exhausted(b)
    PROVE  Whole(b)'
<1> USE DEF producer, disk
<1>1. CASE Create(b) \/ Reject(b)
  <2>1. \/ status[b] = "new" /\ status'[b] = "in"
        \/ status[b] = "in" /\ status'[b] = "rejected" /\ prod[b] = "idle"
    BY <1>1 DEF Create, Reject, Typed
  <2>2. UNCHANGED <<disk, hot, producer, sweep, parting, faults>>
    BY <1>1 DEF Create, Reject
  <2>3. Numbered(b)' /\ Fresh(b)' /\ Woken(b)' /\ (UnderRemoval(b)' => status'[b] = "out")
    BY <2>1, <2>2 DEF Whole, Numbered, Fresh, Woken, UnderRemoval
  <2>4. Sound(b) => Sound(b)'
    BY <2>1, <2>2 DEF Sound
  <2>5. Gone(b) => Gone(b)'
    BY <2>1, <2>2 DEF Gone
  <2>. QED
    BY <2>2, <2>3, <2>4, <2>5 DEF Whole
<1>2. CASE Start(b) \/ Exhausted(b)
  <2>1. \/ prod[b] = "idle" /\ prod'[b] = "source" /\ status[b] \in {"in", "out"}
        \/ prod[b] = "source" /\ prod'[b] = "finished"
    BY <1>2 DEF Start, Exhausted, Typed
  <2>2. UNCHANGED <<status, disk, hot, fd, held, sweep, parting, faults>>
    BY <1>2 DEF Start, Exhausted
  <2>3. Numbered(b)' /\ Fresh(b)' /\ Woken(b)' /\ (UnderRemoval(b)' => status'[b] = "out")
    BY <2>1, <2>2 DEF Whole, Numbered, Fresh, Woken, UnderRemoval
  <2>4. Sound(b) => Sound(b)'
    BY <2>1, <2>2 DEF Sound
  <2>5. Gone(b) => Gone(b)'
    BY <2>1, <2>2 DEF Gone
  <2>. QED
    BY <2>2, <2>3, <2>4, <2>5 DEF Whole
<1>. QED
  BY <1>1, <1>2

\* A block to append, from the source or made by error(): the task goes on to
\* the open or to the write.
LEMMA AppendingWhole ==
    ASSUME NEW b \in Buffers, Typed, Whole(b), Emit(b) \/ Raise(b) \/ AppendRaises(b)
    PROVE  Whole(b)'
<1> USE DEF producer, disk
<1>1. UNCHANGED <<status, disk, hot, sweep, parting, faults>>
  BY DEF Emit, Raise, AppendRaises
<1>2. prod[b] \in {"source", "raised", "written"}
  BY DEF Emit, Raise, AppendRaises
<1>3. \/ /\ held'[b] = held[b] + 1 /\ b \in DOMAIN writers
         /\ prod'[b] = "write" /\ fd'[b] = writers[b]
      \/ /\ held'[b] = held[b] + 1 /\ b \notin DOMAIN writers
         /\ prod'[b] = "open"
      \/ prod[b] # "source" /\ held'[b] = held[b] /\ prod'[b] = "failed"
  BY DEF Emit, Raise, AppendRaises, Appending, Typed
<1>4. prod[b] # "source" => prod[b] = "raised" \/ b \notin DOMAIN index
  BY DEF Emit, Raise, AppendRaises
<1>5. held[b] \in Nat /\ parting[b].held \in Nat
  BY DEF Typed
<1>6. Numbered(b)' /\ Fresh(b)' /\ (UnderRemoval(b)' => status'[b] = "out")
  BY <1>1, <1>2, <1>3, <1>5 DEF Whole, Numbered, Fresh, UnderRemoval
<1>7. Woken(b)'
  BY <1>1, <1>2, <1>3, <1>5 DEF Whole, Woken
<1>8. ASSUME faults = 0 PROVE Sound(b)'
  <2> SUFFICES ASSUME status[b] \in {"new", "in"} PROVE Sound(b)'
    BY <1>1 DEF Sound
  <2>1. prod[b] = "source"
    BY <1>2, <1>4, <1>8, SoundFacts
  <2>2. prod'[b] \in {"write", "open"}
    BY <1>3, <2>1
  <2>. QED
    BY <1>1, <1>3, <1>8, <2>1, <2>2, SoundFacts DEF Sound
<1>9. ASSUME faults = 0 PROVE Gone(b)'
  BY <1>1, <1>2, <1>9 DEF Whole, Gone
<1>. QED
  BY <1>1, <1>6, <1>7, <1>8, <1>9 DEF Whole

\* The open and the write, which may fail.
LEMMA WriterWhole ==
    ASSUME NEW b \in Buffers, Typed, Whole(b), OpenLog(b) \/ WriteLine(b) \/ WriteFails(b)
    PROVE  Whole(b)'
<1> USE DEF producer, disk
<1>1. UNCHANGED <<status, hot, held, sweep, parting>>
  BY DEF OpenLog, WriteLine, WriteFails
<1>2. prod[b] \in {"open", "write"} /\ prod'[b] \in {"write", "written", "raised"}
  BY DEF OpenLog, WriteLine, WriteFails, Typed
<1>3. Numbered(b)' /\ Fresh(b)' /\ Woken(b)' /\ (UnderRemoval(b)' => status'[b] = "out")
  BY <1>1, <1>2 DEF Whole, Numbered, Fresh, Woken, UnderRemoval
<1>4. faults' = 0 => faults = 0
  <2>1. faults' = faults \/ faults' = faults + 1
    BY DEF OpenLog, WriteLine, WriteFails
  <2>. QED
    BY <2>1 DEF Typed
<1>5. ASSUME faults' = 0 PROVE Gone(b)'
  BY <1>1, <1>2, <1>4, <1>5 DEF Whole, Gone
<1>6. ASSUME faults' = 0 PROVE Sound(b)'
  <2> SUFFICES ASSUME status[b] \in {"new", "in"} PROVE Sound(b)'
    BY <1>1 DEF Sound
  <2>1. CASE OpenLog(b)
    <3>1. b \notin DOMAIN writers /\ prod[b] = "open"
      BY <1>4, <1>6, <2>1, SoundFacts DEF OpenLog
    <3>2. opened[b] = 0 /\ file[b] = Missing
      BY <1>4, <1>6, <3>1, SoundFacts
    <3>3. opened'[b] = 1 /\ fd'[b] = 1 /\ file'[b] = <<>> /\ prod'[b] = "write"
      BY <2>1, <3>2 DEF OpenLog, Typed
    <3>4. writers' = With(writers, b, 1) /\ index' = With(index, b, <<>>)
      BY <2>1, <3>2 DEF OpenLog
    <3>5. b \in DOMAIN writers' /\ writers'[b] = 1 /\ b \in DOMAIN index' /\ index'[b] = <<>>
      BY <3>4 DEF With
    <3>6. UNCHANGED <<closed, unlinked, unflushed>>
      BY <2>1 DEF OpenLog
    <3>. QED
      BY <1>4, <1>6, <3>3, <3>5, <3>6, SoundFacts DEF Sound
  <2>2. CASE WriteLine(b)
    <3>1. prod[b] = "write" /\ b \in DOMAIN writers /\ fd[b] = 1
      BY <1>4, <1>6, <2>2, SoundFacts DEF WriteLine
    <3>2. /\ file[b] = index[b] /\ index[b] \in Logs /\ unflushed[b] = <<>> /\ unlinked[b] = 0
      BY <1>4, <1>6, <3>1, SoundFacts
    <3>3. held[b] \in Nat \ {0}
      BY <3>1 DEF Typed, Whole, Numbered
    <3>4. Flushed(b, fd[b], Append(unflushed[b], held[b])) = Append(index[b], held[b])
      <4>1. file[b] # Missing
        BY <3>2, MissingIsNoLog
      <4>2. Append(<<>>, held[b]) = <<held[b]>> /\ index[b] \o <<held[b]>> = Append(index[b], held[b])
        BY <3>2, <3>3, LogsGrow
      <4>. QED
        BY <3>1, <3>2, <4>1, <4>2 DEF Flushed
    <3>5. file'[b] = Append(index[b], held[b]) /\ unflushed'[b] = <<>> /\ prod'[b] = "written"
      BY <2>2, <3>4 DEF WriteLine, Typed
    <3>6. UNCHANGED <<writers, index, opened, closed, unlinked, fd, held>>
      BY <2>2 DEF WriteLine
    <3>. QED
      BY <1>4, <1>6, <3>1, <3>5, <3>6, SoundFacts DEF Sound
  <2>3. CASE WriteFails(b)
    <3>1. fd[b] = 1 /\ closed[b] = 0
      BY <1>4, <1>6, <2>3, SoundFacts DEF WriteFails
    <3>2. faults' = faults + 1
      BY <2>3, <3>1 DEF WriteFails
    <3>. QED
      BY <1>6, <3>2 DEF Typed
  <2>. QED
    BY <2>1, <2>2, <2>3
<1>. QED
  BY <1>3, <1>4, <1>5, <1>6 DEF Whole

\* A line enters the index, a block the in-flight tier.
LEMMA TierWhole ==
    ASSUME NEW b \in Buffers, Typed, Whole(b), Indexed(b) \/ Unblock(b) \/ Drain(b)
    PROVE  Whole(b)'
<1> USE DEF producer, disk
<1>1. UNCHANGED <<status, file, writers, opened, closed, unlinked, unflushed, fd, held, sweep, parting, faults>>
  BY DEF Indexed, Unblock, Drain
<1>2. held[b] \in Nat /\ parting[b].held \in Nat
  BY DEF Typed
<1>3. CASE Drain(b)
  <2>1. (b \in DOMAIN hot') = (b \in DOMAIN hot) /\ UNCHANGED <<prod, index>>
    BY <1>3 DEF Drain
  <2>2. SameAt(b)
    BY <1>1, <2>1 DEF SameAt
  <2>3. SweepSame(b)
    BY <1>1 DEF SweepSame, UnderRemoval
  <2>. QED
    BY <1>1, <2>2, <2>3, Elsewhere
<1>4. CASE Indexed(b) \/ Unblock(b)
  <2>1. /\ prod[b] \in {"written", "blocked"} /\ prod'[b] \in {"blocked", "source", "finished"}
        /\ prod'[b] = "blocked" => prod[b] = "written"
    BY <1>4 DEF Indexed, Unblock, Admit, Typed
  <2>2. Numbered(b)' /\ Fresh(b)' /\ (UnderRemoval(b)' => status'[b] = "out")
    BY <1>1, <2>1 DEF Whole, Numbered, Fresh, UnderRemoval
  <2>3. Woken(b)'
    BY <1>1, <1>2, <2>1 DEF Whole, Woken
  <2>4. ASSUME faults = 0 PROVE Gone(b)'
    BY <1>1, <2>1, <2>4 DEF Whole, Gone
  <2>5. ASSUME faults = 0 PROVE Sound(b)'
    <3> SUFFICES ASSUME status[b] \in {"new", "in"} PROVE Sound(b)'
      BY <1>1 DEF Sound
    <3>1. b \in DOMAIN writers /\ b \in DOMAIN index
      BY <2>1, <2>5, SoundFacts
    <3>2. b \in DOMAIN index' /\ file[b] = index'[b]
      <4>1. CASE Indexed(b)
        <5>1. index' = [index EXCEPT ![b] = Append(@, held[b])] /\ prod[b] = "written"
          BY <4>1 DEF Indexed
        <5>. QED
          BY <2>5, <3>1, <5>1, SoundFacts
      <4>2. CASE Unblock(b)
        <5>1. index' = index /\ prod[b] = "blocked"
          BY <4>2 DEF Unblock
        <5>. QED
          BY <2>5, <3>1, <5>1, SoundFacts
      <4>. QED
        BY <1>4, <4>1, <4>2
    <3>. QED
      BY <1>1, <2>1, <2>5, <3>1, <3>2, SoundFacts DEF Sound
  <2>. QED
    BY <1>1, <2>2, <2>3, <2>4, <2>5 DEF Whole
<1>. QED
  BY <1>3, <1>4

-----------------------------------------------------------------------------
(* The sweep *)

\* Between two buffers of a pass nothing changes but the sweep's own variables.
LEMMA PassWhole ==
    ASSUME NEW b \in Buffers, Typed, Whole(b), Tick \/ CountUsage \/ EndPass \/ UnlinkRaises
    PROVE  Whole(b)'
<1> USE DEF producer, disk
<1>1. UNCHANGED <<status, disk, hot, producer, parting>>
  BY DEF Tick, CountUsage, EndPass, UnlinkRaises
<1>2. SameAt(b)
  BY <1>1 DEF SameAt
<1>3. sweep'.pc \in {"asleep", "next"}
  <2>1. DOMAIN Asleep = {"pc", "by", "todo", "total", "usage"} /\ Asleep.pc = "asleep"
    BY DEF Asleep
  <2>2. CASE Tick
    BY <2>1, <2>2 DEF Tick
  <2>3. CASE CountUsage
    BY <2>1, <2>3 DEF CountUsage, Typed
  <2>4. CASE EndPass \/ UnlinkRaises
    BY <2>1, <2>4 DEF EndPass, UnlinkRaises
  <2>. QED
    BY <2>2, <2>3, <2>4
<1>4. CASE Tick \/ CountUsage \/ EndPass
  <2>1. SweepSame(b) /\ faults' = faults
    BY <1>3, <1>4 DEF SweepSame, UnderRemoval, Tick, CountUsage, EndPass
  <2>. QED
    BY <1>2, <2>1, Elsewhere
<1>5. CASE UnlinkRaises
  <2>1. faults' = faults + 1
    BY <1>5 DEF UnlinkRaises
  <2>2. faults' # 0
    BY <2>1 DEF Typed
  <2>3. Numbered(b)' /\ Fresh(b)' /\ Woken(b)' /\ (UnderRemoval(b)' => status'[b] = "out")
    BY <1>1, <1>3 DEF Whole, Numbered, Fresh, Woken, UnderRemoval
  <2>. QED
    BY <2>2, <2>3 DEF Whole
<1>. QED
  BY <1>4, <1>5

\* The first step of a removal leaves what the others have to take away.
LEMMA RemoveWhole ==
    ASSUME NEW b \in Buffers, Typed, Whole(b), RemoveNext
    PROVE  Whole(b)'
<1> USE DEF producer, disk
<1> DEFINE h == Head(sweep.todo)
<1>1. /\ UNCHANGED <<file, opened, closed, unlinked, unflushed, prod, fd, held, faults>>
      /\ sweep.pc = "next"
  BY DEF RemoveNext
<1>2. ~UnderRemoval(b)
  BY <1>1 DEF UnderRemoval
<1>3. CASE status[h] # "in"
  <2>1. UNCHANGED <<status, hot, writers, index, parting>>
    BY <1>3 DEF RemoveNext
  <2>2. sweep'.pc = "next"
    BY <1>1, <1>3 DEF RemoveNext, Typed
  <2>3. SameAt(b)
    BY <1>1, <2>1 DEF SameAt
  <2>4. SweepSame(b)
    BY <1>1, <2>2 DEF SweepSame, UnderRemoval
  <2>. QED
    BY <1>1, <2>3, <2>4, Elsewhere
<1>4. CASE status[h] = "in"
  <2>1. Removing(h)
    BY <1>4 DEF RemoveNext
  <2>2. sweep'.todo = sweep.todo /\ sweep'.pc \in {"closing", "unlinking"}
    BY <2>1 DEF Removing, Typed
  <2>3. CASE b # h
    <3>1. status'[b] = status[b] /\ parting'[b] = parting[b]
      BY <2>1, <2>3 DEF Removing, Typed
    <3>2. (b \in DOMAIN hot') = (b \in DOMAIN hot)
      BY <2>1, <2>3 DEF Removing, Without
    <3>3. (b \in DOMAIN writers') = (b \in DOMAIN writers) /\ (b \in DOMAIN writers => writers'[b] = writers[b])
      BY <2>1, <2>3 DEF Removing, Without
    <3>4. (b \in DOMAIN index') = (b \in DOMAIN index) /\ (b \in DOMAIN index => index'[b] = index[b])
      BY <2>1, <2>3 DEF Removing, Without
    <3>5. SameAt(b)
      BY <1>1, <3>1, <3>2, <3>3, <3>4 DEF SameAt
    <3>6. SweepSame(b)
      BY <1>1, <2>2, <2>3 DEF SweepSame, UnderRemoval
    <3>. QED
      BY <1>1, <3>5, <3>6, Elsewhere
  <2>4. CASE b = h
    <3>1. /\ status'[b] = "out" /\ parting'[b] = [prod |-> prod[b], held |-> held[b]]
      BY <2>1, <2>4 DEF Removing, Typed
    <3>2. b \notin DOMAIN hot' /\ b \notin DOMAIN writers'
      BY <2>1, <2>4 DEF Removing, Without
    <3>3. UnderRemoval(b)'
      BY <2>2, <2>4 DEF UnderRemoval
    <3>4. held[b] \in Nat
      BY DEF Typed
    <3>5. Numbered(b)' /\ Fresh(b)' /\ Woken(b)'
      BY <1>1, <3>1, <3>2, <3>4 DEF Whole, Numbered, Fresh, Woken
    <3>6. Sound(b)'
      BY <3>1 DEF Sound
    <3>7. ASSUME faults = 0 PROVE Gone(b)'
      <4>1. status[b] \in {"new", "in"}
        BY <1>4, <2>4
      <4>2. CASE b \in DOMAIN writers
        <5>1. sweep'.pc = "closing"
          BY <2>1, <2>4, <4>2 DEF Removing, Typed
        <5>2. closed[b] + 1 = opened[b]
          BY <3>7, <4>1, <4>2, SoundFacts
        <5>. QED
          BY <1>1, <3>1, <3>2, <3>3, <5>1, <5>2 DEF Gone
      <4>3. CASE b \notin DOMAIN writers
        <5>1. sweep'.pc = "unlinking" /\ b \notin DOMAIN index'
          BY <2>1, <2>4, <4>3 DEF Removing, Typed, Without
        <5>2. closed[b] = opened[b]
          BY <3>7, <4>1, <4>3, SoundFacts
        <5>. QED
          BY <1>1, <3>1, <3>2, <3>3, <5>1, <5>2 DEF Gone
      <4>. QED
        BY <4>2, <4>3
    <3>. QED
      BY <1>1, <3>1, <3>5, <3>6, <3>7 DEF Whole
  <2>. QED
    BY <2>3, <2>4
<1>. QED
  BY <1>3, <1>4

\* The close takes the descriptor and the index away, the unlink the file.
LEMMA RemovalWhole ==
    ASSUME NEW b \in Buffers, Typed, Whole(b), CloseReturns \/ UnlinkReturns
    PROVE  Whole(b)'
<1> USE DEF producer, disk
<1> DEFINE h == Head(sweep.todo)
<1>1. /\ UNCHANGED <<status, writers, opened, hot, prod, fd, held, parting, faults>>
      /\ sweep.pc \in {"closing", "unlinking"}
  BY DEF CloseReturns, UnlinkReturns
<1>2. CASE b # h
  <2>1. /\ file'[b] = file[b] /\ unflushed'[b] = unflushed[b]
        /\ closed'[b] = closed[b] /\ unlinked'[b] = unlinked[b]
    BY <1>2 DEF CloseReturns, UnlinkReturns, Typed
  <2>2. (b \in DOMAIN index') = (b \in DOMAIN index) /\ (b \in DOMAIN index => index'[b] = index[b])
    BY <1>2 DEF CloseReturns, UnlinkReturns, Without
  <2>3. SameAt(b)
    BY <1>1, <2>1, <2>2 DEF SameAt
  <2>4. SweepSame(b)
    <3>1. CASE CloseReturns
      <4>1. sweep'.todo = sweep.todo
        BY <3>1 DEF CloseReturns, Typed
      <4>. QED
        BY <1>2, <4>1 DEF SweepSame, UnderRemoval
    <3>2. CASE UnlinkReturns
      <4>1. sweep'.pc = "next"
        BY <3>2 DEF UnlinkReturns, Typed
      <4>. QED
        BY <1>2, <4>1 DEF SweepSame, UnderRemoval
    <3>. QED
      BY <3>1, <3>2
  <2>. QED
    BY <1>1, <2>3, <2>4, Elsewhere
<1>3. CASE b = h
  <2>1. status[b] = "out" /\ UnderRemoval(b)
    BY <1>1, <1>3 DEF Whole, UnderRemoval
  <2>2. Numbered(b)' /\ Fresh(b)' /\ Woken(b)' /\ (UnderRemoval(b)' => status'[b] = "out")
    BY <1>1, <2>1 DEF Whole, Numbered, Fresh, Woken
  <2>3. Sound(b)'
    BY <1>1, <2>1 DEF Sound
  <2>4. ASSUME faults = 0 PROVE Gone(b)'
    <3>1. CASE CloseReturns
      <4>1. sweep.pc = "closing" /\ sweep'.pc = "unlinking" /\ sweep'.todo = sweep.todo
        BY <3>1 DEF CloseReturns, Typed
      <4>2. closed'[b] = closed[b] + 1 /\ b \notin DOMAIN index'
        BY <1>3, <3>1 DEF CloseReturns, Typed, Without
      <4>3. UnderRemoval(b)'
        BY <1>3, <4>1 DEF UnderRemoval
      <4>. QED
        BY <1>1, <2>1, <2>4, <4>1, <4>2, <4>3 DEF Whole, Gone
    <3>2. CASE UnlinkReturns
      <4>1. sweep.pc = "unlinking" /\ sweep'.pc = "next"
        BY <3>2 DEF UnlinkReturns, Typed
      <4>2. file'[b] = Missing /\ UNCHANGED <<closed, index>>
        BY <1>3, <3>2 DEF UnlinkReturns, Typed
      <4>. QED
        BY <1>1, <2>1, <2>4, <4>1, <4>2 DEF Whole, Gone
    <3>. QED
      BY <3>1, <3>2
  <2>. QED
    BY <1>1, <2>2, <2>3, <2>4 DEF Whole
<1>. QED
  BY <1>2, <1>3

\* The end of the registry takes what is there, and interrupts the sweep.
LEMMA CloseWhole ==
    ASSUME NEW b \in Buffers, Typed, Whole(b), Close
    PROVE  Whole(b)'
<1> USE DEF producer, disk
<1>1. /\ UNCHANGED <<opened, hot, prod, fd, held, parting, faults>>
      /\ sweep' = Asleep /\ file'[b] = Missing /\ unflushed'[b] = <<>>
      /\ closed'[b] = opened[b] /\ unlinked'[b] = opened[b]
      /\ status'[b] = IF status[b] = "in" THEN "out" ELSE status[b]
  BY DEF Close
<1>2. b \notin DOMAIN writers' /\ b \notin DOMAIN index'
  BY DEF Close
<1>3. ~UnderRemoval(b)'
  BY <1>1 DEF UnderRemoval, Asleep
<1>4. Numbered(b)' /\ Fresh(b)' /\ Woken(b)'
  BY <1>1, <1>2 DEF Whole, Numbered, Fresh, Woken
<1>5. ASSUME faults = 0 PROVE Sound(b)'
  <2> SUFFICES ASSUME status'[b] \in {"new", "in"} PROVE Sound(b)'
    BY DEF Sound
  <2>1. status[b] = "new" /\ prod[b] = "idle" /\ b \notin DOMAIN writers
    BY <1>1 DEF Whole, Fresh
  <2>2. opened[b] = 0
    BY <1>5, <2>1, SoundFacts
  <2>. QED
    BY <1>1, <1>2, <2>1, <2>2 DEF Sound
<1>6. ASSUME faults = 0 PROVE Gone(b)'
  BY <1>1, <1>2, <1>3, <1>6 DEF Whole, Gone
<1>. QED
  BY <1>1, <1>3, <1>4, <1>5, <1>6 DEF Whole

\* Nothing happens to a closed registry that puts anything on disk again.
LEMMA StaysShut == Inv /\ Next => Shut'
<1> SUFFICES ASSUME Inv, Next, ~open' PROVE Shut'
  BY DEF Shut
<1> USE DEF producer, disk
<1>1. CASE Close
  <2>1. Asleep.pc = "asleep" /\ DOMAIN <<>> = {}
    BY DEF Asleep
  <2>2. \A b \in Buffers : closed'[b] = opened'[b] /\ opened'[b] \in Nat
    BY <1>1 DEF Close, Inv, Typed
  <2>3. \A b \in Buffers : ~OnDisk(b)'
    BY <1>1, <2>1, <2>2 DEF Close, OnDisk
  <2>4. \A b \in Buffers :
           AtRest(b)' /\ (prod'[b] = "idle" => status'[b] \in {"new", "rejected"}) /\ status'[b] # "in"
    BY <1>1 DEF Close, AtRest
  <2>. QED
    BY <1>1, <2>1, <2>3, <2>4 DEF Close, Shut
<1>2. CASE ~Close
  <2>1. open' = open
    BY <1>2 DEF Next, Sweep, CountUsage, EndPass, RemoveNext, CloseReturns, UnlinkReturns, UnlinkRaises,
         Tick, Create, Reject, Start, Load, Emit, Raise, Exhausted, OpenLog, WriteLine, WriteFails,
         Indexed, AppendRaises, Unblock, Drain
  <2>2. ~open /\ sweep.pc = "asleep"
    BY <2>1 DEF Inv, Shut
  <2>3. ~Sweep /\ ~Tick
    BY <2>2 DEF Sweep, CountUsage, EndPass, RemoveNext, CloseReturns, UnlinkReturns, UnlinkRaises, Tick
  <2>4. PICK b \in Buffers : Create(b) \/ Reject(b) \/ Start(b) \/ Load(b) \/ Drain(b)
    BY <1>2, <2>3 DEF Next
  <2>5. AtRest(b) /\ ~OnDisk(b) /\ (prod[b] = "idle" => status[b] \in {"new", "rejected"}) /\ status[b] # "in"
    BY <2>2 DEF Inv, Shut
  <2>6. FALSE
    BY <2>2, <2>4, <2>5 DEF AtRest, OnDisk, Create, Reject, Start, Load, Emit, Raise, Exhausted, OpenLog,
         WriteLine, WriteFails, Indexed, AppendRaises, Unblock, Drain
  <2>. QED
    BY <2>6
<1>. QED
  BY <1>1, <1>2

-----------------------------------------------------------------------------
(* The theorems *)

\* A registry starts with no buffer and nothing on disk.
LEMMA InitInv == Init => Inv
<1> SUFFICES ASSUME Init PROVE Inv
  OBVIOUS
<1>1. DOMAIN <<>> = {} /\ Asleep.pc = "asleep"
  BY DEF Asleep
<1>2. \A b \in Buffers : Whole(b)
  BY <1>1 DEF Init, Whole, Numbered, Fresh, Sound, Gone, Woken, UnderRemoval
<1>3. Shut
  BY DEF Init, Shut
<1>. QED
  BY <1>2, <1>3, InitTyped DEF Inv

\* Every step keeps the invariant: of the buffer it is about and of the others.
LEMMA NextInv == Inv /\ [Next]_vars => Inv'
<1> SUFFICES ASSUME Inv, [Next]_vars PROVE Inv'
  OBVIOUS
<1>1. Typed /\ \A b \in Buffers : Whole(b)
  BY DEF Inv
<1>2. CASE Next /\ (Sweep \/ Tick \/ Close)
  <2>1. Typed'
    BY <1>1, <1>2, SweepTyped
  <2>2. \A b \in Buffers : Whole(b)'
    BY <1>1, <1>2, PassWhole, RemoveWhole, RemovalWhole, CloseWhole DEF Sweep
  <2>4. Shut'
    BY <1>2, StaysShut
  <2>. QED
    BY <2>1, <2>2, <2>4 DEF Inv
<1>3. ASSUME NEW b \in Buffers, Create(b) \/ Reject(b) \/ Start(b) \/ Load(b) \/ Drain(b), Next
      PROVE  Inv'
  <2>1. Typed'
    BY <1>1, <1>3, BufferTyped DEF Whole
  <2>2. Whole(b)'
    BY <1>1, <1>3, LifeWhole, AppendingWhole, WriterWhole, TierWhole DEF Load
  <2>3. \A x \in Buffers \ {b} : Whole(x)'
    BY <1>1, <1>3, OthersKept, Elsewhere
  <2>4. Shut'
    BY <1>3, StaysShut
  <2>. QED
    BY <2>1, <2>2, <2>3, <2>4 DEF Inv
<1>4. CASE UNCHANGED vars
  <2>1. \A b \in Buffers : SameAt(b) /\ SweepSame(b) /\ faults' = faults
    BY <1>4 DEF vars, disk, producer, SameAt, SweepSame, UnderRemoval
  <2>2. \A b \in Buffers : Whole(b)'
    BY <1>1, <2>1, Elsewhere
  <2>3. Typed'
    BY <1>1, <1>4 DEF vars, disk, producer, Typed
  <2>4. Shut'
    BY <1>4 DEF vars, disk, producer, Inv, Shut, AtRest, OnDisk
  <2>. QED
    BY <2>2, <2>3, <2>4 DEF Inv
<1>. QED
  BY <1>2, <1>3, <1>4 DEF Next

\* The invariant holds in every behaviour.
THEOREM Inductive == Spec => []Inv
BY InitInv, NextInv, PTL DEF Spec

\* Every variable has its type.
THEOREM TypeCorrect == Spec => []Typed
<1>1. Inv => Typed
  BY DEF Inv
<1>. QED
  BY <1>1, Inductive, PTL

\* What the invariant says of each buffer is what the property says of all.
LEMMA InvWhole == Inv => RemovalIsWhole
<1> SUFFICES ASSUME Inv PROVE RemovalIsWhole
  OBVIOUS
<1>1. Typed /\ Shut /\ \A b \in Buffers : Whole(b)
  BY DEF Inv
<1>2. IndexDescribesFile
  <2> SUFFICES ASSUME faults = 0, NEW b \in Buffers, status[b] = "in", b \in DOMAIN index
               PROVE  file[b] = index[b] \o InHand(b)
    BY DEF IndexDescribesFile
  <2>1. b \in DOMAIN writers
    BY <1>1, SoundFacts
  <2>2. /\ index[b] \in Logs
        /\ file[b] = IF prod[b] = "written" THEN Append(index[b], held[b]) ELSE index[b]
    BY <1>1, <2>1, SoundFacts
  <2>3. CASE prod[b] = "written"
    <3>1. held[b] \in Nat \ {0}
      BY <1>1, <2>3 DEF Typed, Whole, Numbered
    <3>. QED
      BY <2>2, <2>3, <3>1, LogsGrow DEF InHand
  <2>4. CASE prod[b] # "written"
    <3>1. index[b] \o <<>> = index[b]
      BY <2>2 DEF Logs
    <3>. QED
      BY <2>2, <2>4, <3>1 DEF InHand
  <2>. QED
    BY <2>3, <2>4
<1>3. NothingLeft
  <2>1. ASSUME faults = 0, NEW b \in Buffers,
               parting[b].prod \in {"finished", "failed"}, ~UnderRemoval(b)
        PROVE  ~OnDisk(b) /\ b \notin DOMAIN hot
    <3>1. /\ b \notin DOMAIN hot /\ b \notin DOMAIN writers /\ b \notin DOMAIN index
          /\ closed[b] = opened[b] /\ file[b] = Missing
      BY <1>1, <2>1 DEF Whole, Gone
    <3>2. opened[b] \in Nat
      BY <1>1 DEF Typed
    <3>. QED
      BY <3>1, <3>2 DEF OnDisk
  <2>2. ~open => \A b \in Buffers : ~OnDisk(b)
    BY <1>1 DEF Shut
  <2>. QED
    BY <2>1, <2>2 DEF NothingLeft
<1>4. RemovalWakesProducer
  BY <1>1 DEF Whole, Woken, RemovalWakesProducer, Full
<1>. QED
  BY <1>2, <1>3, <1>4 DEF RemovalIsWhole

\* Removal accounts for a whole buffer and touches no other: the index of a
\* registered buffer describes its file (_writer, append), a removal whose load
\* had returned leaves nothing (remove, FileStreamsBackend.remove), a closed
\* registry leaves nothing on disk (aclose), and a producer that waited for room
\* in a removed buffer has it.
THEOREM Removal == Spec => []RemovalIsWhole
BY InvWhole, Inductive, PTL

-----------------------------------------------------------------------------
(* Sums over tables, and the elements of a list that are in a set          *)

\* What holds of 0 and of the successor of each number it holds of, holds of all.
LEMMA Naturals ==
    ASSUME NEW G, 0 \in G, \A n \in Nat : n \in G => n + 1 \in G
    PROVE  \A n \in Nat : n \in G
<1> DEFINE R == {ss \in Nat \X Nat : ss[1] < ss[2]}
           B == Nat \ G
<1>1. IsWellFoundedOn(R, Nat)
  BY NatLessThanWellFounded DEF OpToRel
<1>2. \A m, n \in Nat : m < n => <<m, n>> \in R
  OBVIOUS
<1> HIDE DEF R
<1> SUFFICES ASSUME B # {} PROVE FALSE
  OBVIOUS
<1>3. PICK n \in B : \A m \in B : ~(<<m, n>> \in R)
  BY <1>1, WFMin
<1>4. n # 0 /\ n - 1 \in Nat /\ n - 1 < n
  BY <1>3
<1>5. n - 1 \in G
  BY <1>2, <1>3, <1>4
<1>6. (n - 1) + 1 = n /\ (n - 1) + 1 \in G
  BY <1>4, <1>5
<1>. QED
  BY <1>3, <1>6

\* The recursion of MapThenFoldSet, for the sum of the entries of f.
One(s) == CHOOSE x \in s : TRUE
Adding(f, g, s) == IF s = {} THEN 0 ELSE f[One(s)] + g[s \ {One(s)}]
Adds(f, g) == g = [s \in SUBSET DOMAIN f |-> Adding(f, g, s)]

LEMMA OneOf == ASSUME NEW s, s # {} PROVE One(s) \in s
  BY DEF One

\* A finite set without one of its elements is smaller by one.
LEMMA LessOne ==
    ASSUME NEW s, IsFiniteSet(s), NEW x \in s
    PROVE  /\ IsFiniteSet(s \ {x}) /\ Cardinality(s) \in Nat /\ Cardinality(s \ {x}) \in Nat
           /\ Cardinality(s) = Cardinality(s \ {x}) + 1
<1>1. Cardinality(s) \in Nat /\ IsFiniteSet(s \ {x})
  BY FS_RemoveElement, FS_CardinalityType
<1>2. Cardinality(s \ {x}) \in Nat /\ Cardinality(s \ {x}) = Cardinality(s) - 1
  BY <1>1, FS_RemoveElement, FS_CardinalityType
<1>. QED
  BY <1>1, <1>2

\* There is a function that adds up, one entry after the other.
LEMMA AddsExist == ASSUME NEW f, IsFiniteSet(DOMAIN f) PROVE \E g : Adds(f, g)
<1> DEFINE Small(n) == {s \in SUBSET DOMAIN f : Cardinality(s) < n}
           Upto(n, g) == g = [s \in Small(n) |-> Adding(f, g, s)]
           G == {n \in Nat : \E g : Upto(n, g)}
<1>0. \A s \in SUBSET DOMAIN f : IsFiniteSet(s) /\ Cardinality(s) \in Nat
  BY FS_Subset, FS_CardinalityType
<1>1. 0 \in G
  <2>1. Small(0) = {}
    BY <1>0
  <2>2. Upto(0, [s \in {} |-> s])
    BY <2>1
  <2>. QED
    BY <2>2
<1>2. ASSUME NEW n \in Nat, n \in G PROVE n + 1 \in G
  <2>1. PICK g : Upto(n, g)
    BY <1>2
  <2> DEFINE h == [s \in Small(n + 1) |-> Adding(f, g, s)]
  <2>2. ASSUME NEW s \in Small(n + 1) PROVE Adding(f, g, s) = Adding(f, h, s)
    <3>1. CASE s = {}
      BY <3>1 DEF Adding
    <3>2. CASE s # {}
      <4>1. s \ {One(s)} \in Small(n)
        BY <1>0, <3>2, OneOf, LessOne
      <4>2. s \ {One(s)} \in Small(n + 1)
        BY <1>0, <4>1
      <4>3. g[s \ {One(s)}] = Adding(f, g, s \ {One(s)})
        BY <2>1, <4>1
      <4>4. h[s \ {One(s)}] = g[s \ {One(s)}]
        BY <4>2, <4>3
      <4>. QED
        BY <3>2, <4>4 DEF Adding
    <3>. QED
      BY <3>1, <3>2
  <2>3. Upto(n + 1, h)
    BY <2>2
  <2> HIDE DEF h
  <2>4. n + 1 \in Nat /\ \E e : Upto(n + 1, e)
    BY <2>3
  <2>. QED
    BY <2>4
<1> HIDE DEF G
<1>3. \A n \in Nat : n \in G
  BY <1>1, <1>2, Naturals
<1> DEFINE c == Cardinality(DOMAIN f) + 1
<1>4. c \in Nat
  BY FS_CardinalityType
<1>5. PICK g : Upto(c, g)
  BY <1>3, <1>4 DEF G
<1>6. Small(c) = SUBSET DOMAIN f
  <2>1. \A s \in SUBSET DOMAIN f : Cardinality(s) <= Cardinality(DOMAIN f)
    BY FS_Subset
  <2>2. Cardinality(DOMAIN f) \in Nat
    BY FS_CardinalityType
  <2>. QED
    BY <1>0, <2>1, <2>2
<1>. QED
  BY <1>5, <1>6 DEF Adds

\* So the sum of a finite table is what such a function says of all its entries.
LEMMA SumAdds ==
    ASSUME NEW f, IsFiniteSet(DOMAIN f)
    PROVE  \E g : Adds(f, g) /\ Sum(f) = g[DOMAIN f]
<1>1. Sum(f) = (CHOOSE g : Adds(f, g))[DOMAIN f]
  BY DEF Sum, FoldFunction, FoldFunctionOnSet, MapThenFoldSet, Adds, Adding, One
<1>. QED
  BY <1>1, AddsExist

\* Adding counts, and any entry may be taken off first.
LEMMA AnyFirst ==
    ASSUME NEW f, IsFiniteSet(DOMAIN f), \A b \in DOMAIN f : f[b] \in Nat, NEW g, Adds(f, g)
    PROVE  \A s \in SUBSET DOMAIN f :
              g[s] \in Nat /\ \A b \in s : g[s] = f[b] + g[s \ {b}]
<1> DEFINE Good(s) == g[s] \in Nat /\ \A b \in s : g[s] = f[b] + g[s \ {b}]
           G == {n \in Nat : \A s \in SUBSET DOMAIN f : Cardinality(s) <= n => Good(s)}
<1>0. \A s \in SUBSET DOMAIN f : IsFiniteSet(s) /\ Cardinality(s) \in Nat /\ g[s] = Adding(f, g, s)
  BY FS_Subset, FS_CardinalityType DEF Adds
<1>1. Good({})
  <2>1. {} \in SUBSET DOMAIN f /\ Adding(f, g, {}) = 0
    BY DEF Adding
  <2>2. g[{}] = 0
    BY <1>0, <2>1
  <2>. QED
    BY <2>2
<1>2. 0 \in G
  <2>1. ASSUME NEW s \in SUBSET DOMAIN f, Cardinality(s) <= 0 PROVE s = {}
    BY <1>0, <2>1, FS_EmptySet
  <2>. QED
    BY <1>1, <2>1
<1>3. ASSUME NEW n \in Nat, n \in G PROVE n + 1 \in G
  <2>1. ASSUME NEW s \in SUBSET DOMAIN f, Cardinality(s) <= n + 1, s # {} PROVE Good(s)
    <3> DEFINE x == One(s)
    <3>1. x \in s /\ g[s] = f[x] + g[s \ {x}]
      BY <1>0, <2>1, OneOf DEF Adding
    <3> HIDE DEF x
    <3>2. ASSUME NEW t \in SUBSET s, NEW b \in s, b \notin t PROVE Good(t)
      <4>1. Cardinality(s \ {b}) \in Nat /\ Cardinality(s) = Cardinality(s \ {b}) + 1 /\ IsFiniteSet(s \ {b})
        BY <1>0, LessOne
      <4>2. t \in SUBSET (s \ {b})
        BY <3>2
      <4>3. Cardinality(t) <= Cardinality(s \ {b})
        BY <4>1, <4>2, FS_Subset
      <4>4. t \in SUBSET DOMAIN f /\ Cardinality(t) <= n
        BY <1>0, <2>1, <3>2, <4>1, <4>3
      <4> HIDE DEF Good
      <4>. QED
        BY <1>3, <4>4
    <3>3. ASSUME NEW b \in s PROVE g[s \ {b}] \in Nat /\ \A a \in s \ {b} : g[s \ {b}] = f[a] + g[(s \ {b}) \ {a}]
      BY <3>2
    <3>4. \A b \in s : f[b] \in Nat
      BY <2>1
    <3>5. ASSUME NEW b \in s PROVE g[s] = f[b] + g[s \ {b}]
      <4>1. CASE b = x
        BY <3>1, <4>1
      <4>2. CASE b # x
        <5> DEFINE t == (s \ {b}) \ {x}
        <5>1. (s \ {x}) \ {b} = t
          OBVIOUS
        <5>2. g[s \ {x}] = f[b] + g[t] /\ g[s \ {b}] = f[x] + g[t]
          BY <3>1, <3>3, <4>2, <5>1
        <5>3. g[t] \in Nat
          BY <3>2
        <5> HIDE DEF t
        <5>. QED
          BY <3>1, <3>4, <5>2, <5>3
      <4>. QED
        BY <4>1, <4>2
    <3>6. g[s] \in Nat
      <4>1. f[x] \in Nat /\ g[s \ {x}] \in Nat
        BY <3>1, <3>3, <3>4
      <4>. QED
        BY <3>1, <4>1
    <3>. QED
      BY <3>5, <3>6
  <2> HIDE DEF Good
  <2>2. \A s \in SUBSET DOMAIN f : Cardinality(s) <= n + 1 => Good(s)
    BY <1>1, <2>1
  <2>. QED
    BY <2>2
<1>4. \A n \in Nat : n \in G
  <2> HIDE DEF G
  <2>. QED
    BY <1>2, <1>3, Naturals
<1>. QED
  BY <1>0, <1>4

\* Two tables that agree on some keys have the same sum over them.
LEMMA SameSums ==
    ASSUME NEW f, NEW e, IsFiniteSet(DOMAIN f), NEW g, Adds(f, g), NEW h, Adds(e, h),
           NEW S \in SUBSET (DOMAIN f \cap DOMAIN e), \A b \in S : f[b] = e[b]
    PROVE  g[S] = h[S]
<1> DEFINE G == {n \in Nat : \A s \in SUBSET S : Cardinality(s) <= n => g[s] = h[s]}
<1>0. \A s \in SUBSET S : /\ IsFiniteSet(s) /\ Cardinality(s) \in Nat
                          /\ g[s] = Adding(f, g, s) /\ h[s] = Adding(e, h, s)
  <2>1. \A s \in SUBSET S : s \in SUBSET DOMAIN f /\ s \in SUBSET DOMAIN e
    OBVIOUS
  <2>. QED
    BY <2>1, FS_Subset, FS_CardinalityType DEF Adds
<1>1. g[{}] = h[{}]
  BY <1>0 DEF Adding
<1>2. 0 \in G
  <2>1. ASSUME NEW s \in SUBSET S, Cardinality(s) <= 0 PROVE s = {}
    BY <1>0, <2>1, FS_EmptySet
  <2>. QED
    BY <1>1, <2>1
<1>3. ASSUME NEW n \in Nat, n \in G PROVE n + 1 \in G
  <2>1. ASSUME NEW s \in SUBSET S, Cardinality(s) <= n + 1, s # {} PROVE g[s] = h[s]
    <3> DEFINE x == One(s)
    <3>1. x \in s /\ g[s] = f[x] + g[s \ {x}] /\ h[s] = e[x] + h[s \ {x}]
      BY <1>0, <2>1, OneOf DEF Adding
    <3> HIDE DEF x
    <3>2. Cardinality(s \ {x}) \in Nat /\ Cardinality(s) = Cardinality(s \ {x}) + 1
      BY <1>0, <3>1, LessOne
    <3>3. g[s \ {x}] = h[s \ {x}]
      BY <1>3, <2>1, <3>2
    <3>. QED
      BY <3>1, <3>3
  <2>. QED
    BY <1>1, <2>1
<1>4. \A n \in Nat : n \in G
  <2> HIDE DEF G
  <2>. QED
    BY <1>2, <1>3, Naturals
<1>. QED
  BY <1>0, <1>4

\* A table of counts without one of its entries counts for that much less.
LEMMA SumWithout ==
    ASSUME NEW f, IsFiniteSet(DOMAIN f), \A b \in DOMAIN f : f[b] \in Nat
    PROVE  Sum(f) \in Nat /\ \A b \in DOMAIN f : Sum(f) = f[b] + Sum(Without(f, b))
<1>1. PICK g : Adds(f, g) /\ Sum(f) = g[DOMAIN f]
  BY SumAdds
<1>2. Sum(f) \in Nat /\ \A b \in DOMAIN f : Sum(f) = f[b] + g[DOMAIN f \ {b}]
  <2>1. \A s \in SUBSET DOMAIN f : g[s] \in Nat /\ \A b \in s : g[s] = f[b] + g[s \ {b}]
    BY <1>1, AnyFirst
  <2>. QED
    BY <1>1, <2>1
<1>3. ASSUME NEW b \in DOMAIN f PROVE Sum(Without(f, b)) = g[DOMAIN f \ {b}]
  <2> DEFINE e == Without(f, b)
  <2>1. DOMAIN e = DOMAIN f \ {b} /\ \A a \in DOMAIN e : e[a] = f[a]
    BY DEF Without
  <2> HIDE DEF e
  <2>2. IsFiniteSet(DOMAIN e)
    BY <2>1, FS_Subset
  <2>3. PICK h : Adds(e, h) /\ Sum(e) = h[DOMAIN e]
    BY <2>2, SumAdds
  <2>4. g[DOMAIN e] = h[DOMAIN e]
    BY <1>1, <2>1, <2>3, SameSums
  <2>. QED
    BY <2>1, <2>3, <2>4 DEF e
<1>. QED
  BY <1>2, <1>3

\* The recursion of Among.
Keeping(s, S, g, n) == IF n = 0 THEN <<>> ELSE IF s[n] \in S THEN Append(g[n - 1], s[n]) ELSE g[n - 1]

LEMMA KeepingExists ==
    ASSUME NEW s, Len(s) \in Nat, NEW S
    PROVE  \E g : g = [n \in 0..Len(s) |-> Keeping(s, S, g, n)]
<1> DEFINE G == {k \in Nat : \E g : g = [n \in 0..k |-> Keeping(s, S, g, n)]}
<1>1. 0 \in G
  <2>1. [n \in 0..0 |-> <<>>] = [n \in 0..0 |-> Keeping(s, S, [m \in 0..0 |-> <<>>], n)]
    BY DEF Keeping
  <2>. QED
    BY <2>1
<1>2. ASSUME NEW k \in Nat, k \in G PROVE k + 1 \in G
  <2>1. PICK g : g = [n \in 0..k |-> Keeping(s, S, g, n)]
    BY <1>2
  <2> DEFINE h == [n \in 0..(k + 1) |-> Keeping(s, S, g, n)]
  <2>2. ASSUME NEW n \in 0..(k + 1) PROVE Keeping(s, S, g, n) = Keeping(s, S, h, n)
    <3>1. CASE n = 0
      BY <3>1 DEF Keeping
    <3>2. CASE n # 0
      <4>1. n - 1 \in 0..k /\ n - 1 \in 0..(k + 1)
        BY <3>2
      <4>2. g[n - 1] = Keeping(s, S, g, n - 1)
        BY <2>1, <4>1
      <4>3. h[n - 1] = g[n - 1]
        BY <4>1, <4>2
      <4> HIDE DEF h
      <4>. QED
        BY <3>2, <4>3 DEF Keeping
    <3>. QED
      BY <3>1, <3>2
  <2>3. h = [n \in 0..(k + 1) |-> Keeping(s, S, h, n)]
    BY <2>2
  <2> HIDE DEF h
  <2>4. k + 1 \in Nat /\ \E e : e = [n \in 0..(k + 1) |-> Keeping(s, S, e, n)]
    BY <2>3
  <2>. QED
    BY <2>4
<1> HIDE DEF G
<1>3. \A k \in Nat : k \in G
  BY <1>1, <1>2, Naturals
<1>. QED
  BY <1>3 DEF G

Distinct(s) == \A i, j \in 1..Len(s) : s[i] = s[j] => i = j

\* What is kept of a list is in the set and in the list, and as often as there.
LEMMA AmongKeeps ==
    ASSUME NEW T, NEW s \in Seq(T), NEW S
    PROVE  /\ Among(s, S) \in Seq(T)
           /\ \A i \in 1..Len(Among(s, S)) : Among(s, S)[i] \in S /\ \E j \in 1..Len(s) : Among(s, S)[i] = s[j]
           /\ Distinct(s) => Distinct(Among(s, S))
<1> DEFINE g == CHOOSE g : g = [n \in 0..Len(s) |-> Keeping(s, S, g, n)]
<1>0. Len(s) \in Nat
  OBVIOUS
<1>1. g = [n \in 0..Len(s) |-> Keeping(s, S, g, n)]
  BY <1>0, KeepingExists
<1>2. Among(s, S) = g[Len(s)]
  BY DEF Among, Keeping
<1> HIDE DEF g
<1> DEFINE Good(n) == /\ g[n] \in Seq(T)
                      /\ \A i \in 1..Len(g[n]) : g[n][i] \in S /\ \E j \in 1..n : g[n][i] = s[j]
                      /\ Distinct(s) => Distinct(g[n])
           G == {n \in Nat : n <= Len(s) => Good(n)}
<1>3. 0 \in G
  <2>1. g[0] = <<>>
    BY <1>0, <1>1 DEF Keeping
  <2>2. g[0] \in Seq(T) /\ 1..Len(g[0]) = {}
    BY <2>1
  <2>3. Good(0)
    BY <2>2 DEF Distinct
  <2>. QED
    BY <2>3
<1>4. ASSUME NEW n \in Nat, n \in G PROVE n + 1 \in G
  <2> SUFFICES ASSUME n + 1 <= Len(s) PROVE Good(n + 1)
    OBVIOUS
  <2> DEFINE m == n + 1
             x == s[m]
             o == g[n]
  <2>1. m \in 1..Len(s) /\ m - 1 = n /\ m \in 0..Len(s) /\ n \in 0..Len(s) /\ m # 0
    BY <1>0
  <2>2. x \in T
    BY <2>1
  <2>3. Good(n)
    BY <1>0, <1>4
  <2>4. g[m] = IF x \in S THEN Append(o, x) ELSE o
    BY <1>1, <2>1 DEF Keeping
  <2>5. CASE x \notin S
    <3>1. g[m] = g[n]
      BY <2>4, <2>5
    <3>2. \A i \in 1..Len(g[n]) : \E j \in 1..m : g[n][i] = s[j]
      BY <2>1, <2>3
    <3>. QED
      BY <2>3, <3>1, <3>2
  <2>6. CASE x \in S
    <3>1. o \in Seq(T) /\ g[m] = Append(o, x)
      BY <2>3, <2>4, <2>6
    <3>2. /\ g[m] \in Seq(T) /\ Len(g[m]) = Len(o) + 1 /\ g[m][Len(o) + 1] = x
          /\ \A i \in 1..Len(o) : g[m][i] = o[i]
      BY <2>2, <3>1
    <3>3. Len(o) \in Nat
      BY <3>1
    <3>4. ASSUME NEW i \in 1..Len(g[m])
          PROVE  g[m][i] \in S /\ \E j \in 1..m : g[m][i] = s[j]
      <4>1. CASE i = Len(o) + 1
        BY <2>1, <2>6, <3>2, <4>1
      <4>2. CASE i \in 1..Len(o)
        <5>1. PICK j \in 1..n : o[i] = s[j]
          BY <2>3, <4>2
        <5>2. j \in 1..m
          OBVIOUS
        <5>. QED
          BY <2>3, <3>2, <4>2, <5>1, <5>2
      <4>. QED
        BY <3>2, <3>3, <4>1, <4>2
    <3>5. ASSUME Distinct(s) PROVE Distinct(g[m])
      <4>1. ASSUME NEW i \in 1..Len(o) PROVE o[i] # x
        <5>1. PICK j \in 1..n : o[i] = s[j]
          BY <2>3
        <5>2. j \in 1..Len(s) /\ j # m
          BY <2>1
        <5>. QED
          BY <2>1, <3>5, <5>1, <5>2 DEF Distinct
      <4>2. ASSUME NEW i \in 1..Len(g[m]), NEW j \in 1..Len(g[m]), g[m][i] = g[m][j] PROVE i = j
        <5>1. (i = Len(o) + 1 \/ i \in 1..Len(o)) /\ (j = Len(o) + 1 \/ j \in 1..Len(o))
          BY <3>2, <3>3
        <5>2. CASE i \in 1..Len(o) /\ j \in 1..Len(o)
          <6>1. o[i] = o[j]
            BY <3>2, <4>2, <5>2
          <6>. QED
            BY <2>3, <3>5, <5>2, <6>1 DEF Distinct
        <5>3. CASE i \in 1..Len(o) /\ j = Len(o) + 1
          BY <3>2, <4>1, <4>2, <5>3
        <5>4. CASE i = Len(o) + 1 /\ j \in 1..Len(o)
          BY <3>2, <4>1, <4>2, <5>4
        <5>. QED
          BY <5>1, <5>2, <5>3, <5>4
      <4>. QED
        BY <4>2 DEF Distinct
    <3>. QED
      BY <3>2, <3>4, <3>5
  <2>. QED
    BY <2>5, <2>6
<1>5. \A n \in Nat : n \in G
  <2> HIDE DEF G
  <2>. QED
    BY <1>3, <1>4, Naturals
<1>6. Good(Len(s))
  BY <1>0, <1>5
<1>. QED
  BY <1>2, <1>6

-----------------------------------------------------------------------------
(* The budget of a pass *)

\* What is done has its StopEvent in the buffer: its load opens no file again.
Stopped == \A b \in done : prod[b] = "finished" \/ (prod[b] = "source" /\ last[b])

\* The pool lists each buffer once.
Ordered ==
    /\ order \in Seq(Buffers) /\ Distinct(order)
    /\ \A i \in 1..Len(order) : status[order[i]] # "new"

\* The one that a pass is removing comes first in what it has to do; it keeps its
\* count until its file is unlinked, though its index goes before.
Underway(i) == i = 1 /\ sweep.pc # "next"
Owed == IF sweep.pc = "unlinking" THEN Counted(sweep.todo[1]) ELSE 0

\* A pass for the budget lists done buffers of the pool, each once, and owns what
\* it has counted: the total it keeps is never below the logs of it that are left.
Budget ==
    sweep.by = "disk" =>
        /\ sweep.pc # "asleep" /\ (sweep.pc # "next" => sweep.todo # <<>>)
        /\ sweep.todo \in Seq(done) /\ Distinct(sweep.todo)
        /\ \A i \in 1..Len(sweep.todo) :
              /\ Underway(i) \/ status[sweep.todo[i]] = "in"
              /\ sweep.todo[i] \in DOMAIN sweep.usage \ DOMAIN index => i = 1 /\ sweep.pc = "unlinking"
        /\ sweep.pc = "unlinking" => sweep.todo[1] \notin DOMAIN index
        /\ IsFiniteSet(DOMAIN sweep.usage)
        /\ \A b \in DOMAIN sweep.usage : sweep.usage[b] \in Nat /\ (b \in DOMAIN index \/ b \in done)
        /\ sweep.total \in Int /\ Sum(Kept) <= sweep.total - Owed

Pass == Stopped /\ Ordered /\ IsFiniteSet(DOMAIN index) /\ Budget

\* What holds of the buffers that are done, after a step of a buffer.
LEMMA BufferStops ==
    ASSUME NEW b \in Buffers, Inv, Stopped,
           Create(b) \/ Reject(b) \/ Start(b) \/ Load(b) \/ Drain(b)
    PROVE  /\ Stopped' /\ done \subseteq done'
           /\ \A x \in done : status'[x] = status[x]
<1> USE DEF producer, disk
<1>1. Typed /\ Fresh(b) /\ (b \in done => prod[b] = "finished" \/ (prod[b] = "source" /\ last[b]))
  BY DEF Inv, Whole, Stopped
<1>2. CASE b \notin done /\ done' = done
  <2>1. \A x \in Buffers \ {b} : prod'[x] = prod[x] /\ status'[x] = status[x]
    BY <1>1, OthersKept DEF SameAt
  <2>2. \A x \in Buffers \ {b} : last'[x] = last[x]
    BY <1>1 DEF Create, Reject, Start, Load, Emit, Raise, Exhausted, OpenLog, WriteLine, WriteFails,
           Indexed, AppendRaises, Appending, Unblock, Drain, Admit, Typed
  <2>. QED
    BY <1>1, <1>2, <2>1, <2>2 DEF Stopped, Typed
<1>3. CASE b \in done
  <2>1. Exhausted(b) \/ Drain(b)
    BY <1>1, <1>3 DEF Create, Reject, Start, Load, Emit, Raise, OpenLog, WriteLine, WriteFails,
           Indexed, AppendRaises, Unblock, Fresh
  <2>. QED
    BY <1>1, <2>1 DEF Exhausted, Drain, Stopped, Typed
<1>4. CASE b \notin done /\ done' # done
  <2>1. Admit(b) /\ UNCHANGED <<status, last>>
    BY <1>4 DEF Create, Reject, Start, Load, Emit, Raise, Exhausted, OpenLog, WriteLine, WriteFails,
           Indexed, AppendRaises, Unblock, Drain
  <2>2. done' = done \cup {b} /\ last[b]
    BY <1>4, <2>1 DEF Admit
  <2>3. \A x \in Buffers \ {b} : prod'[x] = prod[x]
    BY <1>1, OthersKept DEF SameAt
  <2>4. prod'[b] \in {"finished", "source"}
    BY <1>1, <2>1 DEF Admit, Typed
  <2>. QED
    BY <1>1, <2>1, <2>2, <2>3, <2>4 DEF Stopped, Typed
<1>. QED
  BY <1>2, <1>3, <1>4

\* An element that a list does not have may be put at its end.
LEMMA DistinctAppend ==
    ASSUME NEW T, NEW s \in Seq(T), NEW x \in T, Distinct(s), \A i \in 1..Len(s) : s[i] # x
    PROVE  Distinct(Append(s, x)) /\ \A i \in 1..Len(Append(s, x)) : Append(s, x)[i] = x \/ \E j \in 1..Len(s) : Append(s, x)[i] = s[j]
<1> DEFINE t == Append(s, x)
<1>1. /\ Len(t) = Len(s) + 1 /\ Len(s) \in Nat /\ t[Len(s) + 1] = x
      /\ \A i \in 1..Len(s) : t[i] = s[i]
  OBVIOUS
<1> HIDE DEF t
<1>2. \A i \in 1..Len(t) : i = Len(s) + 1 \/ i \in 1..Len(s)
  BY <1>1
<1>3. Distinct(t)
  BY <1>1, <1>2 DEF Distinct
<1>. QED
  BY <1>1, <1>2, <1>3 DEF t

\* The pool lists each buffer once, and no other action lists one.
LEMMA BufferOrdered ==
    ASSUME NEW b \in Buffers, Inv, Ordered,
           Create(b) \/ Reject(b) \/ Start(b) \/ Load(b) \/ Drain(b)
    PROVE  Ordered'
<1> USE DEF producer, disk
<1>1. Typed /\ Fresh(b)
  BY DEF Inv, Whole
<1>2. /\ \A x \in Buffers : status[x] # "new" => status'[x] # "new"
      /\ ~Create(b) => \A x \in Buffers : status'[x] # "new" <=> status[x] # "new"
  BY <1>1 DEF Create, Reject, Start, Load, Emit, Raise, Exhausted, OpenLog, WriteLine, WriteFails,
           Indexed, AppendRaises, Unblock, Drain, Typed
<1>3. /\ order \in Seq(Buffers) /\ Distinct(order) /\ \A i \in 1..Len(order) : order[i] \in Buffers
      /\ \A i \in 1..Len(order) : status[order[i]] # "new"
  BY DEF Ordered
<1>4. CASE order' = order
  BY <1>2, <1>3, <1>4 DEF Ordered
<1>5. CASE Create(b)
  <2>1. order' = Append(order, b) /\ status[b] = "new" /\ status'[b] = "in"
    BY <1>1, <1>5 DEF Create, Typed
  <2>2. \A i \in 1..Len(order) : order[i] # b
    BY <1>3, <2>1
  <2>3. /\ order' \in Seq(Buffers) /\ Distinct(order')
        /\ \A i \in 1..Len(order') : order'[i] = b \/ \E j \in 1..Len(order) : order'[i] = order[j]
    BY <1>3, <2>1, <2>2, DistinctAppend
  <2>. QED
    BY <1>2, <1>3, <2>1, <2>3 DEF Ordered
<1>6. CASE order' # order /\ ~Create(b)
  <2>1. Admit(b) /\ status' = status /\ prod[b] \in {"written", "blocked"}
    BY <1>6 DEF Reject, Start, Load, Emit, Raise, Exhausted, OpenLog, WriteLine, WriteFails,
           Indexed, AppendRaises, Unblock, Drain
  <2> DEFINE S == Buffers \ {b}
             s == Among(order, S)
  <2>2. order' = Append(s, b)
    BY <2>1 DEF Admit
  <2>3. /\ s \in Seq(Buffers) /\ Distinct(s)
        /\ \A i \in 1..Len(s) : s[i] # b /\ \E j \in 1..Len(order) : s[i] = order[j]
    <3>1. order \in Seq(Buffers)
      BY <1>3
    <3> HIDE DEF S
    <3>2. /\ s \in Seq(Buffers) /\ (Distinct(order) => Distinct(s))
          /\ \A i \in 1..Len(s) : s[i] \in S /\ \E j \in 1..Len(order) : s[i] = order[j]
      BY <3>1, AmongKeeps
    <3> HIDE DEF s
    <3>3. \A x \in S : x # b
      BY DEF S
    <3>. QED
      BY <1>3, <3>2, <3>3
  <2> HIDE DEF s
  <2>4. /\ order' \in Seq(Buffers) /\ Distinct(order')
        /\ \A i \in 1..Len(order') : order'[i] = b \/ \E j \in 1..Len(s) : order'[i] = s[j]
    BY <2>2, <2>3, DistinctAppend
  <2>5. status[b] # "new"
    BY <1>1, <2>1 DEF Fresh
  <2>6. ASSUME NEW i \in 1..Len(order') PROVE status[order'[i]] # "new"
    <3>1. CASE order'[i] = b
      BY <2>5, <3>1
    <3>2. CASE order'[i] # b
      <4>1. PICK j \in 1..Len(s) : order'[i] = s[j]
        BY <2>4, <3>2
      <4>2. PICK k \in 1..Len(order) : s[j] = order[k]
        BY <2>3
      <4>. QED
        BY <1>3, <4>1, <4>2
    <3>. QED
      BY <3>1, <3>2
  <2>. QED
    BY <2>1, <2>4, <2>6 DEF Ordered
<1>. QED
  BY <1>4, <1>5, <1>6

\* Only the open of a file adds to the index, which it does for a buffer that is
\* not done.
LEMMA BufferIndexed ==
    ASSUME NEW b \in Buffers, Inv, Stopped,
           Create(b) \/ Reject(b) \/ Start(b) \/ Load(b) \/ Drain(b)
    PROVE  DOMAIN index' = DOMAIN index \/ (b \notin done /\ DOMAIN index' = DOMAIN index \cup {b})
<1> USE DEF producer, disk
<1>1. CASE OpenLog(b)
  <2>1. b \notin done
    BY <1>1 DEF OpenLog, Stopped
  <2>. QED
    BY <1>1, <2>1 DEF OpenLog, With
<1>2. CASE ~OpenLog(b)
  BY <1>2 DEF Create, Reject, Start, Load, Emit, Raise, Exhausted, WriteLine, WriteFails,
           Indexed, AppendRaises, Unblock, Drain
<1>. QED
  BY <1>1, <1>2

\* So a pass finds what it has to do as it was.
LEMMA BufferPass ==
    ASSUME NEW b \in Buffers, Inv, Pass,
           Create(b) \/ Reject(b) \/ Start(b) \/ Load(b) \/ Drain(b)
    PROVE  Pass'
<1>1. Stopped' /\ done \subseteq done' /\ \A x \in done : status'[x] = status[x]
  BY BufferStops DEF Pass
<1>2. Ordered'
  BY BufferOrdered DEF Pass
<1>3. DOMAIN index' = DOMAIN index \/ (b \notin done /\ DOMAIN index' = DOMAIN index \cup {b})
  BY BufferIndexed DEF Pass
<1>4. IsFiniteSet(DOMAIN index')
  BY <1>3, FS_AddElement DEF Pass
<1>5. sweep' = sweep
  BY OthersKept DEF Inv
<1>6. Budget'
  <2> SUFFICES ASSUME sweep.by = "disk" PROVE Budget'
    BY <1>5 DEF Budget
  <2>1. Budget
    BY DEF Pass
  <2>2. sweep.todo \in Seq(done) /\ sweep.todo \in Seq(done')
    BY <1>1, <2>1 DEF Budget
  <2>3. \A x \in DOMAIN sweep.usage : x \in DOMAIN index' <=> x \in DOMAIN index
    BY <1>3, <2>1 DEF Budget
  <2>4. Kept' = Kept
    <3>1. DOMAIN sweep'.usage \cap DOMAIN index' = DOMAIN sweep.usage \cap DOMAIN index
      BY <1>5, <2>3
    <3>. QED
      BY <1>5, <3>1 DEF Kept
  <2>5. Sum(Kept)' = Sum(Kept) /\ Owed' = Owed
    <3>1. Sum(Kept)' = Sum(Kept)
      BY <2>4
    <3>. QED
      BY <1>5, <3>1 DEF Owed, Counted
  <2>6. ASSUME NEW i \in 1..Len(sweep.todo)
        PROVE  /\ sweep.todo[i] \in done
               /\ Underway(i) \/ status'[sweep.todo[i]] = "in"
               /\ sweep.todo[i] \in DOMAIN sweep.usage \ DOMAIN index' => i = 1 /\ sweep.pc = "unlinking"
    <3>1. sweep.todo[i] \in done
      BY <2>2
    <3>. QED
      BY <1>1, <2>1, <2>3, <3>1 DEF Budget
  <2>7. sweep.pc = "unlinking" => sweep.todo[1] \notin DOMAIN index'
    <3> SUFFICES ASSUME sweep.pc = "unlinking" PROVE sweep.todo[1] \notin DOMAIN index'
      OBVIOUS
    <3>1. sweep.todo # <<>> /\ sweep.todo[1] \notin DOMAIN index
      BY <2>1 DEF Budget
    <3>2. sweep.todo[1] \in done
      BY <2>2, <3>1
    <3>. QED
      BY <1>3, <3>1, <3>2
  <2>. QED
    BY <1>1, <1>5, <2>1, <2>2, <2>3, <2>5, <2>6, <2>7 DEF Budget, Underway
<1>. QED
  BY <1>1, <1>2, <1>4, <1>6 DEF Pass

-----------------------------------------------------------------------------
(* What the sweep does to its own pass *)

\* What the pass still counts is a number, and it is less by what an index that
\* goes accounts for.
LEMMA KeptLess ==
    ASSUME Budget, sweep.by = "disk", NEW h, index' = Without(index, h), sweep'.usage = sweep.usage
    PROVE  /\ Sum(Kept) \in Nat /\ Sum(Kept') \in Nat
           /\ h \in DOMAIN sweep.usage /\ h \in DOMAIN index => Sum(Kept) = sweep.usage[h] + Sum(Kept')
           /\ ~(h \in DOMAIN sweep.usage /\ h \in DOMAIN index) => Sum(Kept') = Sum(Kept)
<1>1. IsFiniteSet(DOMAIN sweep.usage) /\ \A b \in DOMAIN sweep.usage : sweep.usage[b] \in Nat
  BY DEF Budget
<1>2. /\ DOMAIN Kept = DOMAIN sweep.usage \cap DOMAIN index
      /\ \A b \in DOMAIN Kept : Kept[b] = sweep.usage[b]
      /\ Kept = [b \in DOMAIN sweep.usage \cap DOMAIN index |-> sweep.usage[b]]
  BY DEF Kept
<1>3. IsFiniteSet(DOMAIN Kept) /\ \A b \in DOMAIN Kept : Kept[b] \in Nat
  BY <1>1, <1>2, FS_Subset
<1>4. DOMAIN index' = DOMAIN index \ {h}
  BY DEF Without
<1>5. Kept' = [b \in (DOMAIN sweep.usage \cap DOMAIN index) \ {h} |-> sweep.usage[b]]
  <2>1. DOMAIN sweep.usage \cap (DOMAIN index \ {h}) = (DOMAIN sweep.usage \cap DOMAIN index) \ {h}
    OBVIOUS
  <2>2. Kept' = [b \in DOMAIN sweep.usage \cap (DOMAIN index \ {h}) |-> sweep.usage[b]]
    BY <1>4 DEF Kept
  <2>. QED
    BY <2>1, <2>2
<1>6. Kept' = Without(Kept, h)
  BY <1>2, <1>5 DEF Without
<1>7. Sum(Kept) \in Nat /\ \A b \in DOMAIN Kept : Sum(Kept) = Kept[b] + Sum(Without(Kept, b))
  BY <1>3, SumWithout
<1>8. Sum(Kept') \in Nat
  <2>1. DOMAIN Kept' \subseteq DOMAIN Kept /\ \A b \in DOMAIN Kept' : Kept'[b] \in Nat
    BY <1>1, <1>2, <1>5
  <2>2. IsFiniteSet(DOMAIN Kept')
    BY <1>3, <2>1, FS_Subset
  <2>. QED
    BY <2>1, <2>2, SumWithout
<1>9. h \in DOMAIN sweep.usage /\ h \in DOMAIN index => Sum(Kept) = sweep.usage[h] + Sum(Kept')
  BY <1>2, <1>6, <1>7
<1>10. ~(h \in DOMAIN sweep.usage /\ h \in DOMAIN index) => Kept' = Kept
  <2>1. ~(h \in DOMAIN sweep.usage /\ h \in DOMAIN index) =>
          (DOMAIN sweep.usage \cap DOMAIN index) \ {h} = DOMAIN sweep.usage \cap DOMAIN index
    OBVIOUS
  <2>. QED
    BY <1>2, <1>5, <2>1
<1>. QED
  BY <1>7, <1>8, <1>9, <1>10

\* The index of the one being removed goes: the pass owes its count until the
\* file is unlinked.
LEMMA IndexDropped ==
    ASSUME Typed, Budget, sweep.by = "disk", sweep.pc \in {"next", "closing"}, sweep.todo # <<>>,
           sweep' = [sweep EXCEPT !.pc = "unlinking"], index' = Without(index, Head(sweep.todo)),
           done' = done, \A x \in Buffers \ {Head(sweep.todo)} : status'[x] = status[x]
    PROVE  Budget'
<1> DEFINE h == Head(sweep.todo)
<1>1. /\ sweep'.by = "disk" /\ sweep'.pc = "unlinking" /\ sweep'.todo = sweep.todo
      /\ sweep'.total = sweep.total /\ sweep'.usage = sweep.usage
  BY DEF Typed
<1>2. /\ sweep.todo \in Seq(done) /\ Distinct(sweep.todo)
      /\ \A i \in 1..Len(sweep.todo) : Underway(i) \/ status[sweep.todo[i]] = "in"
      /\ \A i \in 1..Len(sweep.todo) : sweep.todo[i] \notin DOMAIN sweep.usage \ DOMAIN index
      /\ IsFiniteSet(DOMAIN sweep.usage)
      /\ \A b \in DOMAIN sweep.usage : sweep.usage[b] \in Nat /\ (b \in DOMAIN index \/ b \in done)
      /\ sweep.total \in Int /\ Sum(Kept) <= sweep.total
  BY DEF Budget, Owed
<1>3. /\ Len(sweep.todo) \in Nat /\ 1 \in 1..Len(sweep.todo) /\ h = sweep.todo[1]
      /\ \A i \in 1..Len(sweep.todo) : sweep.todo[i] \in done
  BY <1>2
<1>4. \A i \in 1..Len(sweep.todo) : i # 1 => sweep.todo[i] \in Buffers \ {h}
  <2>1. Distinct(sweep.todo) /\ done \subseteq Buffers
    BY <1>2 DEF Typed
  <2>. QED
    BY <1>3, <2>1 DEF Distinct
<1>5. DOMAIN index' = DOMAIN index \ {h}
  BY DEF Without
<1>6. /\ Sum(Kept) \in Nat /\ Sum(Kept') \in Nat
      /\ h \in DOMAIN sweep.usage /\ h \in DOMAIN index => Sum(Kept) = sweep.usage[h] + Sum(Kept')
      /\ ~(h \in DOMAIN sweep.usage /\ h \in DOMAIN index) => Sum(Kept') = Sum(Kept)
  BY <1>1, KeptLess
<1>7. Sum(Kept)' <= sweep.total - Owed'
  <2>1. Owed' = IF h \in DOMAIN sweep.usage THEN sweep.usage[h] ELSE 0
    BY <1>1, <1>3 DEF Owed, Counted
  <2>2. h \in DOMAIN sweep.usage => h \in DOMAIN index
    BY <1>2, <1>3
  <2>3. CASE h \in DOMAIN sweep.usage
    <3>1. sweep.usage[h] \in Nat /\ Owed' = sweep.usage[h]
      BY <1>2, <2>1, <2>3
    <3>. QED
      BY <1>2, <1>6, <2>2, <2>3, <3>1
  <2>4. CASE h \notin DOMAIN sweep.usage
    BY <1>2, <1>6, <2>1, <2>4
  <2>. QED
    BY <2>3, <2>4
<1>8. ASSUME NEW i \in 1..Len(sweep.todo)
      PROVE  /\ Underway(i)' \/ status'[sweep.todo[i]] = "in"
             /\ sweep.todo[i] \in DOMAIN sweep.usage \ DOMAIN index' => i = 1
  <2>1. CASE i = 1
    BY <1>1, <2>1 DEF Underway
  <2>2. CASE i # 1
    <3>1. status[sweep.todo[i]] = "in"
      BY <1>2, <2>2 DEF Underway
    <3>. QED
      BY <1>2, <1>4, <1>5, <2>2, <3>1
  <2>. QED
    BY <2>1, <2>2
<1>9. \A b \in DOMAIN sweep.usage : b \in DOMAIN index' \/ b \in done
  BY <1>2, <1>3, <1>5
<1>. QED
  BY <1>1, <1>2, <1>3, <1>5, <1>7, <1>8, <1>9 DEF Budget

\* The sweep neither loads nor lists a buffer, and it makes nothing new.
LEMMA SweepOrdered ==
    ASSUME Typed, Ordered, Stopped, IsFiniteSet(DOMAIN index), Sweep \/ Tick \/ Close
    PROVE  Ordered' /\ Stopped' /\ IsFiniteSet(DOMAIN index')
<1> USE DEF producer, disk
<1>1. UNCHANGED <<order, done, prod, last>>
  BY DEF Sweep, Tick, CountUsage, EndPass, RemoveNext, CloseReturns, UnlinkReturns, UnlinkRaises, Close
<1>2. \A x \in Buffers : status[x] # "new" => status'[x] # "new"
  <2>1. CASE Removing(Head(sweep.todo))
    BY <2>1 DEF Removing, Typed
  <2>2. CASE Close
    BY <2>2 DEF Close
  <2>. QED
    BY <2>1, <2>2 DEF Sweep, Tick, CountUsage, EndPass, RemoveNext, CloseReturns, UnlinkReturns, UnlinkRaises
<1>3. Ordered'
  <2>1. \A i \in 1..Len(order) : order[i] \in Buffers
    BY DEF Ordered
  <2>. QED
    BY <1>1, <1>2, <2>1 DEF Ordered
<1>4. index' = index \/ index' = Without(index, Head(sweep.todo)) \/ index' = <<>>
  BY DEF Sweep, Tick, CountUsage, EndPass, RemoveNext, Removing, CloseReturns, UnlinkReturns, UnlinkRaises, Close
<1>5. DOMAIN index' \subseteq DOMAIN index
  <2>1. DOMAIN Without(index, Head(sweep.todo)) \subseteq DOMAIN index /\ DOMAIN <<>> = {}
    BY DEF Without
  <2>. QED
    BY <1>4, <2>1
<1>. QED
  BY <1>1, <1>3, <1>5, FS_Subset DEF Stopped

\* What a pass counts at its start is what the index has, and what it lists is
\* done and in the pool.
LEMMA CountBudget ==
    ASSUME Typed, Ordered, IsFiniteSet(DOMAIN index), CountUsage
    PROVE  Budget'
<1> USE DEF producer, disk
<1>1. UNCHANGED <<status, order, index, done>> /\ sweep.pc = "next"
  BY DEF CountUsage
<1>2. CASE sweep' = Asleep
  BY <1>2 DEF Asleep, Budget
<1>3. CASE sweep' = [sweep EXCEPT !.by = "disk", !.total = Sum(Usage), !.usage = Usage,
                        !.todo = Among(Registered(order), done)]
  <2> DEFINE In == {b \in Buffers : status[b] = "in"}
             s == Among(order, In)
             t == Among(s, done)
  <2>1. /\ sweep'.by = "disk" /\ sweep'.pc = "next" /\ sweep'.todo = t
        /\ sweep'.total = Sum(Usage) /\ sweep'.usage = Usage
    BY <1>1, <1>3 DEF Typed, Registered
  <2>2. order \in Seq(Buffers) /\ Distinct(order)
    BY DEF Ordered
  <2> HIDE DEF In
  <2>3. s \in Seq(Buffers) /\ Distinct(s) /\ \A i \in 1..Len(s) : s[i] \in In
    BY <2>2, AmongKeeps
  <2> HIDE DEF s
  <2>4. /\ t \in Seq(Buffers) /\ Distinct(t)
        /\ \A i \in 1..Len(t) : t[i] \in done /\ \E j \in 1..Len(s) : t[i] = s[j]
    BY <2>3, AmongKeeps
  <2> HIDE DEF t
  <2>5. t \in Seq(done)
    <3>1. \A i \in 1..Len(t) : t[i] \in done
      BY <2>4
    <3>. QED
      BY <2>4, <3>1
  <2>6. ASSUME NEW i \in 1..Len(t) PROVE status[t[i]] = "in"
    <3>1. t[i] \in In
      BY <2>3, <2>4
    <3>. QED
      BY <3>1 DEF In
  <2>7. /\ DOMAIN Usage = DOMAIN index /\ \A b \in DOMAIN index : Usage[b] \in Nat
        /\ Usage = [b \in DOMAIN index |-> Usage[b]]
    BY DEF Usage, Typed, Table, Logs
  <2>8. Kept' = Usage
    <3>1. Kept' = [b \in DOMAIN Usage \cap DOMAIN index |-> Usage[b]]
      BY <1>1, <2>1 DEF Kept
    <3>2. DOMAIN Usage \cap DOMAIN index = DOMAIN index
      BY <2>7
    <3>. QED
      BY <2>7, <3>1, <3>2
  <2>9. Sum(Usage) \in Nat
    BY <2>7, SumWithout
  <2>10. Sum(Kept)' <= sweep'.total - Owed' /\ sweep'.total \in Int
    <3>1. Sum(Kept)' = Sum(Usage) /\ Owed' = 0
      BY <2>1, <2>8 DEF Owed
    <3>. QED
      BY <2>1, <2>9, <3>1
  <2>. QED
    BY <1>1, <2>1, <2>4, <2>5, <2>6, <2>7, <2>10 DEF Budget
<1>. QED
  BY <1>2, <1>3 DEF CountUsage

\* The next one of the list is in the pool: its removal starts.
LEMMA RemoveBudget ==
    ASSUME Typed, Budget, RemoveNext
    PROVE  Budget'
<1> USE DEF producer, disk
<1> DEFINE h == Head(sweep.todo)
<1>1. sweep'.by = sweep.by
  BY DEF RemoveNext, Removing, Typed
<1> SUFFICES ASSUME sweep.by = "disk" PROVE Budget'
  BY <1>1 DEF Budget
<1>2. sweep.pc = "next" /\ sweep.todo # <<>> /\ done' = done
  BY DEF RemoveNext
<1>3. /\ sweep.todo \in Seq(done) /\ Distinct(sweep.todo)
      /\ \A i \in 1..Len(sweep.todo) : status[sweep.todo[i]] = "in"
  BY <1>2 DEF Budget, Underway
<1>4. /\ Len(sweep.todo) \in Nat /\ 1 \in 1..Len(sweep.todo) /\ h = sweep.todo[1]
      /\ \A i \in 1..Len(sweep.todo) : sweep.todo[i] \in done
  BY <1>2, <1>3
<1>5. Removing(h)
  BY <1>3, <1>4 DEF RemoveNext
<1>6. \A x \in Buffers \ {h} : status'[x] = status[x]
  BY <1>5 DEF Removing, Typed
<1>7. CASE h \notin DOMAIN writers
  BY <1>2, <1>5, <1>6, <1>7, IndexDropped DEF Removing
<1>8. CASE h \in DOMAIN writers
  <2>1. sweep' = [sweep EXCEPT !.pc = "closing"] /\ index' = index
    BY <1>5, <1>8 DEF Removing
  <2>2. /\ sweep'.by = "disk" /\ sweep'.pc = "closing" /\ sweep'.todo = sweep.todo
        /\ sweep'.total = sweep.total /\ sweep'.usage = sweep.usage
    BY <2>1 DEF Typed
  <2>3. Kept' = Kept
    BY <2>1, <2>2 DEF Kept
  <2>4. Sum(Kept)' = Sum(Kept) /\ Owed' = 0 /\ Owed = 0
    BY <1>2, <2>2, <2>3 DEF Owed
  <2>5. \A i \in 1..Len(sweep.todo) : i # 1 => sweep.todo[i] \in Buffers \ {h}
    BY <1>3, <1>4 DEF Distinct, Typed
  <2>6. ASSUME NEW i \in 1..Len(sweep.todo) PROVE Underway(i)' \/ status'[sweep.todo[i]] = "in"
    BY <1>3, <1>6, <2>2, <2>5 DEF Underway
  <2>. QED
    BY <1>2, <2>1, <2>2, <2>4, <2>6 DEF Budget
<1>. QED
  BY <1>7, <1>8

\* The file is unlinked: the pass takes the count off and goes on with the rest.
LEMMA UnlinkBudget ==
    ASSUME Typed, Budget, UnlinkReturns
    PROVE  Budget'
<1> USE DEF producer, disk
<1> DEFINE h == Head(sweep.todo)
           rest == Tail(sweep.todo)
<1>1. /\ sweep'.by = sweep.by /\ sweep'.pc = "next" /\ sweep'.todo = rest
      /\ sweep'.total = sweep.total - Counted(h) /\ sweep'.usage = sweep.usage
      /\ UNCHANGED <<status, index, done>> /\ sweep.pc = "unlinking"
  BY DEF UnlinkReturns, Typed
<1> SUFFICES ASSUME sweep.by = "disk" PROVE Budget'
  BY <1>1 DEF Budget
<1>2. /\ sweep.todo \in Seq(done) /\ Distinct(sweep.todo) /\ sweep.todo # <<>>
      /\ \A i \in 1..Len(sweep.todo) :
            /\ i = 1 \/ status[sweep.todo[i]] = "in"
            /\ i = 1 \/ sweep.todo[i] \notin DOMAIN sweep.usage \ DOMAIN index
      /\ IsFiniteSet(DOMAIN sweep.usage)
      /\ \A b \in DOMAIN sweep.usage : sweep.usage[b] \in Nat /\ (b \in DOMAIN index \/ b \in done)
      /\ sweep.total \in Int /\ Sum(Kept) <= sweep.total - Owed
  BY <1>1 DEF Budget, Underway
<1>3. /\ rest \in Seq(done) /\ Len(rest) = Len(sweep.todo) - 1 /\ Len(rest) \in Nat
      /\ \A i \in 1..Len(rest) : rest[i] = sweep.todo[i + 1] /\ i + 1 \in 1..Len(sweep.todo) /\ i + 1 # 1
      /\ h = sweep.todo[1]
  BY <1>2
<1> HIDE DEF rest
<1>4. Distinct(rest)
  <2>1. ASSUME NEW i \in 1..Len(rest), NEW j \in 1..Len(rest), rest[i] = rest[j] PROVE i = j
    <3>1. i + 1 = j + 1
      BY <1>2, <1>3, <2>1 DEF Distinct
    <3>. QED
      BY <3>1
  <2>. QED
    BY <2>1 DEF Distinct
<1>5. Kept' = Kept
  BY <1>1 DEF Kept
<1>6. Sum(Kept)' = Sum(Kept) /\ Owed' = 0 /\ Owed = Counted(h)
  BY <1>1, <1>3, <1>5 DEF Owed
<1>7. Counted(h) \in Nat
  BY <1>2 DEF Counted
<1>8. Sum(Kept)' <= sweep'.total - Owed' /\ sweep'.total \in Int
  BY <1>1, <1>2, <1>6, <1>7
<1>9. ASSUME NEW i \in 1..Len(rest)
      PROVE  status[rest[i]] = "in" /\ rest[i] \notin DOMAIN sweep.usage \ DOMAIN index
  BY <1>2, <1>3
<1>. QED
  BY <1>1, <1>2, <1>3, <1>4, <1>8, <1>9 DEF Budget

\* A step of the sweep, or the end of the registry, keeps what the pass owns.
LEMMA SweepPass ==
    ASSUME Typed, Pass, Sweep \/ Tick \/ Close
    PROVE  Pass'
<1>1. Ordered' /\ Stopped' /\ IsFiniteSet(DOMAIN index')
  BY SweepOrdered DEF Pass
<1>2. CASE Tick \/ EndPass \/ UnlinkRaises \/ Close
  <2>1. sweep'.by = "ttl"
    <3>1. CASE Tick
      BY <3>1 DEF Tick, Asleep
    <3>. QED
      BY <1>2, <3>1 DEF EndPass, UnlinkRaises, Close, Asleep
  <2>. QED
    BY <1>1, <2>1 DEF Pass, Budget
<1>3. CASE CountUsage
  BY <1>1, <1>3, CountBudget DEF Pass
<1>4. CASE RemoveNext
  BY <1>1, <1>4, RemoveBudget DEF Pass
<1>5. CASE CloseReturns
  <2>1. /\ sweep' = [sweep EXCEPT !.pc = "unlinking"] /\ index' = Without(index, Head(sweep.todo))
        /\ UNCHANGED <<status, done>> /\ sweep.pc = "closing"
    BY <1>5 DEF CloseReturns, disk, producer
  <2>2. CASE sweep.by = "disk"
    <3>1. sweep.todo # <<>>
      BY <2>1, <2>2 DEF Pass, Budget
    <3>. QED
      BY <1>1, <2>1, <2>2, <3>1, IndexDropped DEF Pass
  <2>3. CASE sweep.by # "disk"
    <3>1. sweep'.by = sweep.by
      BY <2>1 DEF Typed
    <3>. QED
      BY <1>1, <2>3, <3>1 DEF Pass, Budget
  <2>. QED
    BY <2>2, <2>3
<1>6. CASE UnlinkReturns
  BY <1>1, <1>6, UnlinkBudget DEF Pass
<1>. QED
  BY <1>2, <1>3, <1>4, <1>5, <1>6 DEF Sweep

\* A registry starts without a pass; every step keeps what one owns.
LEMMA InitPass == Init => Pass
<1> SUFFICES ASSUME Init PROVE Pass
  OBVIOUS
<1>1. order = <<>> /\ done = {} /\ index = <<>> /\ sweep.by = "ttl"
  BY DEF Init, Asleep
<1>2. <<>> \in Seq(Buffers) /\ Len(<<>>) = 0 /\ DOMAIN <<>> = {}
  OBVIOUS
<1>3. IsFiniteSet(DOMAIN index)
  BY <1>1, <1>2, FS_EmptySet
<1>. QED
  BY <1>1, <1>2, <1>3 DEF Pass, Stopped, Ordered, Distinct, Budget

LEMMA NextPass == Inv /\ Pass /\ [Next]_vars => Pass'
<1> SUFFICES ASSUME Inv, Pass, [Next]_vars PROVE Pass'
  OBVIOUS
<1>1. CASE Sweep \/ Tick \/ Close
  BY <1>1, SweepPass DEF Inv
<1>2. ASSUME NEW b \in Buffers, Create(b) \/ Reject(b) \/ Start(b) \/ Load(b) \/ Drain(b)
      PROVE  Pass'
  BY <1>2, BufferPass
<1>3. CASE UNCHANGED vars
  <2>1. UNCHANGED <<status, order, index, done, sweep, prod, last>>
    BY <1>3 DEF vars, disk, producer
  <2>2. Kept' = Kept
    BY <2>1 DEF Kept
  <2>3. Sum(Kept)' = Sum(Kept) /\ Owed' = Owed
    <3>1. Sum(Kept)' = Sum(Kept)
      BY <2>2
    <3>. QED
      BY <2>1, <3>1 DEF Owed, Counted
  <2>. QED
    BY <2>1, <2>3 DEF Pass, Stopped, Ordered, Budget, Underway
<1>. QED
  BY <1>1, <1>2, <1>3 DEF Next

\* A pass never loses count of the logs that are left, and takes no buffer that
\* its load may open again.
THEOREM PassOwns == Spec => []Pass
<1>1. Inv /\ Pass /\ [Next]_vars => Pass'
  BY NextPass
<1>. QED
  BY <1>1, InitPass, Inductive, PTL DEF Spec

\* A pass that ends leaves the logs it counted within the budget, unless it has
\* been through every finished buffer (_evict_by_disk_usage).
THEOREM Settled == Spec => PassSettles
<1> DEFINE A == sweep.by = "disk" /\ sweep.pc = "next" /\ sweep' = Asleep =>
                  sweep.todo = <<>> \/ Sum(Kept) <= DiskLimit
<1>1. Inv /\ Pass /\ [Next]_vars => [A]_vars
  <2> SUFFICES ASSUME Inv, Pass, Next, sweep.by = "disk", sweep.pc = "next", sweep' = Asleep,
                      sweep.todo # <<>>
               PROVE  Sum(Kept) <= DiskLimit
    BY DEF vars
  <2>1. Sweep
    BY DEF Next
  <2>2. sweep.pc = "next" /\ Asleep.pc = "asleep" /\ Asleep.by = "ttl"
    BY DEF Asleep
  <2>3. EndPass
    <3>1. ~CountUsage /\ ~CloseReturns /\ ~UnlinkReturns /\ ~UnlinkRaises
      BY DEF CountUsage, CloseReturns, UnlinkReturns, UnlinkRaises
    <3>2. RemoveNext => sweep'.by = sweep.by
      BY DEF RemoveNext, Removing, Inv, Typed
    <3>. QED
      BY <2>1, <2>2, <3>1, <3>2 DEF Sweep
  <2>4. sweep.total <= DiskLimit
    BY <2>3 DEF EndPass
  <2>5. Sum(Kept) <= sweep.total - Owed /\ Owed = 0 /\ sweep.total \in Int
    BY DEF Pass, Budget, Owed
  <2>6. Sum(Kept) \in Nat
    <3>1. IsFiniteSet(DOMAIN sweep.usage) /\ \A b \in DOMAIN sweep.usage : sweep.usage[b] \in Nat
      BY DEF Pass, Budget
    <3>2. DOMAIN Kept \subseteq DOMAIN sweep.usage /\ \A b \in DOMAIN Kept : Kept[b] \in Nat
      BY <3>1 DEF Kept
    <3>3. IsFiniteSet(DOMAIN Kept)
      BY <3>1, <3>2, FS_Subset
    <3>. QED
      BY <3>2, <3>3, SumWithout
  <2>7. DiskLimit \in Int
    BY RegistryAssumption
  <2>. QED
    BY <2>4, <2>5, <2>6, <2>7
<1>2. [][Next]_vars /\ []Inv /\ []Pass => [][A]_vars
  BY <1>1, PTL
<1>. QED
  BY <1>2, Inductive, PassOwns, PTL DEF Spec, PassSettles
=============================================================================
