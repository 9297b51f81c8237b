--------------------------- MODULE StreamRegistry ---------------------------
(***************************************************************************)
(* The durable buffers of one model under flama.models.streams:            *)
(* StreamsRegistry, ModelStreams, FileStreamsBackend and the CleanupTask   *)
(* that removes buffers, possibly while their load task is appending.      *)
(*                                                                         *)
(* StreamBuffer models what the blocks of one buffer are and how they are  *)
(* read; here a block is its number, readers only take blocks off the      *)
(* tier, and the subject is which entries and files exist.                 *)
(*                                                                         *)
(* Coroutines share an event loop; what concurrency.run hands to a thread  *)
(* (open, write, close, unlink) happens while its caller is suspended.     *)
(* Opening and closing are one step with the resumption of the caller: no  *)
(* other actor can tell the two apart. mkdir and open are one suspension.  *)
(***************************************************************************)
EXTENDS Integers, Sequences, FiniteSets, Functions, TLC

CONSTANTS
    Buffers,     \* keys ModelStreams.create may hand out
    Capacity,    \* capacity of the in-flight tier
    DiskLimit,   \* CleanupTask.disk_usage, in lines
    MaxBlocks,   \* bound on the blocks a source yields, its StopEvent included
    MaxFaults,   \* bound on writes and unlinks that fail
    MaxSweeps    \* bound on the passes of CleanupTask

ASSUME RegistryAssumption ==
    /\ Capacity \in Nat \ {0}
    /\ {DiskLimit, MaxBlocks, MaxFaults, MaxSweeps} \subseteq Nat

VARIABLES
    status,    \* "new", "in" ModelStreams._buffers, "out", or "rejected"
    order,     \* created buffers by timestamp, oldest first
    file,      \* lines of the file at the path of the buffer; Missing when unlinked
    writers,   \* FileStreamsBackend._writers
    index,     \* FileStreamsBackend._line_offsets: the lines it has offsets for
    hot,       \* InMemoryStreamsBackend._data: how many blocks are resident
    prod,      \* where the load task is suspended
    fd,        \* its local file descriptor
    held,      \* number of the block it appends
    last,      \* the block it appends is a StopEvent
    failing,   \* load is inside error()
    done,      \* buffers with a stop reason
    opened,    \* descriptors opened for the buffer, numbered from 1
    closed,    \* how many of them are closed
    unlinked,  \* how many of them had been opened at the last unlink
    unflushed, \* lines a failed flush has left in the buffer of the descriptor
    sweep,     \* local variables of CleanupTask.evict
    open,      \* the registry is open
    parting,   \* history: prod and held of a buffer when the sweep removed it
    faults, sweeps

producer == <<prod, fd, held, last, failing>>
disk == <<file, writers, index, opened, closed, unlinked, unflushed>>
vars == <<status, order, disk, hot, producer, done, sweep, open, parting, faults, sweeps>>

Missing == <<0>>
NoFd == 0
Asleep == [pc |-> "asleep", by |-> "ttl", todo |-> <<>>, total |-> 0, usage |-> <<>>]
AtRest(b) == prod[b] \in {"idle", "finished", "failed"}

Without(f, b) == [x \in DOMAIN f \ {b} |-> f[x]]
With(f, b, v) == [x \in DOMAIN f \cup {b} |-> IF x = b THEN v ELSE f[x]]

\* The elements of a list that are in a set, in the order of the list.
Among(s, S) ==
    LET kept[n \in 0..Len(s)] == IF n = 0 THEN <<>>
                                 ELSE IF s[n] \in S THEN Append(kept[n - 1], s[n]) ELSE kept[n - 1]
    IN  kept[Len(s)]

\* FileStreamsBackend.usage, a line being the unit.
Usage == [b \in DOMAIN index |-> Len(index[b])]

Full(b) == b \in DOMAIN hot /\ hot[b] >= Capacity

-----------------------------------------------------------------------------
(* ModelStreams *)

Create(b) ==
    /\ open /\ status[b] = "new"
    /\ status' = [status EXCEPT ![b] = "in"]
    /\ order' = Append(order, b)
    /\ UNCHANGED <<disk, hot, producer, done, sweep, open, parting, faults, sweeps>>

\* The handler that created the buffer removes it when the preflight of the
\* generation fails: nothing has been appended.
Reject(b) ==
    /\ status[b] = "in" /\ prod[b] = "idle"
    /\ status' = [status EXCEPT ![b] = "rejected"]
    /\ UNCHANGED <<order, disk, hot, producer, done, sweep, open, parting, faults, sweeps>>

-----------------------------------------------------------------------------
(* The load task of a buffer: StreamBuffer.load, append and error over     *)
(* FileStreamsBackend.append and InMemoryStreamsBackend.append             *)

\* FileStreamsBackend._writer, up to its suspension.
Appending(b, n, stop, inError) ==
    /\ held' = [held EXCEPT ![b] = n]
    /\ last' = [last EXCEPT ![b] = stop]
    /\ failing' = [failing EXCEPT ![b] = inError]
    /\ prod' = [prod EXCEPT ![b] = IF b \in DOMAIN writers THEN "write" ELSE "open"]
    /\ fd' = [fd EXCEPT ![b] = IF b \in DOMAIN writers THEN writers[b] ELSE NoFd]

\* The background task of the response starts to drain the source: a rejected
\* buffer has none, one removed by the sweep still has.
Start(b) ==
    /\ prod[b] = "idle" /\ status[b] \in {"in", "out"}
    /\ prod' = [prod EXCEPT ![b] = "source"]
    /\ UNCHANGED <<status, order, disk, hot, fd, held, last, failing, done, sweep, open, parting, faults, sweeps>>

\* The source yields a block, the last one being a StopEvent.
Emit(b) ==
    /\ prod[b] = "source" /\ ~last[b]
    /\ \E stop \in BOOLEAN :
         /\ stop \/ held[b] + 1 < MaxBlocks
         /\ Appending(b, held[b] + 1, stop, FALSE)
    /\ UNCHANGED <<status, order, disk, hot, done, sweep, open, parting, faults, sweeps>>

\* The source raises before its StopEvent: load calls error().
Raise(b) ==
    /\ prod[b] = "source" /\ ~last[b]
    /\ Appending(b, held[b] + 1, TRUE, TRUE)
    /\ UNCHANGED <<status, order, disk, hot, done, sweep, open, parting, faults, sweeps>>

Exhausted(b) ==
    /\ prod[b] = "source" /\ last[b]
    /\ prod' = [prod EXCEPT ![b] = "finished"]
    /\ UNCHANGED <<status, order, disk, hot, fd, held, last, failing, done, sweep, open, parting, faults, sweeps>>

\* open(path, "ab") returns: the descriptor and an empty index are recorded,
\* whatever the file holds. An unlinked file is created anew.
OpenLog(b) ==
    /\ prod[b] = "open"
    /\ opened' = [opened EXCEPT ![b] = @ + 1]
    /\ fd' = [fd EXCEPT ![b] = opened[b] + 1]
    /\ writers' = With(writers, b, opened[b] + 1)
    /\ file' = [file EXCEPT ![b] = IF @ = Missing THEN <<>> ELSE @]
    /\ index' = With(index, b, <<>>)
    /\ prod' = [prod EXCEPT ![b] = "write"]
    /\ UNCHANGED <<status, order, closed, unlinked, unflushed, hot, held, last, failing,
                   done, sweep, open, parting, faults, sweeps>>

\* What reaches the file at the path: nothing once it has been unlinked.
Flushed(b, d, lines) ==
    IF d <= unlinked[b] \/ file[b] = Missing THEN file[b] ELSE file[b] \o lines

\* _write_line in its thread. What a failed flush leaves in the buffer of the
\* descriptor goes out with the next one.
WriteLine(b) ==
    /\ prod[b] = "write" /\ fd[b] > closed[b]
    /\ file' = [file EXCEPT ![b] = Flushed(b, fd[b], Append(unflushed[b], held[b]))]
    /\ unflushed' = [unflushed EXCEPT ![b] = <<>>]
    /\ prod' = [prod EXCEPT ![b] = "written"]
    /\ UNCHANGED <<status, order, writers, index, opened, closed, unlinked, hot, fd, held, last,
                   failing, done, sweep, open, parting, faults, sweeps>>

WriteFails(b) ==
    /\ prod[b] = "write"
    /\ prod' = [prod EXCEPT ![b] = "raised"]
    /\ IF fd[b] <= closed[b]
       THEN UNCHANGED <<unflushed, faults>>
       ELSE /\ faults < MaxFaults
            /\ faults' = faults + 1
            /\ unflushed' = [unflushed EXCEPT ![b] = Append(@, held[b])]
    /\ UNCHANGED <<status, order, file, writers, index, opened, closed, unlinked, hot, fd, held,
                   last, failing, done, sweep, open, parting, sweeps>>

\* InMemoryStreamsBackend.append with room and the tail of StreamBuffer.append.
Admit(b) ==
    /\ hot' = With(hot, b, IF b \in DOMAIN hot THEN hot[b] + 1 ELSE 1)
    /\ done' = IF last[b] THEN done \cup {b} ELSE done
    /\ order' = Append(Among(order, Buffers \ {b}), b)
    /\ prod' = [prod EXCEPT ![b] = IF failing[b] THEN "finished" ELSE "source"]

\* FileStreamsBackend.append resumes after its write: the line enters the index
\* and the block the in-flight tier.
Indexed(b) ==
    /\ prod[b] = "written" /\ b \in DOMAIN index
    /\ index' = [index EXCEPT ![b] = Append(@, held[b])]
    /\ IF Full(b) THEN prod' = [prod EXCEPT ![b] = "blocked"] /\ UNCHANGED <<hot, done, order>>
                  ELSE Admit(b)
    /\ UNCHANGED <<status, file, writers, opened, closed, unlinked, unflushed, fd, held, last,
                   failing, sweep, open, parting, faults, sweeps>>

\* append raises: the write has, or its index entry is gone (KeyError). load
\* then calls error(), once; an exception of error() leaves load.
AppendRaises(b) ==
    /\ prod[b] = "raised" \/ (prod[b] = "written" /\ b \notin DOMAIN index)
    /\ IF failing[b]
       THEN prod' = [prod EXCEPT ![b] = "failed"] /\ UNCHANGED <<fd, held, last, failing>>
       ELSE Appending(b, held[b] + 1, TRUE, TRUE)
    /\ UNCHANGED <<status, order, disk, hot, done, sweep, open, parting, faults, sweeps>>

\* The producer is woken from the wait for room.
Unblock(b) ==
    /\ prod[b] = "blocked" /\ ~Full(b)
    /\ Admit(b)
    /\ UNCHANGED <<status, disk, fd, held, last, failing, sweep, open, parting, faults, sweeps>>

-----------------------------------------------------------------------------
(* Readers: any number of them, whose cursors are in StreamBuffer          *)

\* StreamBuffer.read takes resident blocks from the head of the in-flight tier.
Drain(b) ==
    /\ b \in DOMAIN hot /\ b \in DOMAIN index
    /\ \E n \in 1..hot[b] : hot' = [hot EXCEPT ![b] = @ - n]
    /\ UNCHANGED <<status, order, disk, producer, done, sweep, open, parting, faults, sweeps>>

-----------------------------------------------------------------------------
(* CleanupTask: a pass removes stale buffers, then finished ones until the *)
(* usage it counted is within the limit                                    *)

Registered(s) == Among(s, {b \in Buffers : status[b] = "in"})

\* _evict_by_ttl: the buffers without a recent append, listed before the first of
\* them goes. How much time has passed is anybody's guess.
Tick ==
    /\ open /\ sweep.pc = "asleep" /\ sweeps < MaxSweeps
    /\ sweeps' = sweeps + 1
    /\ \E stale \in 0..Len(order) :
         sweep' = [Asleep EXCEPT !.pc = "next", !.todo = Registered(SubSeq(order, 1, stale))]
    /\ UNCHANGED <<status, order, disk, hot, producer, done, open, parting, faults>>

\* _evict_by_disk_usage: the usage and the finished buffers, oldest first.
Sum(f) == FoldFunction(+, 0, f)
CountUsage ==
    /\ sweep.pc = "next" /\ sweep.by = "ttl" /\ sweep.todo = <<>>
    /\ sweep' = IF Sum(Usage) <= DiskLimit THEN Asleep
                ELSE [sweep EXCEPT !.by = "disk", !.total = Sum(Usage), !.usage = Usage,
                        !.todo = Among(Registered(order), done)]
    /\ UNCHANGED <<status, order, disk, hot, producer, done, open, parting, faults, sweeps>>

EndPass ==
    /\ sweep.pc = "next" /\ sweep.by = "disk"
    /\ sweep.todo = <<>> \/ sweep.total <= DiskLimit
    /\ sweep' = Asleep
    /\ UNCHANGED <<status, order, disk, hot, producer, done, open, parting, faults, sweeps>>

Counted(b) == IF b \in DOMAIN sweep.usage THEN sweep.usage[b] ELSE 0

\* Mutant of Removing: the descriptor stays in the table.
RemovingIndexOnly(b) ==
    /\ status' = [status EXCEPT ![b] = "out"]
    /\ parting' = [parting EXCEPT ![b] = [prod |-> prod[b], held |-> held[b]]]
    /\ hot' = Without(hot, b)
    /\ sweep' = [sweep EXCEPT !.pc = "unlinking"]
    /\ index' = Without(index, b)
    /\ UNCHANGED writers

\* ModelStreams.remove up to its first suspension: the buffer leaves the pool
\* and the in-flight tier, which wakes its producer; the descriptor leaves the
\* table and is closed. Without a descriptor the index goes at once.
Removing(b) ==
    /\ status' = [status EXCEPT ![b] = "out"]
    /\ parting' = [parting EXCEPT ![b] = [prod |-> prod[b], held |-> held[b]]]
    /\ hot' = Without(hot, b)
    /\ writers' = Without(writers, b)
    /\ IF b \in DOMAIN writers
       THEN sweep' = [sweep EXCEPT !.pc = "closing"] /\ UNCHANGED index
       ELSE sweep' = [sweep EXCEPT !.pc = "unlinking"] /\ index' = Without(index, b)

\* The next buffer of the pass; one that is gone by now is passed over.
RemoveNext ==
    /\ sweep.pc = "next" /\ sweep.todo # <<>>
    /\ sweep.by = "disk" => sweep.total > DiskLimit
    /\ LET b == Head(sweep.todo)
       IN  IF status[b] = "in" THEN Removing(b)
           ELSE /\ sweep' = [sweep EXCEPT !.todo = Tail(@), !.total = @ - Counted(b)]
                /\ UNCHANGED <<status, hot, writers, index, parting>>
    /\ UNCHANGED <<order, file, opened, closed, unlinked, unflushed, producer, done,
                   open, faults, sweeps>>

\* The descriptor is closed, which flushes it, and the index is dropped.
CloseReturns ==
    /\ sweep.pc = "closing"
    /\ LET b == Head(sweep.todo)
       IN  /\ file' = [file EXCEPT ![b] = Flushed(b, closed[b] + 1, unflushed[b])]
           /\ unflushed' = [unflushed EXCEPT ![b] = <<>>]
           /\ closed' = [closed EXCEPT ![b] = @ + 1]
           /\ index' = Without(index, b)
    /\ sweep' = [sweep EXCEPT !.pc = "unlinking"]
    /\ UNCHANGED <<status, order, writers, opened, unlinked, hot, producer, done, open,
                   parting, faults, sweeps>>

\* Mutant of UnlinkReturns: the evicted buffer is taken off the total twice.
UnlinkCountingTwice ==
    /\ sweep.pc = "unlinking"
    /\ LET b == Head(sweep.todo)
       IN  /\ file' = [file EXCEPT ![b] = Missing]
           /\ unlinked' = [unlinked EXCEPT ![b] = opened[b]]
           /\ sweep' = [sweep EXCEPT !.pc = "next", !.todo = Tail(@), !.total = @ - 2 * Counted(b)]
    /\ UNCHANGED <<status, order, writers, index, opened, closed, unflushed, hot, producer, done,
                   open, parting, faults, sweeps>>

\* The file is unlinked and the pass goes on.
UnlinkReturns ==
    /\ sweep.pc = "unlinking"
    /\ LET b == Head(sweep.todo)
       IN  /\ file' = [file EXCEPT ![b] = Missing]
           /\ unlinked' = [unlinked EXCEPT ![b] = opened[b]]
           /\ sweep' = [sweep EXCEPT !.pc = "next", !.todo = Tail(@), !.total = @ - Counted(b)]
    /\ UNCHANGED <<status, order, writers, index, opened, closed, unflushed, hot, producer, done,
                   open, parting, faults, sweeps>>

\* The file cannot be unlinked: the pass is logged and abandoned (_run).
UnlinkRaises ==
    /\ sweep.pc = "unlinking" /\ faults < MaxFaults
    /\ faults' = faults + 1
    /\ sweep' = Asleep
    /\ UNCHANGED <<status, order, disk, hot, producer, done, open, parting, sweeps>>

\* StreamsRegistry.aclose once the server has drained its requests: the sweep is
\* cancelled where it is, the pool cleared, every descriptor closed and the root
\* removed (FileStreamsBackend.aclose with remove=True). The in-flight tier has
\* no aclose of its own and keeps what it holds.
Close ==
    /\ open
    /\ \A b \in Buffers : AtRest(b) /\ (prod[b] = "idle" => status[b] \in {"new", "rejected"})
    /\ open' = FALSE
    /\ sweep' = Asleep
    /\ status' = [b \in Buffers |-> IF status[b] = "in" THEN "out" ELSE status[b]]
    /\ file' = [b \in Buffers |-> Missing]
    /\ unlinked' = opened /\ closed' = opened
    /\ unflushed' = [b \in Buffers |-> <<>>]
    /\ writers' = <<>> /\ index' = <<>>
    /\ UNCHANGED <<order, opened, hot, producer, done, parting, faults, sweeps>>

-----------------------------------------------------------------------------
Init ==
    /\ status = [b \in Buffers |-> "new"] /\ order = <<>>
    /\ file = [b \in Buffers |-> Missing] /\ writers = <<>> /\ index = <<>> /\ hot = <<>>
    /\ opened = [b \in Buffers |-> 0] /\ closed = opened /\ unlinked = opened
    /\ unflushed = [b \in Buffers |-> <<>>]
    /\ prod = [b \in Buffers |-> "idle"] /\ fd = [b \in Buffers |-> NoFd]
    /\ held = [b \in Buffers |-> 0]
    /\ last = [b \in Buffers |-> FALSE] /\ failing = [b \in Buffers |-> FALSE]
    /\ done = {} /\ sweep = Asleep
    /\ parting = [b \in Buffers |-> [prod |-> "none", held |-> 0]]
    /\ open = TRUE /\ faults = 0 /\ sweeps = 0

\* load never waits for another actor but for room in the in-flight tier.
Load(b) == Emit(b) \/ Raise(b) \/ Exhausted(b) \/ OpenLog(b) \/ WriteLine(b) \/ WriteFails(b)
              \/ Indexed(b) \/ AppendRaises(b) \/ Unblock(b)

\* The part of a pass between two suspensions runs before anything else.
Sweep == CountUsage \/ EndPass \/ RemoveNext \/ CloseReturns \/ UnlinkReturns \/ UnlinkRaises

Next ==
    \/ Sweep
    \/ /\ sweep.pc # "next"
       /\ \/ Tick \/ Close
          \/ \E b \in Buffers :
               Create(b) \/ Reject(b) \/ Start(b) \/ Load(b) \/ Drain(b)

Spec == Init /\ [][Next]_vars

\* The keys are random.
Symmetry == Permutations(Buffers)

-----------------------------------------------------------------------------
(* Properties *)

\* What load is writing or has written and not indexed yet.
InHand(b) == IF prod[b] = "written" THEN <<held[b]>> ELSE <<>>

\* The byte offsets of a registered buffer describe its file: each line of the
\* file is where the index says, whatever the sweep does to other buffers, as
\* long as no write has failed (FileStreamsBackend.append, _writer).
IndexDescribesFile ==
    faults = 0 => \A b \in Buffers : status[b] = "in" /\ b \in DOMAIN index =>
        file[b] = index[b] \o InHand(b)

\* A buffer whose load had returned when the sweep removed it leaves nothing
\* behind: no file, no index, no open descriptor, no resident block. A closed
\* registry leaves nothing of any buffer on disk, swept or half swept.
OnDisk(b) == file[b] # Missing \/ b \in DOMAIN index \/ b \in DOMAIN writers \/ closed[b] < opened[b]
UnderRemoval(b) == sweep.pc \in {"closing", "unlinking"} /\ Head(sweep.todo) = b
NothingLeft ==
    /\ faults = 0 => \A b \in Buffers :
         parting[b].prod \in {"finished", "failed"} /\ ~(UnderRemoval(b)) =>
             ~(OnDisk(b)) /\ b \notin DOMAIN hot
    /\ ~open => \A b \in Buffers : ~(OnDisk(b))

\* A pass that ends leaves the logs it counted within the budget, unless it has
\* been through every finished buffer: what producers append and what other
\* actors remove meanwhile does not make it stop early (_evict_by_disk_usage).
Kept == [b \in DOMAIN sweep.usage \cap DOMAIN index |-> sweep.usage[b]]
PassSettles ==
    [][sweep.by = "disk" /\ sweep.pc = "next" /\ sweep' = Asleep =>
           sweep.todo = <<>> \/ Sum(Kept) <= DiskLimit]_vars

\* A producer that was suspended on a full tier when its buffer was removed has
\* room for the block it holds, whatever readers do (ModelStreams.remove): it
\* goes on, and its buffer may fill again.
RemovalWakesProducer ==
    \A b \in Buffers :
        parting[b].prod = "blocked" /\ prod[b] = "blocked" /\ held[b] = parting[b].held => ~(Full(b))

\* Removal accounts for a whole buffer, and touches no other: for its files,
\* its descriptor and its blocks, and for the producer that waits on them.
RemovalIsWhole == IndexDescribesFile /\ NothingLeft /\ RemovalWakesProducer

\* load ends with a StopEvent in the buffer, synthesised if need be
\* (StreamBuffer.load): nobody is left to wait for it.
LoadEndsWithStop == \A b \in Buffers : prod[b] \in {"finished", "failed"} => b \in done
=============================================================================
