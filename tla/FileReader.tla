----------------------------- MODULE FileReader -----------------------------
(***************************************************************************)
(* flama.concurrency.FileReader: a background task that reads a range of a *)
(* file chunk by chunk into an asyncio.Queue(maxsize=1), and the reader    *)
(* that takes the chunks and closes it (FileResponse, FileStreamsBackend). *)
(*                                                                         *)
(* A chunk is the pair of its byte offsets. Task and reader share the      *)
(* loop: an action is what runs between two suspension points.             *)
(***************************************************************************)
EXTENDS Integers, Sequences

CONSTANTS
    MaxSize,      \* bound on the size of a file
    ChunkSizes,   \* chunk sizes asked for
    MayFail       \* TRUE: open() and read() may raise

ASSUME MaxSizeAssumption == MaxSize \in Nat
ASSUME ChunkSizesAssumption == ChunkSizes \subseteq Nat \ {0}
ASSUME MayFailAssumption == MayFail \in BOOLEAN

VARIABLES
    file,      \* fixed: its size, the range asked for and the chunk size
    task,      \* where `_reader` is suspended
    pos,       \* position of the file object
    remaining, \* bytes of the range not yet put
    held,      \* the chunk `put` is waiting to enqueue
    failed,    \* the task leaves with an exception
    queue,     \* the asyncio.Queue
    reader,    \* where the consumer is
    got        \* history: chunks the consumer received

tvars == <<task, pos, remaining, held, failed>>
vars == <<file, tvars, queue, reader, got>>

Sentinel == <<>>
NoEnd == MaxSize + 1
Files == [size : 0..MaxSize, start : 0..MaxSize, end : 0..NoEnd, chunk : ChunkSizes]

\* What the callers ask for: a range in order, or one without end.
Asked == {f \in Files : f.start <= f.end}

Lesser(x, y) == IF x < y THEN x ELSE y
Bounded == file.end # NoEnd
Room == Len(queue) < 1
Over == {"idle", "finished", "failed", "cancelled"}
TaskStates == Over \cup {"opening", "reading", "putting", "closing", "unwinding", "ending"}
ReaderStates == {"new", "getting", "holding", "ended", "closing", "closed"}

-----------------------------------------------------------------------------
(* The task *)

ReadSize == IF Bounded THEN Lesser(file.chunk, remaining) ELSE file.chunk

\* `open` returns, and `seek`.
Opened ==
    /\ task = "opening"
    /\ task' = "reading"
    /\ pos' = file.start
    /\ remaining' = IF Bounded THEN file.end - file.start ELSE 0
    /\ UNCHANGED <<file, held, failed, queue, reader, got>>

\* `open` raises before the try block.
OpenFails ==
    /\ MayFail
    /\ task = "opening"
    /\ task' = "failed"
    /\ failed' = TRUE
    /\ UNCHANGED <<file, pos, remaining, held, queue, reader, got>>

\* After a put: count the chunk, and leave the loop at the end of the range.
Counted(c) ==
    /\ remaining' = IF Bounded THEN remaining - (c[2] - c[1]) ELSE remaining
    /\ task' = IF Bounded /\ remaining' <= 0 THEN "closing" ELSE "reading"

\* `read` returns a chunk, which is put at once if there is room.
ReadChunk ==
    /\ task = "reading"
    /\ LET to == Lesser(pos + ReadSize, file.size)
           c  == <<pos, to>>
       IN  \/ /\ to <= pos
              /\ task' = "closing"
              /\ UNCHANGED <<pos, remaining, held, queue>>
           \/ /\ to > pos
              /\ pos' = to
              /\ IF Room
                 THEN /\ queue' = Append(queue, c)
                      /\ Counted(c)
                      /\ UNCHANGED held
                 ELSE /\ held' = c
                      /\ task' = "putting"
                      /\ UNCHANGED <<remaining, queue>>
    /\ UNCHANGED <<file, failed, reader, got>>

\* `read` raises: the finally block runs, then the task fails.
ReadFails ==
    /\ MayFail
    /\ task = "reading"
    /\ task' = "closing"
    /\ failed' = TRUE
    /\ UNCHANGED <<file, pos, remaining, held, queue, reader, got>>

\* The waiting put finds room.
PutResumes ==
    /\ task = "putting" /\ Room
    /\ queue' = Append(queue, held)
    /\ Counted(held)
    /\ UNCHANGED <<file, pos, held, failed, reader, got>>

\* The finally block: the file is closed and the sentinel put.
Closed ==
    /\ task \in {"closing", "unwinding"}
    /\ IF Room
       THEN /\ queue' = Append(queue, Sentinel)
            /\ task' = IF task = "unwinding" THEN "cancelled"
                       ELSE IF failed THEN "failed" ELSE "finished"
       ELSE task' = "ending" /\ UNCHANGED queue
    /\ UNCHANGED <<file, pos, remaining, held, failed, reader, got>>

SentinelResumes ==
    /\ task = "ending" /\ Room
    /\ queue' = Append(queue, Sentinel)
    /\ task' = IF failed THEN "failed" ELSE "finished"
    /\ UNCHANGED <<file, pos, remaining, held, failed, reader, got>>

-----------------------------------------------------------------------------
(* The consumer *)

\* `__aiter__` creates the task.
Iterate ==
    /\ reader = "new"
    /\ task' = "opening"
    /\ reader' = "getting"
    /\ UNCHANGED <<file, pos, remaining, held, failed, queue, got>>

\* `__anext__` gets a chunk, or the sentinel.
Anext ==
    /\ reader = "getting" /\ queue # <<>>
    /\ queue' = Tail(queue)
    /\ IF Head(queue) = Sentinel
       THEN reader' = "ended" /\ UNCHANGED got
       ELSE reader' = "holding" /\ got' = Append(got, Head(queue))
    /\ UNCHANGED <<file, tvars>>

\* The consumer has sent its chunk and asks for the next one.
Sent ==
    /\ reader = "holding"
    /\ reader' = "getting"
    /\ UNCHANGED <<file, tvars, queue, got>>

\* Where CancelledError takes the task: before the try block, or in the
\* finally block, it ends it; in the loop it runs the finally block.
Cancelled(s) == IF s \in {"reading", "putting"} THEN "unwinding" ELSE "cancelled"

\* Mutant of Aclose: the queue is not drained.
AcloseUndrained ==
    /\ reader \in {"getting", "holding", "ended"}
    /\ IF task \in Over
       THEN reader' = "closed" /\ UNCHANGED task
       ELSE reader' = "closing" /\ task' = Cancelled(task)
    /\ UNCHANGED <<file, pos, remaining, held, failed, queue, got>>

\* `aclose` from any await of the consumer: cancel, drain and await the task.
Aclose ==
    /\ reader \in {"getting", "holding", "ended"}
    /\ IF task \in Over
       THEN reader' = "closed" /\ UNCHANGED <<task, queue>>
       ELSE /\ reader' = "closing"
            /\ task' = Cancelled(task)
            /\ queue' = <<>>
    /\ UNCHANGED <<file, pos, remaining, held, failed, got>>

\* The awaited task has ended.
Awaited ==
    /\ reader = "closing" /\ task \in Over
    /\ reader' = "closed"
    /\ UNCHANGED <<file, tvars, queue, got>>

-----------------------------------------------------------------------------

Init ==
    /\ file \in Asked
    /\ task = "idle" /\ pos = 0 /\ remaining = 0 /\ held = Sentinel /\ failed = FALSE
    /\ queue = <<>>
    /\ reader = "new" /\ got = <<>>

Reader == Opened \/ OpenFails \/ ReadChunk \/ ReadFails \/ PutResumes \/ Closed \/ SentinelResumes
Consumer == Iterate \/ Anext \/ Sent \/ Awaited

Next == Reader \/ Consumer \/ Aclose

\* The thread pool and the loop make progress, and the ASGI server takes the
\* chunks; nothing forces a consumer to leave early.
Spec == Init /\ [][Next]_vars /\ WF_vars(Reader) /\ WF_vars(Consumer)

-----------------------------------------------------------------------------
(* Properties *)

TypeOK ==
    /\ file \in Asked
    /\ task \in TaskStates
    /\ pos \in 0..MaxSize
    /\ remaining \in 0..MaxSize
    /\ failed \in BOOLEAN
    /\ Len(queue) <= 1
    /\ reader \in ReaderStates

\* A sequence of chunks that covers [from, to) without gap or overlap.
Covers(chunks, from, to) ==
    IF chunks = <<>> THEN from >= to
    ELSE /\ chunks[1][1] = from
         /\ chunks[Len(chunks)][2] = to
         /\ \A i \in 2..Len(chunks) : chunks[i][1] = chunks[i - 1][2]

\* A reader that comes to the end without an error of the file has exactly the
\* bytes asked for that the file has, in order.
EndIsWholeRange ==
    reader = "ended" /\ ~failed =>
        Covers(got, file.start, Lesser(file.end, file.size))

\* Once the file is open, a consumer that stays comes to the end, and one that
\* leaves is not held up: `await self._task` always returns.
OpenedEnds == (task = "reading") ~> (reader \in {"ended", "closed"})
AcloseReturns == (reader = "closing") ~> (reader = "closed")

\* A consumer of a file that opened is never left waiting, whenever it closes,
\* and gets the range it asked for if it stays.
ReaderSettles == []EndIsWholeRange /\ OpenedEnds /\ AcloseReturns

\* "A None sentinel signals end-of-stream": whatever happens to the file, the
\* consumer comes to the end or leaves.
AlwaysEnds == (reader = "getting") ~> (reader \in {"holding", "ended", "closed"})
=============================================================================
