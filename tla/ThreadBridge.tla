---------------------------- MODULE ThreadBridge ----------------------------
(***************************************************************************)
(* flama.concurrency.iterate over a synchronous source: a producer thread  *)
(* that pulls the source and hands every item to the event loop with       *)
(* run_coroutine_threadsafe(queue.put(item)), and the async generator that *)
(* takes them from the asyncio.Queue(maxsize=1).                           *)
(*                                                                         *)
(* The thread runs in parallel with the loop, so each of its reads and     *)
(* writes of shared state is a step. On the loop a step is what runs       *)
(* between two suspension points. The loop runs its ready queue in order:  *)
(* a put submitted or woken before another one runs before it.             *)
(***************************************************************************)
EXTENDS Naturals, Sequences

CONSTANTS
    MaxItems,    \* bound on the items the source yields
    MayLeave     \* TRUE: the client may close the generator before its end

ASSUME MaxItemsAssumption == MaxItems \in Nat
ASSUME MayLeaveAssumption == MayLeave \in BOOLEAN

VARIABLES
    thread,      \* where the producer thread is
    taken,       \* items the source has yielded; an item is its number
    ahead,       \* history: items it has yielded after the cancellation
    pending,     \* TRUE: the future of the current put is in `pending`
    future,      \* that future, as the thread sees it
    itemPut,     \* the task running queue.put(item)
    endPut,      \* the task running queue.put(StopIteration)
    queue,       \* the asyncio.Queue
    cancelled,   \* the threading.Event
    consumer,    \* where the generator is suspended
    got          \* history: items yielded to the client

producing == <<thread, taken, ahead, pending>>
puts == <<future, itemPut, endPut>>
vars == <<producing, puts, queue, cancelled, consumer, got>>

End == 0
Items == 1..MaxItems
PutStates == {"none", "scheduled", "waiting", "woken", "done", "dropped"}
ThreadStates == {"next", "check", "submit", "register", "result", "sentinel", "exited"}
ConsumerStates == {"getting", "holding", "finishing", "ended", "draining", "closed"}

Room == Len(queue) < 1

\* Taking from a full queue wakes the oldest putter.
Wake(put) == IF put = "waiting" THEN "woken" ELSE put

-----------------------------------------------------------------------------
(* The producer thread, `_produce` *)

\* `for item in iterator` gets an item.
SourceYields ==
    /\ thread = "next"
    /\ taken < MaxItems
    /\ taken' = taken + 1
    /\ ahead' = IF cancelled THEN ahead + 1 ELSE ahead
    /\ thread' = "check"
    /\ UNCHANGED <<pending, puts, queue, cancelled, consumer, got>>

\* The outer `finally`: the source is closed and the sentinel submitted.
Finally ==
    /\ endPut' = "scheduled"
    /\ thread' = "sentinel"
    /\ UNCHANGED <<taken, ahead, itemPut, queue, cancelled, consumer, got>>

\* The source is exhausted, or raises: `_produce` leaves by the same door.
SourceEnds ==
    /\ thread = "next"
    /\ Finally
    /\ UNCHANGED <<pending, future>>

\* Mutant of CheckCancelled: the event is not looked at.
CheckNothing ==
    /\ thread = "check"
    /\ thread' = "submit"
    /\ UNCHANGED <<taken, ahead, pending, puts, queue, cancelled, consumer, got>>

CheckCancelled ==
    /\ thread = "check"
    /\ \/ /\ cancelled
          /\ Finally
          /\ UNCHANGED <<pending, future>>
       \/ /\ ~cancelled
          /\ thread' = "submit"
          /\ UNCHANGED <<taken, ahead, pending, puts, queue, cancelled, consumer, got>>

Submit ==
    /\ thread = "submit"
    /\ itemPut' = "scheduled"
    /\ future' = "pending"
    /\ thread' = "register"
    /\ UNCHANGED <<taken, ahead, pending, endPut, queue, cancelled, consumer, got>>

Register ==
    /\ thread = "register"
    /\ pending' = TRUE
    /\ thread' = "result"
    /\ UNCHANGED <<taken, ahead, puts, queue, cancelled, consumer, got>>

\* `fut.result()` returns, or raises CancelledError.
Result ==
    /\ thread = "result"
    /\ pending' = FALSE
    /\ \/ /\ future = "done"
          /\ thread' = "next"
          /\ UNCHANGED <<taken, ahead, puts, queue, cancelled, consumer, got>>
       \/ /\ future = "cancelled"
          /\ Finally
          /\ UNCHANGED future

\* `sentinel.result()` returns.
Exit ==
    /\ thread = "sentinel"
    /\ endPut = "done"
    /\ thread' = "exited"
    /\ UNCHANGED <<taken, ahead, pending, puts, queue, cancelled, consumer, got>>

-----------------------------------------------------------------------------
(* The put tasks on the loop *)

\* The task of the item runs. A future cancelled before the task's first step
\* cancels it only where it suspends: with room it still puts its item.
RunItemPut ==
    /\ itemPut \in {"scheduled", "woken"}
    /\ \/ /\ Room
          /\ queue' = Append(queue, taken)
          /\ itemPut' = "done"
          /\ future' = IF future = "cancelled" THEN "cancelled" ELSE "done"
       \/ /\ ~Room
          /\ itemPut' = IF future = "cancelled" THEN "dropped" ELSE "waiting"
          /\ UNCHANGED <<queue, future>>
    /\ UNCHANGED <<producing, endPut, cancelled, consumer, got>>

\* Mutant of RunEndPut: the sentinel replaces what is queued.
RunEndPutOverItems ==
    /\ endPut \in {"scheduled", "woken"}
    /\ itemPut \notin {"scheduled", "woken"}
    /\ queue' = <<End>>
    /\ endPut' = "done"
    /\ UNCHANGED <<producing, future, itemPut, cancelled, consumer, got>>

\* The sentinel's task, submitted after the last item's.
RunEndPut ==
    /\ endPut \in {"scheduled", "woken"}
    /\ itemPut \notin {"scheduled", "woken"}
    /\ \/ /\ Room
          /\ queue' = Append(queue, End)
          /\ endPut' = "done"
       \/ /\ ~Room
          /\ endPut' = "waiting"
          /\ UNCHANGED queue
    /\ UNCHANGED <<producing, future, itemPut, cancelled, consumer, got>>

-----------------------------------------------------------------------------
(* The generator *)

\* `await queue.get()` returns. On the sentinel the `finally` block finds
\* nothing pending and nothing queued, and awaits the thread.
Get ==
    /\ consumer = "getting"
    /\ queue # <<>>
    /\ queue' = Tail(queue)
    /\ itemPut' = Wake(itemPut)
    /\ endPut' = Wake(endPut)
    /\ \/ /\ Head(queue) # End
          /\ got' = Append(got, Head(queue))
          /\ consumer' = "holding"
          /\ UNCHANGED cancelled
       \/ /\ Head(queue) = End
          /\ cancelled' = TRUE
          /\ consumer' = "finishing"
          /\ UNCHANGED got
    /\ UNCHANGED <<producing, future>>

\* The client asks for the next item.
Ask ==
    /\ consumer = "holding"
    /\ consumer' = "getting"
    /\ UNCHANGED <<producing, puts, queue, cancelled, got>>

\* Mutant of Leave: the queue is not drained.
LeaveWithoutDraining ==
    /\ MayLeave
    /\ consumer \in {"getting", "holding"}
    /\ cancelled' = TRUE
    /\ consumer' = "draining"
    /\ LET cancels == pending /\ future = "pending" IN
         /\ future' = IF cancels THEN "cancelled" ELSE future
         /\ itemPut' = IF cancels /\ itemPut = "waiting" THEN "dropped" ELSE itemPut
    /\ UNCHANGED <<producing, endPut, queue, got>>

\* aclose(), a cancelled task or an exception at the yield: the `finally`
\* block up to `await future`, which runs without suspending. Cancelling the
\* future reaches the task before the wake-up the drain sends it.
Leave ==
    /\ MayLeave
    /\ consumer \in {"getting", "holding"}
    /\ cancelled' = TRUE
    /\ queue' = <<>>
    /\ endPut' = Wake(endPut)
    /\ consumer' = "draining"
    /\ LET cancels == pending /\ future = "pending" IN
         /\ future' = IF cancels THEN "cancelled" ELSE future
         /\ itemPut' = IF cancels /\ itemPut = "waiting" THEN "dropped" ELSE Wake(itemPut)
    /\ UNCHANGED <<producing, got>>

\* `await future` returns once the thread has exited.
Joined ==
    /\ thread = "exited"
    /\ \/ consumer = "finishing" /\ consumer' = "ended"
       \/ consumer = "draining" /\ consumer' = "closed"
    /\ UNCHANGED <<producing, puts, queue, cancelled, got>>

-----------------------------------------------------------------------------

Init ==
    /\ thread = "next" /\ taken = 0 /\ ahead = 0 /\ pending = FALSE
    /\ future = "none" /\ itemPut = "none" /\ endPut = "none"
    /\ queue = <<>> /\ cancelled = FALSE
    /\ consumer = "getting" /\ got = <<>>

Source == SourceYields \/ SourceEnds
Producer == Source \/ CheckCancelled \/ Submit \/ Register \/ Result \/ Exit
Loop == RunItemPut \/ RunEndPut
Generator == Get \/ Ask \/ Joined

Next == Producer \/ Loop \/ Generator \/ Leave

\* The thread runs and its source returns; the loop runs what is ready; the
\* client keeps asking unless it leaves, which nothing forces it to do.
Fairness == WF_vars(Producer) /\ WF_vars(Loop) /\ WF_vars(Generator)

Spec == Init /\ [][Next]_vars /\ Fairness

-----------------------------------------------------------------------------
(* Properties *)

TypeOK ==
    /\ thread \in ThreadStates
    /\ taken \in 0..MaxItems
    /\ ahead \in 0..MaxItems
    /\ pending \in BOOLEAN
    /\ future \in {"none", "pending", "done", "cancelled"}
    /\ itemPut \in PutStates
    /\ endPut \in PutStates
    /\ queue \in Seq({End} \cup Items)
    /\ cancelled \in BOOLEAN
    /\ consumer \in ConsumerStates
    /\ got \in Seq(Items)

\* The item the thread has taken and the queue has not.
InHand ==
    \/ thread \in {"check", "submit"}
    \/ itemPut \in {"scheduled", "waiting", "woken"}

\* Until the client leaves, what it got and what is queued are the items of
\* the source in order: none lost, none repeated, none after the sentinel
\* (yields of the async generator against `for item in iterator`).
InOrder ==
    consumer \notin {"draining", "closed"} =>
        \E rest \in {<<>>, <<End>>} :
            got \o queue =
                [i \in 1..(IF InHand THEN taken - 1 ELSE taken) |-> i] \o rest

\* The generator ends by itself only after every item: the sentinel never
\* overtakes an item (`is not StopIteration` in the while condition).
EndIsLast ==
    consumer \in {"finishing", "ended"} => Len(got) = taken

\* The source is at most one item ahead of the queue: the thread waits for its
\* put before the next item (`fut.result()`, "natural backpressure").
SourceWaits ==
    ~cancelled => taken <= Len(got) + 2

\* Once cancelled the source is advanced at most once more (`is_set` check).
StopsPromptly == ahead <= 1

\* What the client sees: the items in order, and the end after all of them.
Faithful == InOrder /\ EndIsLast

\* What the source sees: it is advanced one item ahead, and once at most after
\* the client left.
Restrained == SourceWaits /\ StopsPromptly

\* A client that never leaves reaches the end of the stream.
ReaderFinishes == <>(consumer \in {"ended", "draining", "closed"})

\* A put found waiting when the client leaves is cancelled, the sentinel finds
\* the drained slot and the thread exits, so that the generator closes.
DroppedPutReleases == (itemPut = "dropped" /\ consumer = "draining") ~> (consumer = "closed")

\* The generator returns to a client that stays, and to one that leaves while the
\* producer waits for a slot.
GeneratorReturns == ReaderFinishes /\ DroppedPutReleases

\* "Drain any items the producer pushed before noticing cancellation so its
\* sentinel queue.put finds an empty slot and the producer thread can exit
\* cleanly": whenever the client leaves, the thread exits and aclose returns.
LeavingReleases == (consumer = "draining") ~> (consumer = "closed")
=============================================================================
