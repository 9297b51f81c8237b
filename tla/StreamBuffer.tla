---------------------------- MODULE StreamBuffer ----------------------------
(***************************************************************************)
(* One generation buffer of flama.models.streams: StreamBuffer over its    *)
(* bounded in-flight tier (InMemoryStreamsBackend) and its optional        *)
(* durable tier (FileStreamsBackend), the load task that fills it and the  *)
(* _iterate generators that drain it.                                      *)
(*                                                                         *)
(* All coroutines run on one event loop, so an action is what runs between *)
(* two suspension points. None of the `async with condition` bodies        *)
(* suspends except in wait(), so the locks are never contended: durable    *)
(* index update, in-flight append and the notification are one step unless *)
(* the in-flight tier is full.                                             *)
(*                                                                         *)
(* A buffer is removed by the sweep or at shutdown: not in this module.    *)
(***************************************************************************)
EXTENDS Integers, Sequences, FiniteSets

CONSTANTS
    Consumers,    \* iterators over the buffer: SSE responses and reconnections
    Capacity,     \* capacity of the in-flight tier, Unbounded for None
    Persist,      \* TRUE: the buffer has a durable backend
    EventKinds,   \* kinds of non-terminal block the source yields
    MaxBlocks     \* bound on the non-terminal blocks the source yields

Unbounded == 0

ASSUME CapacityAssumption == Capacity \in Nat
ASSUME PersistAssumption == Persist \in BOOLEAN
ASSUME MaxBlocksAssumption == MaxBlocks \in Nat
ASSUME EventKindsAssumption == EventKinds \subseteq {"content", "trace"}
\* Without a durable backend the protocol is single-consumer (ModelStreams.create).
ASSUME SingleConsumerAssumption == Persist \/ \A c, d \in Consumers : c = d

VARIABLES
    log,       \* durable tier: the blocks the line index covers
    deque,     \* in-flight tier: resident blocks
    base,      \* in-flight tier: absolute index of the head of deque
    total,     \* in-flight tier: blocks ever appended
    tokens,    \* StreamBuffer._output_tokens
    stop,      \* StreamBuffer._stop_reason
    prod,      \* where the load task is suspended
    held,      \* the block load is appending
    emitted,   \* blocks load has taken so far, gives each block its identity
    cpc,       \* where each _iterate generator is suspended
    live,      \* the generator has finished its replay
    cursor,    \* local `cursor`
    upto,      \* local `length`: end of the range being delivered
    last,      \* local `done` captured with `length`
    fillTo,    \* `prefix_end` of the durable read in progress
    batch,     \* blocks read and not yet yielded
    notified,  \* StreamBuffer._condition has woken the generator
    got,       \* history: blocks yielded to the client
    snap,      \* history: end of the replayed range
    skewed     \* history: generators that read while the producer was suspended

store == <<log, deque, base, total, tokens, stop>>
producer == <<prod, held, emitted>>
readers == <<cpc, live, cursor, upto, last, fillTo, batch, got, snap, skewed>>
cvars == <<readers, notified>>
vars == <<store, producer, cvars>>

Kinds == {"content", "trace", "stop", "error"}
Block == [n : Nat, kind : Kinds, tokens : Nat]
Terminal(b) == b.kind \in {"stop", "error"}
NotStopped == "none"
NoBlock == [n |-> 0, kind |-> "content", tokens |-> 0]
ProducerStates == {"idle", "source", "store", "blocked", "finished", "cancelled"}
ConsumerStates == {"idle", "fill", "deliver", "wait", "ended", "closed"}

NonNegative(x) == IF x < 0 THEN 0 ELSE x
Lesser(x, y) == IF x < y THEN x ELSE y

-----------------------------------------------------------------------------
(* The stores *)

Full == Capacity # Unbounded /\ Len(deque) >= Capacity
Length == IF Persist THEN Len(log) ELSE total
Done == stop # NotStopped

\* Mutant of Pop: the start of the range is ignored.
PopFromHead(start, end) ==
    LET to == Lesser(NonNegative(end - base), Len(deque))
    IN  IF start >= end \/ to <= 0
        THEN [blocks |-> <<>>, drop |-> 0]
        ELSE [blocks |-> SubSeq(deque, 1, to), drop |-> to]

\* InMemoryStreamsBackend.pop: the resident blocks of [start, end), and how
\* many of them leave the head of the deque.
Pop(start, end) ==
    LET from == NonNegative(start - base)
        to   == Lesser(NonNegative(end - base), Len(deque))
    IN  IF start >= end \/ from >= Len(deque) \/ to <= 0
        THEN [blocks |-> <<>>, drop |-> 0]
        ELSE [blocks |-> SubSeq(deque, from + 1, to),
              drop   |-> IF from = 0 THEN to ELSE 0]

\* Mutant of Admit: nobody is woken.
AdmitSilently(b) ==
    /\ deque' = Append(deque, b)
    /\ total' = total + 1
    /\ tokens' = IF b.kind = "trace" THEN tokens + b.tokens ELSE tokens
    /\ stop' = IF Terminal(b) THEN b.kind ELSE stop
    /\ prod' = IF b.kind = "error" THEN "finished" ELSE "source"
    /\ UNCHANGED notified

\* InMemoryStreamsBackend.append with room, then the tail of StreamBuffer.append,
\* which wakes those that wait: only now, however long the block has been durable.
Admit(b) ==
    /\ deque' = Append(deque, b)
    /\ total' = total + 1
    /\ tokens' = IF b.kind = "trace" THEN tokens + b.tokens ELSE tokens
    /\ stop' = IF Terminal(b) THEN b.kind ELSE stop
    /\ prod' = IF b.kind = "error" THEN "finished" ELSE "source"
    /\ notified' = [c \in Consumers |-> notified[c] \/ cpc[c] = "wait"]

-----------------------------------------------------------------------------
(* The load task *)

Take(b) ==
    /\ prod = "source"
    /\ held' = b
    /\ emitted' = emitted + 1
    /\ prod' = "store"
    /\ UNCHANGED <<store, cvars>>

\* The background task runs once the POST body is flushed; without a durable
\* backend it is started by Attach (concurrency.alongside).
StartLoad ==
    /\ Persist
    /\ prod = "idle"
    /\ prod' = "source"
    /\ UNCHANGED <<store, held, emitted, cvars>>

\* LLMCodec.decode yields an event that is not its last.
Emit ==
    /\ emitted < MaxBlocks
    /\ ~(Terminal(held))
    /\ \E k \in EventKinds :
         Take([n |-> emitted + 1, kind |-> k, tokens |-> IF k = "trace" THEN 1 ELSE 0])

\* LLMCodec.decode yields its StopEvent.
EmitStop ==
    /\ ~(Terminal(held))
    /\ Take([n |-> emitted + 1, kind |-> "stop", tokens |-> 0])

\* The source raises: load synthesises the StopEvent (StreamBuffer.error).
Raise ==
    /\ ~(Terminal(held))
    /\ Take([n |-> emitted + 1, kind |-> "error", tokens |-> tokens])

\* The source is exhausted after its StopEvent.
Exhausted ==
    /\ prod = "source"
    /\ Terminal(held)
    /\ prod' = "finished"
    /\ UNCHANGED <<store, held, emitted, cvars>>

\* Mutant of Store: the in-flight tier before the durable one.
StoreInFlightFirst ==
    /\ prod = "store"
    /\ IF Full
       THEN prod' = "blocked" /\ UNCHANGED <<log, deque, total, tokens, stop, notified>>
       ELSE /\ Admit(held)
            /\ log' = IF Persist THEN Append(log, held) ELSE log
    /\ UNCHANGED <<base, held, emitted, readers>>

\* The durable write returns, and the in-flight append follows without a
\* suspension unless the in-flight tier is full.
Store ==
    /\ prod = "store"
    /\ log' = IF Persist THEN Append(log, held) ELSE log
    /\ IF Full
       THEN prod' = "blocked" /\ UNCHANGED <<deque, total, tokens, stop, notified>>
       ELSE Admit(held)
    /\ UNCHANGED <<base, held, emitted, readers>>

\* Woken by a pop that dropped blocks.
Unblock ==
    /\ prod = "blocked"
    /\ ~Full
    /\ Admit(held)
    /\ UNCHANGED <<log, base, held, emitted, readers>>

\* concurrency.alongside cancels the load task when its consumer goes away.
CancelAlongside ==
    prod' = IF ~Persist /\ prod # "finished" THEN "cancelled" ELSE prod

-----------------------------------------------------------------------------
(* The consumers *)

\* StreamBuffer.read(start, end), up to its suspension on the durable read.
Read(c, start, end) ==
    LET clamped == Lesser(end, Length)
        popped  == Pop(start, clamped)
        prefixEnd == clamped - Len(popped.blocks)
    IN  /\ skewed' = IF Persist /\ prod = "blocked" THEN skewed \cup {c} ELSE skewed
        /\ IF start >= clamped
           THEN /\ batch' = [batch EXCEPT ![c] = <<>>]
                /\ cpc' = [cpc EXCEPT ![c] = "deliver"]
                /\ UNCHANGED <<deque, base, fillTo>>
           ELSE /\ batch' = [batch EXCEPT ![c] = popped.blocks]
                /\ deque' = SubSeq(deque, popped.drop + 1, Len(deque))
                /\ base' = base + popped.drop
                /\ IF Persist /\ start < prefixEnd
                   THEN /\ cpc' = [cpc EXCEPT ![c] = "fill"]
                        /\ fillTo' = [fillTo EXCEPT ![c] = prefixEnd]
                   ELSE /\ cpc' = [cpc EXCEPT ![c] = "deliver"]
                        /\ UNCHANGED fillTo

\* First __anext__ of a fresh _iterate: read(0, self.length). With nothing to
\* replay it goes on to the wait without suspending. Without a durable backend
\* concurrency.alongside has just scheduled the load task.
Attach(c) ==
    /\ cpc[c] = "idle"
    /\ IF Length = 0
       THEN /\ cpc' = [cpc EXCEPT ![c] = "wait"]
            /\ live' = [live EXCEPT ![c] = TRUE]
            /\ UNCHANGED <<deque, base, fillTo, batch, skewed>>
       ELSE Read(c, 0, Length) /\ UNCHANGED live
    /\ upto' = [upto EXCEPT ![c] = Length]
    /\ snap' = [snap EXCEPT ![c] = Length]
    /\ prod' = IF Persist THEN prod ELSE "source"
    /\ UNCHANGED <<log, total, tokens, stop, held, emitted, cursor, last, notified, got>>

\* FileStreamsBackend.read returns the missing prefix.
Fill(c) ==
    /\ cpc[c] = "fill"
    /\ batch' = [batch EXCEPT ![c] = SubSeq(log, cursor[c] + 1, fillTo[c]) \o @]
    /\ cpc' = [cpc EXCEPT ![c] = "deliver"]
    /\ UNCHANGED <<store, producer, live, cursor, upto, last, fillTo, notified, got, snap, skewed>>

\* The generator yields one block and is resumed by the response.
Deliver(c) ==
    /\ cpc[c] = "deliver"
    /\ batch[c] # <<>>
    /\ got' = [got EXCEPT ![c] = Append(@, Head(batch[c]))]
    /\ batch' = [batch EXCEPT ![c] = Tail(@)]
    /\ UNCHANGED <<store, producer, cpc, live, cursor, upto, last, fillTo, notified, snap, skewed>>

\* The condition of `while not self.done and cursor >= self.length` is over.
News(at) == Done \/ at < Length

\* A batch is done with: the generator ends, or looks for news and else waits.
Finish(c, at, finished) ==
    /\ cursor' = [cursor EXCEPT ![c] = at]
    /\ cpc' = [cpc EXCEPT ![c] = IF finished THEN "ended" ELSE "wait"]
    /\ notified' = [notified EXCEPT ![c] = ~finished /\ News(at)]
    /\ IF finished THEN CancelAlongside ELSE UNCHANGED prod

\* The replay loop is exhausted: `cursor = self.length; done = self.done`.
EndReplay(c) ==
    /\ cpc[c] = "deliver"
    /\ batch[c] = <<>>
    /\ ~live[c]
    /\ live' = [live EXCEPT ![c] = TRUE]
    /\ Finish(c, Length, Done)
    /\ UNCHANGED <<store, held, emitted, upto, last, fillTo, batch, got, snap, skewed>>

\* Mutant of EndTail: the cursor jumps to the current length.
EndTailJumping(c) ==
    /\ cpc[c] = "deliver"
    /\ batch[c] = <<>>
    /\ live[c]
    /\ Finish(c, Length, last[c])
    /\ UNCHANGED <<store, held, emitted, live, upto, last, fillTo, batch, got, snap, skewed>>

\* A tail batch is exhausted: `cursor = length`, then `while not done`.
EndTail(c) ==
    /\ cpc[c] = "deliver"
    /\ batch[c] = <<>>
    /\ live[c]
    /\ Finish(c, upto[c], last[c])
    /\ UNCHANGED <<store, held, emitted, live, upto, last, fillTo, batch, got, snap, skewed>>

\* The wait ends: `length` and `done` are captured and the range is read.
Wake(c) ==
    /\ cpc[c] = "wait"
    /\ notified[c] /\ News(cursor[c])
    /\ notified' = [notified EXCEPT ![c] = FALSE]
    /\ upto' = [upto EXCEPT ![c] = Length]
    /\ last' = [last EXCEPT ![c] = Done]
    /\ Read(c, cursor[c], Length)
    /\ UNCHANGED <<log, total, tokens, stop, producer, live, cursor, got, snap>>

\* Woken by a block it has had already, the generator waits again.
Sleep(c) ==
    /\ notified[c] /\ ~News(cursor[c])
    /\ notified' = [notified EXCEPT ![c] = FALSE]
    /\ UNCHANGED <<store, producer, readers>>

\* The client goes away and the response closes the generator.
Disconnect(c) ==
    /\ cpc[c] \in {"fill", "deliver", "wait"}
    /\ cpc' = [cpc EXCEPT ![c] = "closed"]
    /\ notified' = [notified EXCEPT ![c] = FALSE]
    /\ CancelAlongside
    /\ UNCHANGED <<store, held, emitted, live, cursor, upto, last, fillTo, batch, got, snap, skewed>>

-----------------------------------------------------------------------------
Init ==
    /\ log = <<>> /\ deque = <<>> /\ base = 0 /\ total = 0
    /\ tokens = 0 /\ stop = NotStopped
    /\ prod = "idle" /\ held = NoBlock /\ emitted = 0
    /\ cpc = [c \in Consumers |-> "idle"]
    /\ live = [c \in Consumers |-> FALSE]
    /\ cursor = [c \in Consumers |-> 0]
    /\ upto = [c \in Consumers |-> 0]
    /\ last = [c \in Consumers |-> FALSE]
    /\ fillTo = [c \in Consumers |-> 0]
    /\ batch = [c \in Consumers |-> <<>>]
    /\ got = [c \in Consumers |-> <<>>]
    /\ snap = [c \in Consumers |-> 0]
    /\ notified = [c \in Consumers |-> FALSE]
    /\ skewed = {}

Load == StartLoad \/ Emit \/ EmitStop \/ Raise \/ Exhausted \/ Store \/ Unblock

Iterate(c) == Fill(c) \/ Deliver(c) \/ EndReplay(c) \/ EndTail(c) \/ Wake(c) \/ Sleep(c)

Next ==
    \/ Load
    \/ \E c \in Consumers : Attach(c) \/ Iterate(c) \/ Disconnect(c)

Spec == Init /\ [][Next]_vars

\* The event loop runs every ready coroutine and the server keeps pulling an
\* open response; nobody is obliged to connect or to disconnect.
Fairness == WF_vars(Load) /\ \A c \in Consumers : WF_vars(Iterate(c))

FairSpec == Spec /\ Fairness

-----------------------------------------------------------------------------
(* Properties *)

\* Every variable keeps its type.
TypeOK ==
    /\ log \in Seq(Block) /\ deque \in Seq(Block)
    /\ base \in Nat /\ total \in Nat /\ tokens \in Nat
    /\ stop \in {NotStopped, "stop", "error"}
    /\ prod \in ProducerStates /\ held \in Block /\ emitted \in Nat
    /\ cpc \in [Consumers -> ConsumerStates]
    /\ live \in [Consumers -> BOOLEAN] /\ last \in [Consumers -> BOOLEAN]
    /\ cursor \in [Consumers -> Nat] /\ upto \in [Consumers -> Nat]
    /\ fillTo \in [Consumers -> Nat] /\ snap \in [Consumers -> Nat]
    /\ batch \in [Consumers -> Seq(Block)] /\ got \in [Consumers -> Seq(Block)]
    /\ notified \in [Consumers -> BOOLEAN] /\ skewed \subseteq Consumers

\* The in-flight tier never holds more blocks than its capacity, whatever the
\* consumers pop and whoever wakes the producer.
CapacityRespected == Capacity = Unbounded \/ Len(deque) <= Capacity

\* Both tiers agree on absolute indices: the resident blocks are the last ones
\* appended, each at the durable line of the same index, and the durable tier
\* is ahead by exactly the block a suspended producer is holding.
StoresAligned ==
    /\ base + Len(deque) = total
    /\ Persist =>
         /\ Len(log) = total + (IF prod = "blocked" THEN 1 ELSE 0)
         /\ \A i \in 1..Len(deque) : deque[i] = log[base + i]
    /\ ~Persist => log = <<>>

\* `done` means that the terminal block is in the stores, is the only one, and
\* that nothing follows it (StreamBuffer.done, StreamBuffer.load).
TerminalIsLast ==
    /\ \A i \in 1..Len(log) : Terminal(log[i]) => i = Len(log)
    /\ Persist => (Done <=> total > 0 /\ Terminal(log[total]))

\* The output tokens of a synthesised StopEvent are those of the trace blocks
\* recorded before it (StreamBuffer.error).
TokensAccounted ==
    LET traces(n) == Cardinality({i \in 1..n : log[i].kind = "trace"})
    IN  Persist => /\ tokens = traces(total)
                   /\ \A i \in 1..Len(log) :
                        log[i].kind = "error" => log[i].tokens = traces(i - 1)

\* However a stream ends, its end is the last block and sums up what precedes it.
EndSumsUp == TerminalIsLast /\ TokensAccounted

\* What a consumer has read so far: yielded, and read but not yielded.
Received(c) == got[c] \o batch[c]

\* A consumer none of whose reads fell in a suspension of the producer receives
\* the blocks recorded before it attached and then, contiguously, those recorded
\* after its replay ended: nothing twice, nothing out of order, one gap at most, and
\* that at the replay boundary, whatever the others have popped and however often
\* the producer was suspended meanwhile.
ReplayThenTail ==
    Persist =>
        \A c \in Consumers \ skewed : cpc[c] \in {"deliver", "wait", "ended"} =>
            LET joined == upto[c] - (Len(Received(c)) - snap[c])
            IN  /\ snap[c] <= joined
                /\ Received(c) = SubSeq(log, 1, snap[c]) \o SubSeq(log, joined + 1, upto[c])

\* What a consumer of a recorded stream can rely on, from its first block to its last.
RecordTold == EndSumsUp /\ ReplayThenTail

\* What StreamBuffer.read(s, Length) would return in this state.
ReadResult(s) ==
    LET popped == Pop(s, Length).blocks
    IN  SubSeq(log, s + 1, Length - Len(popped)) \o popped

Larger(x, y) == IF x > y THEN x ELSE y

\* While the producer is not suspended on a full tier, a read from any index up to
\* the end is the durable slice: no hole and no repetition, whatever other
\* consumers have popped.
ReadExact ==
    Persist /\ prod # "blocked" =>
        \A s \in 0..Length : ReadResult(s) = SubSeq(log, s + 1, Length)

\* While it is, the durable tier is one block ahead, and a read that meets the
\* in-flight tier takes the suffix for the end of the range: the first block met
\* comes twice and the block in the producer's hands not at all. No other block
\* is lost, repeated or moved.
ReadShifted ==
    Persist /\ prod = "blocked" =>
        \A s \in 0..Length :
            LET first == Larger(s, base)
            IN  ReadResult(s) = IF first < total
                                THEN SubSeq(log, s + 1, first + 1) \o SubSeq(log, first + 1, total)
                                ELSE SubSeq(log, s + 1, Length)

\* What any read returns, at any time.
ReadsTold == ReadExact /\ ReadShifted

\* "Absolute indices align across both stores by construction" and "consumers
\* reconnecting see no gap" (StreamBuffer.read, StreamBuffer): every read is exact.
ReadsAligned == Persist => \A s \in 0..Length : ReadResult(s) = SubSeq(log, s + 1, Length)

\* Iterating a buffer yields every block from index 0 through completion
\* (StreamBuffer.__aiter__).
ReplayComplete == Persist => \A c \in Consumers : cpc[c] = "ended" => got[c] = log

Gone(c) == cpc[c] \in {"ended", "closed"}

\* Once the stream is done nobody keeps waiting for it.
DoneEndsConsumers == \A c \in Consumers : Done /\ cpc[c] # "idle" ~> Gone(c)

\* A producer suspended on a full tier resumes when there is a consumer to
\* drain it (StreamBuffer.read, InMemoryStreamsBackend.append).
BackpressureReleases ==
    \A c \in Consumers : prod = "blocked" /\ cpc[c] # "idle" ~> prod # "blocked" \/ Gone(c)

\* The client of a buffer without durable tier.
Client == CHOOSE c \in Consumers : TRUE

Numbers(s) == [i \in 1..Len(s) |-> s[i].n]

\* One capacity resident in the tier, one in the client's hands.
AsChannel == INSTANCE Channel WITH
    Bound <- 2 * Capacity,
    sent <- Numbers(Received(Client) \o deque),
    received <- Numbers(got[Client]),
    closed <- Done,
    over <- Gone(Client)

\* The single-step dialects stream through a bounded FIFO channel.
ImplementsChannel == AsChannel!Spec
=============================================================================
