------------------------- MODULE ThreadBridgeProofs -------------------------
(***************************************************************************)
(* Theorems about ThreadBridge, for any number of items and whether or not *)
(* the client may leave. The argument: the phase of the thread determines  *)
(* which put task can be alive (Phase), and as long as the client has not  *)
(* left, the items it has, the one queued and the one in hand are the      *)
(* items taken (Count).                                                    *)
(*                                                                         *)
(* A second part is about FileReader, which shares one slot the same way:  *)
(* the chunks a consumer has and the one in the slot follow one another up *)
(* to where the file object stands (Follow, Offered, Stands).              *)
(***************************************************************************)
EXTENDS ThreadBridge, TLAPS, SequenceTheorems

Left == consumer \in {"draining", "closed"}

Phase ==
    /\ thread \in {"next", "check", "submit"} => itemPut \in {"none", "done"}
    /\ thread \in {"check", "submit"} => taken >= 1
    /\ itemPut \in {"scheduled", "waiting", "woken"} => taken >= 1
    /\ endPut # "none" => thread \in {"sentinel", "exited"}
    /\ thread \in {"sentinel", "exited"} /\ ~Left => itemPut \in {"none", "done"}
    /\ future = "done" => itemPut = "done"
    /\ future = "cancelled" => Left
    /\ itemPut = "dropped" => Left
    /\ cancelled <=> consumer \notin {"getting", "holding"}
    /\ consumer \in {"finishing", "ended"} =>
       thread \in {"sentinel", "exited"} /\ endPut = "done"

Count ==
    /\ Len(queue) \in {0, 1}
    /\ \A i \in 1..Len(got) : got[i] = i
    /\ ~Left =>
         LET n == IF InHand THEN taken - 1 ELSE taken IN
         /\ Len(queue) = 0 => Len(got) = n
         /\ Len(queue) = 1 =>
              \/ queue[1] = n /\ n = Len(got) + 1
              \/ queue[1] = End /\ Len(got) = n /\ endPut = "done"
         /\ consumer \in {"finishing", "ended"} => Len(queue) = 0

Prompt ==
    /\ ahead <= 1
    /\ ahead = 1 => cancelled /\ thread \in {"check", "sentinel", "exited"}

IndInv == TypeOK /\ Phase /\ Count /\ Prompt

-----------------------------------------------------------------------------

\* Every reachable state satisfies the inductive invariant (concurrency.py,
\* iterate: the phases of _produce against the generator).
THEOREM Inductive == Spec => []IndInv
<1> USE MaxItemsAssumption, MayLeaveAssumption
<1>1. Init => IndInv
  <2> SUFFICES ASSUME Init PROVE IndInv
    OBVIOUS
  <2> USE DEF Init
  <2>1. TypeOK
    <3>1. queue \in Seq({End} \cup Items) /\ got \in Seq(Items)
      OBVIOUS
    <3>2. taken \in 0..MaxItems /\ ahead \in 0..MaxItems
      OBVIOUS
    <3>3. /\ thread \in ThreadStates /\ consumer \in ConsumerStates
          /\ itemPut \in PutStates /\ endPut \in PutStates
      BY DEF ThreadStates, PutStates, ConsumerStates
    <3> QED BY <3>1, <3>2, <3>3 DEF TypeOK
  <2>2. Phase
    BY DEF Phase, Left
  <2>3. Count
    BY DEF Count, Left, InHand
  <2>4. Prompt
    BY DEF Prompt
  <2> QED BY <2>1, <2>2, <2>3, <2>4 DEF IndInv
<1>2. IndInv /\ [Next]_vars => IndInv'
  <2> SUFFICES ASSUME IndInv, [Next]_vars
               PROVE  IndInv'
    OBVIOUS
  <2> USE DEF IndInv
  <2>1. CASE SourceYields
    BY <2>1 DEF SourceYields, puts, TypeOK, Phase, Count, Prompt, Left, InHand,
                ThreadStates, PutStates, ConsumerStates, Items, End
  <2>2. CASE SourceEnds
    BY <2>2 DEF SourceEnds, Finally, TypeOK, Phase, Count, Prompt, Left, InHand,
                ThreadStates, PutStates, ConsumerStates, Items, End
  <2>3. CASE CheckCancelled
    BY <2>3 DEF CheckCancelled, Finally, puts, TypeOK, Phase, Count, Prompt, Left,
                InHand, ThreadStates, PutStates, ConsumerStates, Items, End
  <2>4. CASE Submit
    BY <2>4 DEF Submit, TypeOK, Phase, Count, Prompt, Left, InHand,
                ThreadStates, PutStates, ConsumerStates, Items, End
  <2>5. CASE Register
    BY <2>5 DEF Register, puts, TypeOK, Phase, Count, Prompt, Left, InHand,
                ThreadStates, PutStates, ConsumerStates, Items, End
  <2>6. CASE Result
    <3>1. CASE future = "done" /\ thread' = "next"
      <4>1. UNCHANGED <<taken, ahead, puts, queue, cancelled, consumer, got>>
            /\ pending' = FALSE /\ thread = "result"
        BY <2>6, <3>1 DEF Result, Finally
      <4>2. TypeOK'
        BY <3>1, <4>1 DEF TypeOK, puts, ThreadStates
      <4>3. Phase'
        BY <3>1, <4>1 DEF Phase, puts, Left
      <4>4. InHand' = InHand
        BY <3>1, <4>1 DEF InHand, puts
      <4>5. Count'
        BY <3>1, <4>1, <4>4 DEF Count, puts, Left
      <4>6. Prompt'
        BY <3>1, <4>1 DEF Prompt, TypeOK
      <4> QED BY <4>2, <4>3, <4>5, <4>6
    <3>2. CASE future = "cancelled" /\ Finally
      BY <2>6, <3>2 DEF Result, Finally, puts, TypeOK, Phase, Count, Prompt, Left,
                InHand, ThreadStates, PutStates, ConsumerStates, Items, End
    <3> QED BY <2>6, <3>1, <3>2 DEF Result
  <2>7. CASE Exit
    BY <2>7 DEF Exit, puts, TypeOK, Phase, Count, Prompt, Left, InHand,
                ThreadStates, PutStates, ConsumerStates, Items, End
  <2>8. CASE RunItemPut
    <3>1. /\ queue \in Seq({End} \cup Items) /\ Len(queue) \in {0, 1}
          /\ itemPut \in {"scheduled", "woken"}
          /\ UNCHANGED <<thread, taken, ahead, pending, endPut, cancelled, consumer, got>>
      BY <2>8 DEF RunItemPut, producing, TypeOK, Count
    <3>2. CASE Room
      <4>1. queue = <<>> /\ queue' = Append(queue, taken) /\ itemPut' = "done"
            /\ future' = IF future = "cancelled" THEN "cancelled" ELSE "done"
        BY <2>8, <3>1, <3>2, EmptySeq DEF RunItemPut, Room
      <4>2. taken \in {End} \cup Items /\ queue' = <<taken>>
        BY <3>1, <4>1 DEF TypeOK, Phase, Items, End
      <4>3. queue' \in Seq({End} \cup Items) /\ Len(queue') = 1 /\ queue'[1] = taken
        BY <4>2
      <4>4. TypeOK'
        BY <3>1, <4>1, <4>3 DEF TypeOK, PutStates
      <4>5. Phase'
        BY <3>1, <4>1 DEF Phase, Left, TypeOK
      <4>6. Count'
        BY <3>1, <4>1, <4>3 DEF Count, Phase, InHand, Left, TypeOK
      <4>7. Prompt'
        BY <3>1 DEF Prompt
      <4> QED BY <4>4, <4>5, <4>6, <4>7
    <3>3. CASE ~Room
      BY <2>8, <3>1, <3>3 DEF RunItemPut, TypeOK, Phase, Count, Prompt, Left, InHand, PutStates
    <3> QED BY <3>2, <3>3
  <2>9. CASE RunEndPut
    <3>1. /\ queue \in Seq({End} \cup Items) /\ Len(queue) \in {0, 1}
          /\ endPut \in {"scheduled", "woken"}
          /\ UNCHANGED <<thread, taken, ahead, pending, itemPut, cancelled, consumer, got>>
      BY <2>9 DEF RunEndPut, producing, TypeOK, Count
    <3>2. CASE Room
      <4>1. queue = <<>> /\ queue' = Append(queue, End) /\ endPut' = "done"
            /\ future' = future
        BY <2>9, <3>1, <3>2, EmptySeq DEF RunEndPut, Room
      <4>2. End \in {End} \cup Items /\ queue' = <<End>>
        BY <3>1, <4>1 DEF TypeOK, Phase, Items, End
      <4>3. queue' \in Seq({End} \cup Items) /\ Len(queue') = 1 /\ queue'[1] = End
        BY <4>2
      <4>4. TypeOK'
        BY <3>1, <4>1, <4>3 DEF TypeOK, PutStates
      <4>5. Phase'
        BY <3>1, <4>1 DEF Phase, Left, TypeOK
      <4>6. Count'
        BY <3>1, <4>1, <4>3 DEF Count, Phase, InHand, Left, TypeOK
      <4>7. Prompt'
        BY <3>1 DEF Prompt
      <4> QED BY <4>4, <4>5, <4>6, <4>7
    <3>3. CASE ~Room
      BY <2>9, <3>1, <3>3 DEF RunEndPut, TypeOK, Phase, Count, Prompt, Left, InHand, PutStates
    <3> QED BY <3>2, <3>3
  <2>10. CASE Get
    <3>1. Len(queue) = 1 /\ Head(queue) = queue[1] /\ Tail(queue) = <<>>
      <4>1. queue \in Seq({End} \cup Items) /\ queue # <<>> /\ Len(queue) \in {0, 1}
        BY <2>10 DEF Get, TypeOK, Count
      <4>2. Len(queue) = 1 /\ Head(queue) = queue[1]
        BY ONLY <4>1, EmptySeq
      <4>3. Tail(queue) \in Seq({End} \cup Items) /\ Len(Tail(queue)) = 0
        BY ONLY <4>1, <4>2, HeadTailProperties
      <4>4. Tail(queue) = <<>>
        BY ONLY <4>3, EmptySeq
      <4> QED BY <4>2, <4>4
    <3>2. /\ UNCHANGED <<thread, taken, ahead, pending, future>>
          /\ queue' = <<>> /\ Len(queue') = 0
          /\ itemPut' = Wake(itemPut) /\ endPut' = Wake(endPut)
          /\ consumer = "getting"
      BY <2>10, <3>1 DEF Get, producing
    <3>3. (itemPut \in PutStates /\ endPut \in PutStates)'
      BY <3>2 DEF TypeOK, PutStates, Wake
    <3>4. InHand' = InHand
      BY <3>2 DEF InHand, Wake
    <3>5. CASE Head(queue) # End
      <4>1. got' = Append(got, queue[1]) /\ consumer' = "holding" /\ cancelled' = cancelled
        BY <2>10, <3>1, <3>5 DEF Get
      <4>2. queue[1] = Len(got) + 1 /\ queue[1] \in Items /\ ~Left
        BY <3>1, <3>2, <3>5 DEF Count, TypeOK, Left, Items, End
      <4>3. TypeOK'
        BY <3>2, <3>3, <4>1, <4>2 DEF TypeOK, ConsumerStates
      <4>4. Phase'
        BY <3>2, <4>1 DEF Phase, Wake, Left, TypeOK
      <4>5. Count'
        <5>1. Len(got') = Len(got) + 1 /\ \A i \in 1..Len(got') : got'[i] = i
          BY <4>1, <4>2 DEF Count, TypeOK
        <5> QED BY <3>1, <3>2, <3>4, <3>5, <4>2, <5>1 DEF Count, Left, TypeOK
      <4>6. Prompt'
        BY <3>2, <4>1 DEF Prompt
      <4> QED BY <4>3, <4>4, <4>5, <4>6
    <3>6. CASE Head(queue) = End
      <4>1. got' = got /\ consumer' = "finishing" /\ cancelled' = TRUE
        BY <2>10, <3>1, <3>6 DEF Get
      <4>2. thread \in {"sentinel", "exited"} /\ endPut = "done" /\ ~Left
            /\ Len(got) = IF InHand THEN taken - 1 ELSE taken
        BY <3>1, <3>2, <3>6 DEF Count, Phase, Left, End, TypeOK
      <4>3. TypeOK'
        BY <3>2, <3>3, <4>1 DEF TypeOK, ConsumerStates
      <4>4. Phase'
        BY <3>2, <4>1, <4>2 DEF Phase, Wake, Left, TypeOK
      <4>5. Count'
        BY <3>2, <3>4, <4>1, <4>2 DEF Count, Left
      <4>6. Prompt'
        BY <3>2, <4>1 DEF Prompt
      <4> QED BY <4>3, <4>4, <4>5, <4>6
    <3> QED BY <3>5, <3>6
  <2>11. CASE Ask
    BY <2>11 DEF Ask, producing, puts, TypeOK, Phase, Count, Prompt, Left, InHand,
                ThreadStates, PutStates, ConsumerStates, Items, End
  <2>12. CASE Joined
    BY <2>12 DEF Joined, producing, puts, TypeOK, Phase, Count, Prompt, Left,
                InHand, ThreadStates, PutStates, ConsumerStates, Items, End
  <2>13. CASE Leave
    BY <2>13 DEF Leave, Wake, producing, TypeOK, Phase, Count, Prompt, Left,
                InHand, ThreadStates, PutStates, ConsumerStates, Items, End
  <2>14. CASE UNCHANGED vars
    BY <2>14 DEF vars, producing, puts, TypeOK, Phase, Count, Prompt, Left, InHand,
                ThreadStates, PutStates, ConsumerStates, Items, End
  <2> QED
    BY <2>1, <2>2, <2>3, <2>4, <2>5, <2>6, <2>7, <2>8, <2>9, <2>10, <2>11, <2>12,
       <2>13, <2>14 DEF Next, Producer, Source, Loop, Generator
<1> QED
  BY <1>1, <1>2, PTL DEF Spec

\* Type correctness of the bridge, for every length of the source.
THEOREM TypeCorrect == Spec => []TypeOK
BY Inductive, PTL DEF IndInv

\* The generator ends by itself only after every item (the sentinel never
\* overtakes one), whatever the thread and the loop interleave.
THEOREM SentinelIsLast == Spec => []EndIsLast
<1>1. IndInv => EndIsLast
  BY DEF IndInv, TypeOK, Phase, Count, EndIsLast, InHand, Left, Items
<1> QED BY <1>1, Inductive, PTL

\* The source is at most one item ahead of the queue.
THEOREM Backpressure == Spec => []SourceWaits
<1>1. IndInv => SourceWaits
  <2> SUFFICES ASSUME IndInv, ~cancelled
               PROVE  taken <= Len(got) + 2
    BY DEF SourceWaits
  <2>1. ~Left
    BY DEF IndInv, Phase, Left, TypeOK
  <2>2. got \in Seq(Items) /\ queue \in Seq({End} \cup Items) /\ taken \in Nat
    BY MaxItemsAssumption DEF IndInv, TypeOK
  <2>3. Len(got) \in Nat /\ Len(queue) \in Nat
    BY <2>2
  <2>4. Len(queue) = 0 \/ Len(queue) = 1
    BY DEF IndInv, Count
  <2>5. /\ Len(queue) = 0 => Len(got) = IF InHand THEN taken - 1 ELSE taken
        /\ Len(queue) = 1 =>
             \/ queue[1] = (IF InHand THEN taken - 1 ELSE taken)
                /\ (IF InHand THEN taken - 1 ELSE taken) = Len(got) + 1
             \/ queue[1] = End /\ Len(got) = IF InHand THEN taken - 1 ELSE taken
    BY <2>1 DEF IndInv, Count
  <2>6. taken - 1 <= Len(got) + 1
    BY <2>2, <2>3, <2>4, <2>5
  <2> QED BY <2>2, <2>3, <2>6
<1> QED BY <1>1, Inductive, PTL

\* After the cancellation the source is advanced at most once more.
THEOREM Promptness == Spec => []StopsPromptly
<1>1. IndInv => StopsPromptly
  BY DEF IndInv, Prompt, StopsPromptly
<1> QED BY <1>1, Inductive, PTL

\* Until the client leaves it receives the items of the source in order.
THEOREM OrderKept == Spec => []InOrder
<1>1. IndInv => InOrder
  <2> SUFFICES ASSUME IndInv, ~Left
               PROVE  \E rest \in {<<>>, <<End>>} :
                        got \o queue =
                          [i \in 1..(IF InHand THEN taken - 1 ELSE taken) |-> i] \o rest
    BY DEF InOrder, Left
  <2> DEFINE n == IF InHand THEN taken - 1 ELSE taken
             items == [i \in 1..n |-> i]
  <2>1. /\ got \in Seq(Items) /\ Len(got) \in Nat /\ Len(queue) \in {0, 1}
        /\ queue \in Seq({End} \cup Items)
        /\ \A i \in 1..Len(got) : got[i] = i
    <3>1. got \in Seq(Items) /\ queue \in Seq({End} \cup Items)
      BY DEF IndInv, TypeOK
    <3>2. Len(queue) \in {0, 1} /\ \A i \in 1..Len(got) : got[i] = i
      BY DEF IndInv, Count
    <3>3. Len(got) \in Nat
      BY <3>1
    <3> QED BY ONLY <3>1, <3>2, <3>3
  <2>2. /\ Len(queue) = 0 => Len(got) = n
        /\ Len(queue) = 1 => \/ queue[1] = n /\ n = Len(got) + 1
                             \/ queue[1] = End /\ Len(got) = n
    BY DEF IndInv, Count
  <2>3. n \in Nat
    BY <2>1, <2>2
  <2>4. items \in Seq(Nat) /\ Len(items) = n /\ \A i \in 1..n : items[i] = i
    BY <2>3
  <2>5. got \in Seq(Nat) /\ queue \in Seq(Nat)
    <3>1. Items \subseteq Nat /\ {End} \cup Items \subseteq Nat
      BY MaxItemsAssumption DEF Items, End
    <3> QED BY <2>1, <3>1
  <2> HIDE DEF n, items
  <2>7. CASE Len(queue) = 0
    <3>1. queue = <<>>
      BY <2>1, <2>7
    <3>2. Len(got) = Len(items) /\ \A i \in 1..Len(got) : got[i] = items[i]
      BY <2>1, <2>2, <2>4, <2>7
    <3>3. got = items
      BY ONLY <2>4, <2>5, <3>2, SeqEqual
    <3>4. got \o queue = items \o <<>>
      BY <3>1, <3>3
    <3> QED BY <3>4 DEF n, items
  <2>8. CASE Len(queue) = 1 /\ queue[1] = n /\ n = Len(got) + 1
    <3> DEFINE all == got \o queue
    <3>1. all \in Seq(Nat) /\ Len(all) = Len(got) + Len(queue)
          /\ \A i \in 1..(Len(got) + Len(queue)) :
               all[i] = IF i <= Len(got) THEN got[i] ELSE queue[i - Len(got)]
      BY ONLY <2>5, ConcatProperties
    <3> HIDE DEF all
    <3>4. Len(all) = Len(items) /\ \A i \in 1..Len(all) : all[i] = items[i]
      <4>1. Len(all) = n
        BY <2>1, <2>8, <3>1
      <4>2. ASSUME NEW i \in 1..n PROVE all[i] = i
        <5>1. CASE i <= Len(got)
          BY <2>1, <2>8, <3>1, <5>1
        <5>2. CASE i = n
          BY <2>1, <2>8, <3>1, <5>2
        <5> QED BY <2>1, <2>8, <5>1, <5>2
      <4> QED BY <2>4, <4>1, <4>2
    <3>5. all = items
      BY ONLY <2>4, <3>1, <3>4, SeqEqual
    <3>2. got \o queue = items
      BY <3>5 DEF all
    <3>3. got \o queue = items \o <<>>
      BY <2>4, <3>2, ConcatEmptySeq
    <3> QED BY <3>3 DEF n, items
  <2>9. CASE Len(queue) = 1 /\ queue[1] = End /\ Len(got) = n
    <3>1. queue = <<End>>
      BY <2>1, <2>9
    <3>2. Len(got) = Len(items) /\ \A i \in 1..Len(got) : got[i] = items[i]
      BY <2>1, <2>2, <2>4, <2>9
    <3>3. got = items
      BY ONLY <2>4, <2>5, <3>2, SeqEqual
    <3>4. got \o queue = items \o <<End>>
      BY <3>1, <3>3
    <3> QED BY <3>4 DEF n, items
  <2>10. Len(queue) = 0 \/ Len(queue) = 1
    BY <2>1
  <2> QED BY <2>2, <2>7, <2>8, <2>9, <2>10
<1> QED BY <1>1, Inductive, PTL

\* The client is served faithfully: the items in order and then the end, for a
\* source of any length and whatever the thread and the loop interleave.
THEOREM Faithfulness == Spec => []Faithful
BY OrderKept, SentinelIsLast, PTL DEF Faithful

\* The source is held back while the client is slow and stops once it left.
THEOREM Restraint == Spec => []Restrained
BY Backpressure, Promptness, PTL DEF Restrained

-----------------------------------------------------------------------------
(* The reader of a file: what a task and its consumer share is one slot, as between the thread and the     *)
(* generator. `slot` and `chunks` are the queue of FileReader and what its consumer got.                    *)
CONSTANTS MaxSize, ChunkSizes, MayFail
VARIABLES file, task, pos, remaining, held, failed, reader, slot, chunks

File == INSTANCE FileReader WITH queue <- slot, got <- chunks

\* The assumptions of FileReader.
Sized == MaxSize \in Nat /\ ChunkSizes \subseteq Nat \ {0} /\ MayFail \in BOOLEAN

Chunk == (0..MaxSize) \X (0..MaxSize)
Puttable == Chunk \cup {File!Sentinel}

\* What the variables hold, and that what waits to be put is within what remains.
ReaderTypes ==
    /\ file \in File!Asked
    /\ task \in File!TaskStates /\ reader \in File!ReaderStates
    /\ pos \in 0..MaxSize /\ remaining \in 0..MaxSize
    /\ failed \in BOOLEAN
    /\ slot \in Seq(Puttable) /\ Len(slot) <= 1
    /\ chunks \in Seq(Chunk)
    /\ held \in Puttable
    /\ task = "putting" => /\ held \in Chunk /\ held[1] < held[2]
                           /\ File!Bounded => held[2] - held[1] <= remaining

\* Where the chunks that the consumer has end, and those that were put.
Got == IF chunks = <<>> THEN file.start ELSE chunks[Len(chunks)][2]
Put == IF slot = <<>> \/ slot[1] = File!Sentinel THEN Got ELSE slot[1][2]
Whole == File!Lesser(file.end, file.size)

\* The chunks of the consumer follow one another from the start of the range.
Follow ==
    /\ chunks # <<>> => chunks[1][1] = file.start /\ Got > file.start
    /\ \A i \in 2..Len(chunks) : chunks[i][1] = chunks[i - 1][2]

\* What is in the slot goes on from there, and the sentinel is in it only when the task has ended.
Offered ==
    /\ slot # <<>> /\ slot[1] = File!Sentinel => task = "finished"
    /\ slot # <<>> /\ slot[1] # File!Sentinel => slot[1][1] = Got /\ slot[1][1] < slot[1][2]
    /\ reader = "ended" => slot = <<>> /\ task = "finished"

\* Where the file object stands: behind what was put and what waits, within the file and the range, and at
\* the end of both when the loop is left.
Stands ==
    /\ task \in {"reading", "closing", "ending", "finished"} => pos = Put
    /\ task = "putting" => held[1] = Put /\ held[2] = pos
    /\ file.start <= pos /\ pos <= file.end
    /\ pos > file.start => pos <= file.size
    /\ task \in {"closing", "ending", "finished"} => pos >= Whole
    /\ File!Bounded /\ task = "reading" => remaining = file.end - pos
    /\ File!Bounded /\ task = "putting" => remaining = file.end - held[1]

Stays == reader \in {"getting", "holding", "ended"} /\ ~failed

\* As long as the consumer stays and the file raises nothing.
InRange ==
    /\ reader = "new" => task = "idle" /\ chunks = <<>> /\ slot = <<>>
    /\ Stays =>
        /\ task \in {"opening", "reading", "putting", "closing", "ending", "finished"}
        /\ task = "opening" => chunks = <<>> /\ slot = <<>> /\ reader # "ended"
        /\ Follow /\ Offered
        /\ task # "opening" => Stands

ReaderInv == ReaderTypes /\ InRange

\* A sequence of one element.
LEMMA OneIs == \A c : <<c>> # <<>> /\ <<c>>[1] = c /\ Len(<<c>>) = 1 /\ Head(<<c>>) = c
OBVIOUS

\* A chunk is a pair of offsets, and no sentinel.
LEMMA ChunkIs ==
    \A c \in Chunk : c # File!Sentinel /\ c[1] \in 0..MaxSize /\ c[2] \in 0..MaxSize /\ c = <<c[1], c[2]>>
BY DEF Chunk, File!Sentinel

\* The slot is empty or holds one element.
LEMMA SlotIs ==
    ASSUME ReaderTypes
    PROVE  /\ slot # <<>> => slot[1] \in Puttable /\ Head(slot) = slot[1] /\ Tail(slot) = <<>>
           /\ File!Room <=> slot = <<>>
           /\ File!Room => \A c : Append(slot, c) = <<c>>
<1>1. slot \in Seq(Puttable) /\ Len(slot) <= 1
  BY DEF ReaderTypes
<1>2. CASE slot = <<>>
  BY <1>2 DEF File!Room
<1>3. CASE slot # <<>>
  <2>1. Len(slot) \in Nat \ {0}
    BY <1>1, <1>3, EmptySeq
  <2>2. Len(slot) = 1
    <3>1. \A n \in Nat \ {0} : n <= 1 => n = 1
      OBVIOUS
    <3> QED BY ONLY <3>1, <1>1, <2>1
  <2>3. Tail(slot) \in Seq(Puttable) /\ Len(Tail(slot)) = 0
    BY <1>1, <1>3, <2>2, HeadTailProperties
  <2>4. Tail(slot) = <<>>
    BY <2>3, EmptySeq
  <2>5. slot[1] \in Puttable
    <3>1. slot \in [1..1 -> Puttable]
      BY <1>1, <2>2, LenProperties
    <3> QED BY ONLY <3>1
  <2> QED BY <1>1, <1>3, <2>2, <2>4, <2>5 DEF File!Room
<1> QED BY <1>2, <1>3

\* The range asked for.
LEMMA AskedIs ==
    ASSUME Sized, ReaderTypes
    PROVE  /\ file.size \in 0..MaxSize /\ file.start \in 0..MaxSize /\ file.end \in 0..(MaxSize + 1)
           /\ file.chunk \in Nat \ {0} /\ file.start <= file.end
           /\ File!Bounded <=> file.end # MaxSize + 1
BY DEF Sized, ReaderTypes, File!Asked, File!Files, File!NoEnd, File!Bounded

\* The chunks of the consumer.
LEMMA ChunksAre ==
    ASSUME ReaderTypes
    PROVE  /\ Len(chunks) \in Nat /\ \A i \in 1..Len(chunks) : chunks[i] \in Chunk
           /\ chunks # <<>> => Len(chunks) >= 1
<1>1. chunks \in Seq(Chunk)
  BY DEF ReaderTypes
<1> QED BY <1>1, EmptySeq, LenProperties

\* The reader begins with nothing put.
LEMMA RangeBegins == ASSUME Sized, File!Init PROVE ReaderInv
<1>1. slot = <<>> /\ chunks = <<>> /\ task = "idle" /\ reader = "new" /\ held = File!Sentinel /\ pos = 0
      /\ remaining = 0 /\ failed = FALSE /\ file \in File!Asked
  BY DEF File!Init
<1>2. Len(slot) <= 1 /\ slot \in Seq(Puttable) /\ chunks \in Seq(Chunk)
  BY <1>1, EmptySeq
<1>3. ReaderTypes
  <2>1. task \in File!TaskStates /\ reader \in File!ReaderStates /\ task # "putting"
    BY <1>1 DEF File!TaskStates, File!Over, File!ReaderStates
  <2>2. pos \in 0..MaxSize /\ remaining \in 0..MaxSize
    BY <1>1 DEF Sized
  <2>3. held \in Puttable
    BY <1>1 DEF Puttable
  <2> QED BY ONLY <1>1, <1>2, <2>1, <2>2, <2>3 DEF ReaderTypes
<1>4. InRange
  BY <1>1 DEF InRange, Stays
<1> QED BY <1>3, <1>4 DEF ReaderInv

\* What depends on the range and on what was put and taken only.
LEMMA FlowStays ==
    ASSUME file' = file, chunks' = chunks
    PROVE  /\ Got' = Got /\ Whole' = Whole /\ (File!Bounded)' = File!Bounded /\ Follow' = Follow
           /\ slot' = slot => Put' = Put
           /\ \A c \in Chunk : slot' = <<c>> => Put' = c[2]
           /\ slot' = <<File!Sentinel>> => Put' = Got
<1>1. Got' = Got /\ Whole' = Whole /\ (File!Bounded)' = File!Bounded
  BY DEF Got, Whole, File!Lesser, File!Bounded
<1>2. Follow' = Follow
  BY <1>1 DEF Follow
<1>3. slot' = slot => Put' = Put
  BY <1>1 DEF Put
<1>4. \A c \in Chunk : slot' = <<c>> => Put' = c[2]
  BY ChunkIs, OneIs DEF Put
<1>5. slot' = <<File!Sentinel>> => Put' = Got
  BY <1>1, OneIs DEF Put
<1> QED BY <1>1, <1>2, <1>3, <1>4, <1>5

\* The file object goes to the start of the range.
LEMMA OpenKeeps == ASSUME Sized, ReaderInv, File!Opened PROVE ReaderInv'
<1> USE DEF ReaderInv
<1>1. /\ task = "opening" /\ task' = "reading" /\ pos' = file.start
      /\ remaining' = (IF File!Bounded THEN file.end - file.start ELSE 0)
      /\ file' = file /\ held' = held /\ failed' = failed /\ slot' = slot /\ reader' = reader /\ chunks' = chunks
  BY DEF File!Opened
<1>2. ReaderTypes'
  <2>1. pos' \in 0..MaxSize /\ remaining' \in 0..MaxSize
    BY <1>1, AskedIs DEF Sized
  <2> QED BY <1>1, <2>1 DEF ReaderTypes, File!TaskStates
<1>3. InRange'
  <2> SUFFICES ASSUME Stays' PROVE Follow' /\ Offered' /\ Stands'
    BY <1>1 DEF InRange
  <2>1. Follow /\ Offered /\ chunks = <<>> /\ slot = <<>> /\ reader # "ended"
    BY <1>1 DEF InRange, Stays
  <2>2. Follow' /\ Got' = file.start /\ Put' = file.start
    BY <1>1, <2>1, FlowStays DEF Got, Put
  <2>3. Offered'
    BY <1>1, <2>1 DEF Offered
  <2>4. Stands'
    BY <1>1, <2>2, AskedIs, FlowStays DEF Stands
  <2> QED BY <2>2, <2>3, <2>4
<1> QED BY <1>2, <1>3

\* An error of the file: the consumer no longer comes to a true end.
LEMMA FailKeeps == ASSUME Sized, ReaderInv, File!OpenFails \/ File!ReadFails PROVE ReaderInv'
<1> USE DEF ReaderInv
<1>1. /\ task \in {"opening", "reading"} /\ task' \in {"failed", "closing"} /\ failed' = TRUE
      /\ file' = file /\ held' = held /\ slot' = slot /\ reader' = reader /\ chunks' = chunks
      /\ pos' = pos /\ remaining' = remaining
  BY DEF File!OpenFails, File!ReadFails
<1>2. ReaderTypes'
  BY <1>1 DEF ReaderTypes, File!TaskStates, File!Over
<1>3. InRange'
  BY <1>1 DEF InRange, Stays
<1> QED BY <1>2, <1>3

\* A chunk is counted: what remains is the rest of the range.
LEMMA CountIs ==
    ASSUME Sized, ReaderTypes, NEW c \in Chunk, File!Counted(c), c[1] < c[2],
           File!Bounded => c[2] - c[1] <= remaining
    PROVE  /\ remaining' \in 0..MaxSize /\ task' \in {"reading", "closing"}
           /\ ~File!Bounded => task' = "reading"
           /\ File!Bounded => /\ remaining' = remaining - (c[2] - c[1])
                              /\ task' = "closing" => remaining' = 0
<1>1. remaining \in 0..MaxSize /\ MaxSize \in Nat
  BY DEF ReaderTypes, Sized
<1>2. remaining' = IF File!Bounded THEN remaining - (c[2] - c[1]) ELSE remaining
  BY DEF File!Counted
<1>3. task' = IF File!Bounded /\ remaining' <= 0 THEN "closing" ELSE "reading"
  BY DEF File!Counted
<1>4. remaining' \in 0..MaxSize
  BY <1>1, <1>2, ChunkIs
<1> QED BY <1>1, <1>2, <1>3, <1>4, ChunkIs

\* A chunk goes into the empty slot, from where the chunks put before it end to where the file object stands.
LEMMA PutKeeps ==
    ASSUME Sized, ReaderInv, NEW c \in Chunk, c[1] < c[2], slot = <<>>, slot' = <<c>>,
           task \in {"reading", "putting"}, task' \in {"reading", "closing"},
           file' = file, held' = held, failed' = failed, reader' = reader, chunks' = chunks,
           pos' \in 0..MaxSize, remaining' \in 0..MaxSize, 
           Stays => /\ c[1] = Put /\ c[2] = pos' /\ pos' > file.start /\ pos' <= file.size /\ pos' <= file.end
                    /\ File!Bounded /\ task' = "reading" => remaining' = file.end - pos'
                    /\ task' = "closing" => pos' >= Whole
    PROVE  ReaderInv'
<1> USE DEF ReaderInv
<1>1. ReaderTypes'
  <2>1. slot' \in Seq(Puttable) /\ Len(slot') = 1
    BY OneIs DEF Puttable
  <2>2. task' \in File!TaskStates
    BY DEF File!TaskStates
  <2> QED BY <2>1, <2>2 DEF ReaderTypes
<1>2. InRange'
  <2> SUFFICES ASSUME Stays' PROVE Follow' /\ Offered' /\ Stands' /\ reader # "new"
    BY DEF InRange
  <2>1. Stays /\ Follow /\ Offered /\ reader # "new"
    BY DEF InRange, Stays
  <2>2. Follow' /\ Got' = Got /\ Put' = c[2] /\ Put = Got /\ (File!Bounded)' = File!Bounded /\ Whole' = Whole
    BY <2>1, FlowStays DEF Put
  <2>3. slot'[1] = c /\ c # File!Sentinel
    BY OneIs, ChunkIs
  <2>4. Offered'
    BY <2>1, <2>2, <2>3 DEF Offered
  <2>5. Stands'
    BY <2>1, <2>2, AskedIs DEF Stands
  <2> QED BY <2>1, <2>2, <2>4, <2>5
<1> QED BY <1>1, <1>2

\* A chunk that was read is put, waits, or is the end of the file or the range.
LEMMA ReadKeeps == ASSUME Sized, ReaderInv, File!ReadChunk PROVE ReaderInv'
<1> USE DEF ReaderInv
<1> DEFINE to == File!Lesser(pos + File!ReadSize, file.size)
           c == <<pos, to>>
<1>1. task = "reading" /\ file' = file /\ failed' = failed /\ reader' = reader /\ chunks' = chunks
  BY DEF File!ReadChunk
<1>2. \/ to <= pos /\ task' = "closing" /\ pos' = pos /\ remaining' = remaining /\ held' = held /\ slot' = slot
      \/ /\ to > pos /\ pos' = to /\ File!Room
         /\ slot' = Append(slot, c) /\ File!Counted(c) /\ held' = held
      \/ /\ to > pos /\ pos' = to /\ ~File!Room
         /\ held' = c /\ task' = "putting" /\ remaining' = remaining /\ slot' = slot
  BY DEF File!ReadChunk
<1>3. /\ pos \in 0..MaxSize /\ remaining \in 0..MaxSize /\ MaxSize \in Nat
      /\ File!ReadSize = (IF File!Bounded THEN File!Lesser(file.chunk, remaining) ELSE file.chunk)
  BY DEF ReaderTypes, Sized, File!ReadSize
<1>4. /\ File!ReadSize \in Nat
      /\ File!Bounded => File!ReadSize <= remaining
      /\ ~File!Bounded \/ remaining > 0 => File!ReadSize > 0
  BY <1>3, AskedIs DEF File!Lesser
<1>5. to \in 0..MaxSize /\ to <= file.size /\ to <= pos + File!ReadSize
      /\ (to = pos + File!ReadSize \/ to = file.size)
  BY <1>3, <1>4, AskedIs DEF File!Lesser
<1> HIDE DEF to
<1>6. Stays => /\ Follow /\ Offered /\ reader # "new" /\ pos = Put
               /\ file.start <= pos /\ pos <= file.end
               /\ pos > file.start => pos <= file.size
               /\ File!Bounded => remaining = file.end - pos
  BY <1>1 DEF InRange, Stays, Stands
<1>7. CASE to <= pos /\ task' = "closing" /\ pos' = pos /\ remaining' = remaining /\ held' = held /\ slot' = slot
  <2>1. ReaderTypes'
    BY <1>1, <1>7 DEF ReaderTypes, File!TaskStates
  <2>2. pos >= file.size \/ File!ReadSize = 0
    BY <1>3, <1>4, <1>5, <1>7, AskedIs
  <2>3. Stays => pos >= Whole
    BY <1>3, <1>4, <1>6, <2>2, AskedIs DEF Whole, File!Lesser
  <2>4. ASSUME Stays' PROVE Follow' /\ Offered' /\ Stands' /\ reader' # "new"
    <3>1. Stays /\ Follow' /\ Got' = Got /\ Put' = Put /\ Whole' = Whole /\ (File!Bounded)' = File!Bounded
      BY <1>1, <1>6, <1>7, <2>4, FlowStays DEF Stays
    <3>2. Offered'
      BY <1>1, <1>6, <1>7, <3>1, <2>4 DEF Offered
    <3>3. Stands'
      BY <1>1, <1>6, <1>7, <2>3, <3>1 DEF Stands
    <3> QED BY <1>1, <1>6, <3>1, <3>2, <3>3
  <2>5. InRange'
    BY <1>1, <1>7, <2>4 DEF InRange, Stays
  <2> QED BY <2>1, <2>5
<1>8. ASSUME to > pos 
      PROVE  c \in Chunk /\ c[1] = pos /\ c[2] = to /\ c[1] < c[2] /\ (File!Bounded => c[2] - c[1] <= remaining)
  <2>1. File!Bounded => to - pos <= remaining
    BY <1>3, <1>4, <1>5
  <2> QED BY <1>3, <1>5, <1>8, <2>1 DEF Chunk
<1> HIDE DEF c
<1>9. CASE to > pos /\ pos' = to /\ File!Room /\ slot' = Append(slot, c) /\ File!Counted(c) /\ held' = held
  <2>1. slot = <<>> /\ slot' = <<c>>
    BY <1>9, SlotIs
  <2>2. /\ remaining' \in 0..MaxSize /\ task' \in {"reading", "closing"}
        /\ ~File!Bounded => task' = "reading"
        /\ File!Bounded => /\ remaining' = remaining - (c[2] - c[1])
                           /\ task' = "closing" => remaining' = 0
    BY <1>3, <1>5, <1>8, <1>9, CountIs
  <2>3. ASSUME Stays
        PROVE  /\ to > file.start /\ to <= file.end
               /\ File!Bounded /\ task' = "reading" => remaining' = file.end - to
               /\ task' = "closing" => to >= Whole
    <3>1. to > file.start /\ to <= file.end
      BY <1>3, <1>4, <1>5, <1>6, <1>9, <2>3, AskedIs
    <3>2. File!Bounded => remaining' = file.end - to
      <4>1. File!Bounded => remaining' = remaining - (to - pos) /\ remaining = file.end - pos
        BY <1>6, <1>8, <1>9, <2>2, <2>3
      <4>2. pos \in Int /\ to \in Int /\ file.end \in Int
        BY <1>3, <1>5, AskedIs
      <4>3. \A e, p, t \in Int : (e - p) - (t - p) = e - t
        OBVIOUS
      <4> QED BY ONLY <4>1, <4>2, <4>3
    <3>3. task' = "closing" => to = file.end
      BY <1>5, <2>2, <3>2, AskedIs
    <3>4. file.end >= Whole
      BY AskedIs DEF Whole, File!Lesser
    <3> QED BY <3>1, <3>2, <3>3, <3>4
  <2> QED BY <1>1, <1>5, <1>6, <1>8, <1>9, <2>1, <2>2, <2>3, PutKeeps
<1>10. CASE /\ to > pos /\ pos' = to /\ ~File!Room
            /\ held' = c /\ task' = "putting" /\ remaining' = remaining /\ slot' = slot
  <2>1. ReaderTypes'
    <3>1. (File!Bounded)' = File!Bounded
      BY <1>1, FlowStays
    <3> QED BY <1>1, <1>5, <1>8, <1>10, <3>1 DEF ReaderTypes, File!TaskStates, Puttable
  <2>2. ASSUME Stays' PROVE Follow' /\ Offered' /\ Stands' /\ reader' # "new"
    <3>1. Stays /\ Follow' /\ Got' = Got /\ Put' = Put /\ Whole' = Whole /\ (File!Bounded)' = File!Bounded
      BY <1>1, <1>6, <1>10, <2>2, FlowStays DEF Stays
    <3>2. Offered'
      BY <1>1, <1>6, <1>10, <3>1, <2>2 DEF Offered
    <3>3. to <= file.end
      BY <1>3, <1>4, <1>5, <1>6, <3>1, AskedIs
    <3>4. Stands'
      BY <1>1, <1>3, <1>5, <1>6, <1>8, <1>10, <3>1, <3>3, AskedIs DEF Stands
    <3> QED BY <1>1, <1>6, <3>1, <3>2, <3>4
  <2>3. InRange'
    BY <1>1, <1>10, <2>2 DEF InRange, Stays
  <2> QED BY <2>1, <2>3
<1> QED BY <1>2, <1>7, <1>9, <1>10

\* The chunk that waited is put.
LEMMA ResumeKeeps == ASSUME Sized, ReaderInv, File!PutResumes PROVE ReaderInv'
<1> USE DEF ReaderInv
<1>1. /\ task = "putting" /\ File!Room /\ slot' = Append(slot, held) /\ File!Counted(held)
      /\ file' = file /\ pos' = pos /\ held' = held /\ failed' = failed /\ reader' = reader /\ chunks' = chunks
  BY DEF File!PutResumes
<1>2. slot = <<>> /\ slot' = <<held>>
  BY <1>1, SlotIs
<1>3. /\ pos \in 0..MaxSize /\ remaining \in 0..MaxSize /\ held \in Chunk /\ held[1] < held[2]
      /\ File!Bounded => held[2] - held[1] <= remaining
  BY <1>1 DEF ReaderTypes
<1>4. /\ remaining' \in 0..MaxSize /\ task' \in {"reading", "closing"}
      /\ ~File!Bounded => task' = "reading"
      /\ File!Bounded => /\ remaining' = remaining - (held[2] - held[1])
                         /\ task' = "closing" => remaining' = 0
  BY <1>1, <1>3, CountIs
<1>5. Stays => /\ held[1] = Put /\ held[2] = pos /\ file.start <= Got /\ Put = Got
               /\ pos <= file.end
               /\ pos > file.start => pos <= file.size
               /\ File!Bounded => remaining = file.end - held[1]
  <2> SUFFICES ASSUME Stays PROVE file.start <= Got /\ Stands /\ Put = Got
    BY <1>1 DEF Stands
  <2>1. Follow /\ Stands
    BY <1>1 DEF InRange
  <2>2. Put = Got
    BY <1>2 DEF Put
  <2>3. CASE chunks = <<>>
    BY <2>1, <2>2, <2>3, AskedIs DEF Got
  <2>4. CASE chunks # <<>>
    <3>1. Got \in 0..MaxSize
      BY <2>4, ChunksAre, ChunkIs DEF Got
    <3> QED BY <2>1, <2>2, <2>4, <3>1, AskedIs DEF Follow
  <2> QED BY <2>1, <2>2, <2>3, <2>4
<1>6. ASSUME Stays
      PROVE  /\ pos > file.start /\ pos <= file.size
             /\ File!Bounded /\ task' = "reading" => remaining' = file.end - pos
             /\ task' = "closing" => pos >= Whole
  BY <1>3, <1>4, <1>5, <1>6, ChunkIs, AskedIs DEF Whole, File!Lesser
<1> QED BY <1>1, <1>2, <1>3, <1>4, <1>5, <1>6, PutKeeps

\* The end of the task, with the sentinel put or waiting to be.
LEMMA CloseKeeps == ASSUME Sized, ReaderInv, File!Closed \/ File!SentinelResumes PROVE ReaderInv'
<1> USE DEF ReaderInv
<1>1. /\ task \in {"closing", "unwinding", "ending"}
      /\ \/ /\ File!Room /\ slot' = Append(slot, File!Sentinel)
            /\ task' = (IF task = "unwinding" THEN "cancelled" ELSE IF failed THEN "failed" ELSE "finished")
         \/ slot' = slot /\ task' = "ending"
      /\ file' = file /\ held' = held /\ failed' = failed /\ reader' = reader /\ chunks' = chunks
      /\ pos' = pos /\ remaining' = remaining
  BY DEF File!Closed, File!SentinelResumes
<1>2. /\ (slot = <<>> /\ slot' = <<File!Sentinel>>) \/ slot' = slot
      /\ task' \in {"cancelled", "failed", "finished", "ending"}
  BY <1>1, SlotIs
<1>3. ReaderTypes'
  <2>1. slot' \in Seq(Puttable) /\ Len(slot') <= 1
    <3>1. File!Sentinel \in Puttable
      BY DEF Puttable
    <3>2. <<File!Sentinel>> \in Seq(Puttable) /\ Len(<<File!Sentinel>>) = 1
      BY <3>1
    <3>3. CASE slot' = slot
      BY <3>3 DEF ReaderTypes
    <3>4. CASE slot' = <<File!Sentinel>>
      <4>1. 1 <= 1
        OBVIOUS
      <4> QED BY ONLY <3>2, <3>4, <4>1
    <3> QED BY <1>2, <3>3, <3>4
  <2>2. task' \in File!TaskStates
    BY <1>2 DEF File!TaskStates, File!Over
  <2> QED BY <1>1, <1>2, <2>1, <2>2 DEF ReaderTypes
<1>4. InRange'
  <2>0. reader' # "new"
    BY <1>1 DEF InRange
  <2> SUFFICES ASSUME Stays' PROVE Follow' /\ Offered' /\ Stands' /\ task' \in {"ending", "finished"}
    BY <2>0 DEF InRange
  <2>1. Stays /\ ~failed /\ Follow /\ Offered /\ Stands /\ reader # "new" /\ task \in {"closing", "ending"}
    BY <1>1 DEF InRange, Stays
  <2>2. Follow' /\ Got' = Got /\ Put' = Put /\ Whole' = Whole /\ (File!Bounded)' = File!Bounded
    BY <1>1, <1>2, <2>1, FlowStays DEF Put
  <2>3. /\ task' \in {"ending", "finished"} 
        /\ (slot' = <<File!Sentinel>> /\ task' = "finished") \/ slot' = slot
    BY <1>1, <2>1, SlotIs
  <2>4. Offered'
    BY <1>1, <2>1, <2>2, <2>3, OneIs DEF Offered
  <2>5. Stands'
    BY <1>1, <2>1, <2>2, <2>3 DEF Stands
  <2> QED BY <1>1, <2>1, <2>2, <2>3, <2>4, <2>5
<1> QED BY <1>3, <1>4

\* The consumer begins.
LEMMA IterateKeeps == ASSUME Sized, ReaderInv, File!Iterate PROVE ReaderInv'
<1> USE DEF ReaderInv
<1>1. /\ reader = "new" /\ task' = "opening" /\ reader' = "getting"
      /\ file' = file /\ held' = held /\ failed' = failed /\ slot' = slot /\ chunks' = chunks
      /\ pos' = pos /\ remaining' = remaining
  BY DEF File!Iterate
<1>2. ReaderTypes'
  BY <1>1 DEF ReaderTypes, File!TaskStates, File!ReaderStates
<1>3. chunks = <<>> /\ slot = <<>>
  BY <1>1 DEF InRange
<1>4. Follow' /\ Offered'
  BY <1>1, <1>3 DEF Follow, Offered
<1>5. InRange'
  BY <1>1, <1>3, <1>4 DEF InRange
<1> QED BY <1>2, <1>5

\* The consumer takes what is in the slot: a chunk that goes on from those it has, or the sentinel.
LEMMA NextKeeps == ASSUME Sized, ReaderInv, File!Anext PROVE ReaderInv'
<1> USE DEF ReaderInv
<1>1. /\ reader = "getting" /\ slot # <<>> /\ slot' = Tail(slot)
      /\ \/ Head(slot) = File!Sentinel /\ reader' = "ended" /\ chunks' = chunks
         \/ Head(slot) # File!Sentinel /\ reader' = "holding" /\ chunks' = Append(chunks, Head(slot))
      /\ file' = file /\ held' = held /\ failed' = failed /\ task' = task
      /\ pos' = pos /\ remaining' = remaining
  BY DEF File!Anext, File!tvars
<1>2. slot' = <<>> /\ Head(slot) = slot[1] /\ slot[1] \in Puttable
  BY <1>1, SlotIs
<1>3. (File!Bounded)' = File!Bounded /\ Whole' = Whole
  BY <1>1 DEF File!Bounded, Whole, File!Lesser
<1>4. chunks' \in Seq(Chunk) /\ reader' \in File!ReaderStates
  <2>1. chunks \in Seq(Chunk)
    BY DEF ReaderTypes
  <2>2. slot[1] # File!Sentinel => slot[1] \in Chunk
    BY <1>2 DEF Puttable
  <2>3. reader' \in File!ReaderStates
    BY <1>1 DEF File!ReaderStates
  <2> QED BY <1>1, <1>2, <2>1, <2>2, <2>3, AppendProperties
<1>5. ReaderTypes'
  <2>1. slot' \in Seq(Puttable) /\ Len(slot') <= 1
    BY <1>2, EmptySeq
  <2> QED BY <1>1, <1>3, <1>4, <2>1 DEF ReaderTypes
<1>6. InRange'
  <2> SUFFICES ASSUME Stays' PROVE Follow' /\ Offered' /\ Stands' /\ reader' # "new" /\ task # "opening"
    BY <1>1 DEF InRange, Stays
  <2>1. Stays /\ Follow /\ Offered /\ Stands /\ task # "opening"
    BY <1>1 DEF InRange, Stays
  <2>2. CASE slot[1] = File!Sentinel
    <3>1. reader' = "ended" /\ chunks' = chunks /\ task = "finished"
      BY <1>1, <1>2, <2>1, <2>2 DEF Offered
    <3>2. Follow' /\ Got' = Got /\ Put' = Put
      BY <1>1, <1>2, <2>1, <2>2, <3>1, FlowStays DEF Put
    <3>3. Offered'
      BY <1>1, <1>2, <3>1 DEF Offered
    <3>4. Stands'
      BY <1>1, <1>3, <2>1, <3>1, <3>2 DEF Stands
    <3> QED BY <2>1, <3>1, <3>2, <3>3, <3>4
  <2>3. CASE slot[1] # File!Sentinel
    <3>1. reader' = "holding" /\ chunks' = Append(chunks, slot[1]) /\ slot[1] \in Chunk
      BY <1>1, <1>2, <2>3 DEF Puttable
    <3>2. slot[1][1] = Got /\ slot[1][1] < slot[1][2] /\ Put = slot[1][2]
      BY <1>1, <2>1, <2>3 DEF Offered, Put
    <3> DEFINE n == Len(chunks)
    <3>3. /\ chunks \in Seq(Chunk) /\ n \in Nat /\ Len(chunks') = n + 1 /\ chunks' # <<>>
          /\ \A i \in 1..n : chunks'[i] = chunks[i]
          /\ chunks'[n + 1] = slot[1]
          /\ chunks # <<>> => n >= 1
      BY <3>1, AppendProperties, ChunksAre DEF ReaderTypes
    <3>4. Got' = slot[1][2]
      BY <3>3 DEF Got
    <3>5. Got >= file.start /\ Got \in Nat
      <4>1. CASE chunks = <<>>
        BY <4>1, AskedIs DEF Got
      <4>2. CASE chunks # <<>>
        BY <4>2, <2>1, ChunksAre, ChunkIs, AskedIs DEF Got, Follow
      <4> QED BY <4>1, <4>2
    <3>6. chunks'[1][1] = file.start /\ Got' > file.start
      <4>1. Got' > file.start
        BY <3>1, <3>2, <3>4, <3>5, ChunkIs, AskedIs
      <4>2. CASE chunks = <<>>
        <5>1. n = 0
          BY <4>2, EmptySeq
        <5> QED BY <3>2, <3>3, <4>1, <4>2, <5>1 DEF Got
      <4>3. CASE chunks # <<>>
        BY <2>1, <3>3, <4>1, <4>3 DEF Follow
      <4> QED BY <4>2, <4>3
    <3>7. ASSUME NEW i \in 2..Len(chunks') PROVE chunks'[i][1] = chunks'[i - 1][2]
      <4>1. CASE i \in 2..n
        BY <2>1, <3>3, <4>1 DEF Follow
      <4>2. CASE i = n + 1
        <5>1. n >= 1 /\ chunks # <<>>
          BY <3>3, <3>7, <4>2, EmptySeq
        <5>2. Got = chunks[n][2]
          BY <5>1 DEF Got
        <5> QED BY <3>2, <3>3, <4>2, <5>1, <5>2
      <4> QED BY <3>3, <4>1, <4>2
    <3>8. Follow'
      BY <1>1, <3>6, <3>7 DEF Follow
    <3>9. Put' = Put
      BY <1>2, <3>2, <3>4 DEF Put
    <3>10. Offered'
      BY <1>2, <3>1 DEF Offered
    <3>11. Stands'
      BY <1>1, <1>3, <2>1, <3>9 DEF Stands
    <3> QED BY <2>1, <3>1, <3>8, <3>10, <3>11
  <2> QED BY <2>2, <2>3
<1> QED BY <1>5, <1>6

\* What the consumer does with a chunk, and leaving: what was put is dropped, and nothing more is promised.
LEMMA ConsumerKeeps ==
    ASSUME Sized, ReaderInv, File!Sent \/ File!Aclose \/ File!Awaited
    PROVE  ReaderInv'
<1> USE DEF ReaderInv
<1>1. CASE File!Sent
  <2>1. /\ reader = "holding" /\ reader' = "getting"
        /\ file' = file /\ held' = held /\ failed' = failed /\ task' = task /\ slot' = slot /\ chunks' = chunks
        /\ pos' = pos /\ remaining' = remaining
    BY <1>1 DEF File!Sent, File!tvars
  <2>2. ReaderTypes'
    BY <2>1, FlowStays DEF ReaderTypes, File!ReaderStates
  <2>3. /\ Got' = Got /\ Put' = Put /\ Whole' = Whole /\ (File!Bounded)' = File!Bounded
        /\ Follow' = Follow
    BY <2>1, FlowStays
  <2>4. (Offered => Offered') /\ (Stands => Stands') /\ (Stays => Stays') /\ (Stays' => Stays)
    BY <2>1, <2>3 DEF Offered, Stands, Stays
  <2>5. InRange'
    BY <2>1, <2>3, <2>4 DEF InRange
  <2> QED BY <2>2, <2>5
<1>2. CASE File!Aclose
  <2>1. /\ reader \in {"getting", "holding", "ended"} /\ reader' \in {"closing", "closed"}
        /\ \/ task' = task /\ slot' = slot
           \/ task \notin File!Over /\ task' \in {"unwinding", "cancelled"} /\ slot' = <<>>
        /\ file' = file /\ held' = held /\ failed' = failed /\ chunks' = chunks
        /\ pos' = pos /\ remaining' = remaining
    BY <1>2 DEF File!Aclose, File!Cancelled
  <2>2. slot' \in Seq(Puttable) /\ Len(slot') <= 1
    <3>1. CASE slot' = slot
      BY <3>1 DEF ReaderTypes
    <3>2. CASE slot' = <<>>
      BY <3>2, EmptySeq
    <3> QED BY <2>1, <3>1, <3>2
  <2>3. ReaderTypes'
    BY <2>1, <2>2, FlowStays DEF ReaderTypes, File!ReaderStates, File!TaskStates, File!Over
  <2>4. InRange'
    BY <2>1 DEF InRange, Stays
  <2> QED BY <2>3, <2>4
<1>3. CASE File!Awaited
  <2>1. /\ reader = "closing" /\ reader' = "closed"
        /\ file' = file /\ held' = held /\ failed' = failed /\ task' = task /\ slot' = slot /\ chunks' = chunks
        /\ pos' = pos /\ remaining' = remaining
    BY <1>3 DEF File!Awaited, File!tvars
  <2>2. ReaderTypes'
    BY <2>1, FlowStays DEF ReaderTypes, File!ReaderStates
  <2>3. InRange'
    BY <2>1 DEF InRange, Stays
  <2> QED BY <2>2, <2>3
<1> QED BY <1>1, <1>2, <1>3

\* A step of something else.
LEMMA StutterKeeps == ASSUME ReaderInv, UNCHANGED File!vars PROVE ReaderInv'
<1>1. /\ file' = file /\ held' = held /\ failed' = failed /\ task' = task /\ slot' = slot /\ chunks' = chunks
      /\ pos' = pos /\ remaining' = remaining /\ reader' = reader
  BY DEF File!vars, File!tvars
<1>2. ReaderTypes'
  BY <1>1, FlowStays DEF ReaderInv, ReaderTypes
<1>3. /\ Got' = Got /\ Put' = Put /\ Whole' = Whole /\ (File!Bounded)' = File!Bounded
      /\ Follow' = Follow
  BY <1>1, FlowStays
<1>4. Offered' = Offered /\ Stands' = Stands /\ Stays' = Stays
  BY <1>1, <1>3 DEF Offered, Stands, Stays
<1>5. InRange'
  BY <1>1, <1>3, <1>4 DEF ReaderInv, InRange
<1> QED BY <1>2, <1>5 DEF ReaderInv

\* The inductive invariant of the reader of a file (concurrency.py, FileReader), for files, ranges and chunks
\* of any size and whether or not the file raises.
THEOREM ReaderInductive == Sized /\ File!Spec => []ReaderInv
<1>1. Sized /\ File!Init => ReaderInv
  BY RangeBegins
<1>2. Sized /\ ReaderInv /\ [File!Next]_(File!vars) => ReaderInv'
  <2> SUFFICES ASSUME Sized, ReaderInv, File!Next PROVE ReaderInv'
    BY StutterKeeps
  <2> QED BY OpenKeeps, FailKeeps, ReadKeeps, ResumeKeeps, CloseKeeps, IterateKeeps, NextKeeps, ConsumerKeeps
          DEF File!Next, File!Reader, File!Consumer
<1>3. Sized /\ [File!Next]_(File!vars) => Sized'
  BY DEF Sized
<1> QED BY <1>1, <1>2, <1>3, PTL DEF File!Spec

\* A consumer that comes to the end without an error of the file has exactly the bytes asked for that the
\* file has, in order and once each (FileReader._reader), however its task and the consumer interleave: the
\* safety part of ReaderSettles.
THEOREM RangeIsWhole == Sized /\ File!Spec => []File!EndIsWholeRange
<1>1. Sized /\ ReaderInv => File!EndIsWholeRange
  <2> SUFFICES ASSUME Sized, ReaderInv, reader = "ended", ~failed
               PROVE  File!Covers(chunks, file.start, Whole)
    BY DEF File!EndIsWholeRange, Whole
  <2>1. ReaderTypes /\ Follow /\ slot = <<>> /\ task = "finished" /\ Stands
    BY DEF ReaderInv, InRange, Stays, Offered
  <2>2. /\ pos = Got /\ file.start <= pos /\ pos <= file.end /\ pos >= Whole
        /\ pos > file.start => pos <= file.size
        /\ pos \in 0..MaxSize
    BY <2>1 DEF Put, Stands, ReaderTypes
  <2>3. CASE chunks = <<>>
    <3>1. file.start >= Whole
      BY <2>2, <2>3 DEF Got
    <3> QED BY <2>3, <3>1 DEF File!Covers
  <2>4. CASE chunks # <<>>
    <3>1. pos > file.start
      BY <2>1, <2>2, <2>4 DEF Follow
    <3>2. pos = Whole
      BY <2>1, <2>2, <3>1, AskedIs DEF Whole, File!Lesser
    <3> QED BY <2>1, <2>2, <2>4, <3>2 DEF File!Covers, Follow, Got
  <2> QED BY <2>3, <2>4
<1>2. Sized /\ [File!Next]_(File!vars) => Sized'
  BY DEF Sized
<1> QED BY <1>1, <1>2, ReaderInductive, PTL DEF File!Spec

\* Type correctness of the reader; what remains of the range is never negative.
THEOREM ReaderTyped == Sized /\ File!Spec => []File!TypeOK
<1>1. ReaderInv => File!TypeOK
  BY DEF ReaderInv, ReaderTypes, File!TypeOK
<1> QED BY <1>1, ReaderInductive, PTL
=============================================================================
