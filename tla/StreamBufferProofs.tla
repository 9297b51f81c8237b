------------------------- MODULE StreamBufferProofs -------------------------
(***************************************************************************)
(* Proofs about StreamBuffer for every capacity, either storage mode, any  *)
(* set of consumers and any length of stream, in three parts: both tiers   *)
(* and what a read returns (IndInv), the end of a stream and what a reader *)
(* of its record is told (EndInv, TailInv), and the ephemeral stream as an *)
(* implementation of Channel (ClientInv).                                  *)
(***************************************************************************)
EXTENDS StreamBuffer, SequenceTheorems, FiniteSetTheorems, TLAPS

\* The block a suspended producer holds is the last durable line, and a durable
\* read in progress asks for lines that exist.
HeldIsLogged == Persist /\ prod = "blocked" => log[Len(log)] = held
FillInRange == \A c \in Consumers : cpc[c] = "fill" => fillTo[c] <= Len(log)

IndInv == TypeOK /\ StoresAligned /\ CapacityRespected /\ HeldIsLogged /\ FillInRange

-----------------------------------------------------------------------------
(* Lemmas about the operators *)

\* A pop returns resident blocks and drops no more than there are.
LEMMA PopIsResident ==
    ASSUME deque \in Seq(Block), base \in Nat,
           NEW start \in Nat, NEW end \in Nat
    PROVE  /\ Pop(start, end).blocks \in Seq(Block)
           /\ Pop(start, end).drop \in 0..Len(deque)
           /\ Len(Pop(start, end).blocks) <= NonNegative(end - start)
<1> DEFINE from == NonNegative(start - base)
           to == Lesser(NonNegative(end - base), Len(deque))
<1>1. from \in Nat /\ to \in 0..Len(deque) /\ Len(deque) \in Nat
  BY DEF NonNegative, Lesser
<1>2. CASE start >= end \/ from >= Len(deque) \/ to <= 0
  <2>1. Pop(start, end) = [blocks |-> <<>>, drop |-> 0]
    BY <1>2 DEF Pop
  <2>2. QED BY <2>1, <1>1 DEF NonNegative
<1>3. CASE ~(start >= end \/ from >= Len(deque) \/ to <= 0)
  <2>1. Pop(start, end) = [blocks |-> SubSeq(deque, from + 1, to),
                           drop |-> IF from = 0 THEN to ELSE 0]
    BY <1>3 DEF Pop
  <2>2. \A i \in (from + 1)..to : deque[i] \in Block
    BY <1>1
  <2>3. /\ SubSeq(deque, from + 1, to) \in Seq(Block)
        /\ Len(SubSeq(deque, from + 1, to)) = IF from + 1 <= to THEN to - from ELSE 0
    BY <1>1, <2>2, SubSeqProperties
  <2>4. to - from <= end - start /\ end - start >= 0
    BY <1>3, <1>1 DEF NonNegative, Lesser
  <2>5. QED BY <2>1, <2>3, <2>4, <1>1 DEF NonNegative
<1>4. QED BY <1>2, <1>3

\* Dropping a prefix keeps the rest of the in-flight tier in place.
LEMMA DropKeepsTheRest ==
    ASSUME deque \in Seq(Block), NEW d \in 0..Len(deque)
    PROVE  LET rest == SubSeq(deque, d + 1, Len(deque))
           IN  /\ rest \in Seq(Block)
               /\ Len(rest) = Len(deque) - d
               /\ \A i \in 1..(Len(deque) - d) : rest[i] = deque[d + i]
<1>1. Len(deque) \in Nat
  OBVIOUS
<1>2. \A i \in (d + 1)..Len(deque) : deque[i] \in Block
  BY <1>1
<1>3. QED BY <1>1, <1>2, SubSeqProperties

\* Appending a block leaves the others in place.
LEMMA AppendKeeps ==
    ASSUME NEW s \in Seq(Block), NEW b \in Block
    PROVE  /\ Append(s, b) \in Seq(Block)
           /\ Len(Append(s, b)) = Len(s) + 1
           /\ \A i \in 1..Len(s) : Append(s, b)[i] = s[i]
           /\ Append(s, b)[Len(s) + 1] = b
  BY AppendProperties

\* A suffix of a slice of a sequence is a slice of the sequence.
LEMMA SuffixOfSlice ==
    ASSUME NEW q \in Seq(Block), NEW r \in Seq(Block), NEW b \in Nat,
           b + Len(q) <= Len(r), \A i \in 1..Len(q) : q[i] = r[b + i],
           NEW f \in 0..Len(q)
    PROVE  SubSeq(q, f + 1, Len(q)) = SubSeq(r, b + f + 1, b + Len(q))
<1> DEFINE sq == SubSeq(q, f + 1, Len(q))
           sr == SubSeq(r, b + f + 1, b + Len(q))
<1>1. Len(q) \in Nat /\ Len(r) \in Nat
  OBVIOUS
<1>2. \A i \in (f + 1)..Len(q) : q[i] \in Block
  BY <1>1
<1>3. \A i \in (b + f + 1)..(b + Len(q)) : r[i] \in Block
  BY <1>1
<1>4. /\ sq \in Seq(Block) /\ Len(sq) = Len(q) - f
      /\ \A i \in 1..(Len(q) - f) : sq[i] = q[f + i]
  BY <1>1, <1>2, SubSeqProperties
<1>5. /\ sr \in Seq(Block) /\ Len(sr) = Len(q) - f
      /\ \A i \in 1..(Len(q) - f) : sr[i] = r[b + f + i]
  BY <1>1, <1>3, SubSeqProperties
<1>6. \A i \in 1..(Len(q) - f) : f + i \in 1..Len(q) /\ b + (f + i) = b + f + i
  BY <1>1
<1> HIDE DEF sq, sr
<1>7. \A i \in 1..Len(sq) : sq[i] = sr[i]
  BY <1>4, <1>5, <1>6
<1>8. sq = sr
  BY <1>4, <1>5, <1>7, SeqEqual
<1>9. QED BY <1>8 DEF sq, sr

\* In any state of the system in which the producer is not suspended on a full
\* tier, StreamBuffer.read(s, length) is the durable slice from s.
LEMMA ReadIsSlice ==
    ASSUME TypeOK, StoresAligned, Persist, prod # "blocked",
           NEW s \in 0..Length
    PROVE  ReadResult(s) = SubSeq(log, s + 1, Length)
<1> DEFINE from == NonNegative(s - base)
           popped == Pop(s, Len(log)).blocks
<1>1. log \in Seq(Block) /\ deque \in Seq(Block)
  BY DEF TypeOK
<1>2. Len(log) \in Nat /\ Len(deque) \in Nat /\ base \in Nat
  BY <1>1 DEF TypeOK
<1>3. Length = Len(log) /\ base + Len(deque) = Len(log) /\ s \in 0..Len(log)
  BY <1>2 DEF TypeOK, StoresAligned, Length
<1>4. \A i \in 1..Len(deque) : deque[i] = log[base + i]
  BY DEF StoresAligned
<1>5. /\ from \in Nat
      /\ Lesser(NonNegative(Len(log) - base), Len(deque)) = Len(deque)
  BY <1>2, <1>3 DEF NonNegative, Lesser
<1>6. ReadResult(s) = SubSeq(log, s + 1, Len(log) - Len(popped)) \o popped
  BY <1>3 DEF ReadResult
<1>7. CASE s >= Len(log) \/ from >= Len(deque) \/ Len(deque) <= 0
  <2>1. popped = <<>>
    BY <1>7, <1>5 DEF Pop
  <2>2. \A i \in (s + 1)..Len(log) : log[i] \in Block
    BY <1>1, <1>2, <1>3
  <2>3. SubSeq(log, s + 1, Len(log)) \in Seq(Block)
    BY <1>2, <1>3, <2>2, SubSeqProperties
  <2>4. SubSeq(log, s + 1, Len(log)) \o <<>> = SubSeq(log, s + 1, Len(log))
    BY <2>3, ConcatEmptySeq
  <2>5. Len(log) - Len(popped) = Len(log)
    BY <2>1, <1>2
  <2>6. QED BY <1>3, <1>6, <2>1, <2>4, <2>5
<1>8. CASE ~(s >= Len(log) \/ from >= Len(deque) \/ Len(deque) <= 0)
  <2>1. from \in 0..Len(deque) /\ base + from \in s..Len(log)
    BY <1>2, <1>3, <1>5, <1>8 DEF NonNegative
  <2>2. popped = SubSeq(deque, from + 1, Len(deque))
    BY <1>8, <1>5 DEF Pop
  <2>3. popped = SubSeq(log, base + from + 1, Len(log))
    <3>1. base + Len(deque) <= Len(log) /\ base \in Nat /\ from \in 0..Len(deque)
      BY <1>2, <1>3, <2>1
    <3> HIDE DEF from
    <3>2. SubSeq(deque, from + 1, Len(deque)) = SubSeq(log, base + from + 1, base + Len(deque))
      BY <1>1, <1>4, <3>1, SuffixOfSlice
    <3>3. QED BY <1>3, <2>2, <3>2
  <2>4. Len(popped) = Len(deque) - from
    BY <1>1, <2>1, <2>2, DropKeepsTheRest
  <2>5. Len(log) - Len(popped) = base + from
    BY <1>2, <1>3, <2>1, <2>4
  <2>6. SubSeq(log, s + 1, base + from) \o SubSeq(log, base + from + 1, Len(log))
          = SubSeq(log, s + 1, Len(log))
    <3>1. s + 1 \in 1..(Len(log) + 1) /\ base + from \in ((s + 1) - 1)..Len(log)
      BY <1>2, <1>3, <2>1
    <3>2. Len(log) \in (base + from)..Len(log)
      BY <1>2, <2>1
    <3> HIDE DEF from
    <3>3. QED BY <1>1, <3>1, <3>2, ConcatAdjacentSubSeq
  <2>7. QED BY <1>3, <1>6, <2>3, <2>5, <2>6
<1>9. QED BY <1>7, <1>8

\* In one in which it is, the read takes the resident suffix for the end of a range
\* that is one block longer.
LEMMA ReadIsShifted ==
    ASSUME TypeOK, StoresAligned, Persist, prod = "blocked", NEW s \in 0..Length
    PROVE  LET first == Larger(s, base)
           IN  ReadResult(s) = IF first < total
                               THEN SubSeq(log, s + 1, first + 1) \o SubSeq(log, first + 1, total)
                               ELSE SubSeq(log, s + 1, Length)
<1> DEFINE first == Larger(s, base)
           from == NonNegative(s - base)
           popped == Pop(s, Length).blocks
<1>1. /\ log \in Seq(Block) /\ deque \in Seq(Block)
      /\ Len(log) \in Nat /\ Len(deque) \in Nat /\ base \in Nat /\ total \in Nat
  BY DEF TypeOK
<1>2. /\ Length = Len(log) /\ Len(log) = total + 1 /\ base + Len(deque) = total
      /\ \A i \in 1..Len(deque) : deque[i] = log[base + i]
  BY <1>1 DEF StoresAligned, Length
<1>3. /\ s \in Nat /\ from \in Nat /\ first = base + from
      /\ Lesser(NonNegative(Length - base), Len(deque)) = Len(deque)
  BY <1>1, <1>2 DEF NonNegative, Lesser, Larger
<1>4. /\ popped = IF s >= Length \/ from >= Len(deque) \/ Len(deque) <= 0
                  THEN <<>> ELSE SubSeq(deque, from + 1, Len(deque))
      /\ first < total => s < Length /\ 0 < Len(deque)
  BY <1>1, <1>2, <1>3 DEF Pop, Larger
<1>5. ReadResult(s) = SubSeq(log, s + 1, Length - Len(popped)) \o popped
  BY DEF ReadResult
<1> HIDE DEF first, from, popped
<1>6. CASE first < total
  <2>1. from \in 0..Len(deque) /\ from < Len(deque) /\ base + Len(deque) <= Len(log)
    BY <1>1, <1>2, <1>3, <1>6
  <2>2. popped = SubSeq(deque, from + 1, Len(deque))
    BY <1>1, <1>2, <1>3, <1>4, <1>6, <2>1
  <2>3. SubSeq(deque, from + 1, Len(deque)) = SubSeq(log, base + from + 1, base + Len(deque))
    BY <1>1, <1>2, <2>1, SuffixOfSlice
  <2>4. popped = SubSeq(log, first + 1, total)
    BY <1>2, <1>3, <2>2, <2>3
  <2>5. Len(popped) = Len(deque) - from
    BY <1>1, <2>1, <2>2, DropKeepsTheRest
  <2>6. Length - Len(popped) = first + 1
    BY <1>1, <1>2, <1>3, <2>5
  <2>7. QED BY <1>5, <1>6, <2>4, <2>6 DEF first
<1>7. CASE ~(first < total)
  <2>1. from >= Len(deque)
    BY <1>1, <1>2, <1>3, <1>7
  <2>2. popped = <<>> /\ Length - Len(popped) = Length
    BY <1>1, <1>2, <1>4, <2>1
  <2>3. SubSeq(log, s + 1, Length) \in Seq(Block)
    <3>1. \A i \in (s + 1)..Length : log[i] \in Block
      BY <1>1, <1>2, <1>3
    <3>2. QED BY <1>1, <1>2, <1>3, <3>1, SubSeqProperties
  <2>4. QED BY <1>5, <1>7, <2>2, <2>3, ConcatEmptySeq DEF first
<1>8. QED BY <1>6, <1>7

-----------------------------------------------------------------------------
(* The inductive invariant *)

\* What the two tiers hold is aligned with the durable log and within capacity
\* (the part of IndInv about the stores, for a given state of the producer).
LEMMA AdmitKeepsStores ==
    ASSUME IndInv, ~Full, Admit(held), base' = base,
           log' \in Seq(Block),
           Persist => /\ Len(log') = total + 1
                      /\ log'[total + 1] = held
                      /\ \A i \in 1..total : log'[i] = log[i],
           ~Persist => log' = <<>>
    PROVE  /\ deque' \in Seq(Block) /\ total' \in Nat /\ tokens' \in Nat
           /\ stop' \in {NotStopped, "stop", "error"}
           /\ prod' \in {"finished", "source"} /\ notified' \in [Consumers -> BOOLEAN]
           /\ StoresAligned' /\ CapacityRespected'
<1>1. /\ deque \in Seq(Block) /\ held \in Block /\ total \in Nat /\ base \in Nat
      /\ tokens \in Nat /\ stop \in {NotStopped, "stop", "error"}
      /\ Len(deque) \in Nat /\ base + Len(deque) = total
  BY DEF IndInv, TypeOK, StoresAligned
<1>2. /\ deque' = Append(deque, held) /\ total' = total + 1
      /\ prod' = IF held.kind = "error" THEN "finished" ELSE "source"
      /\ tokens' = IF held.kind = "trace" THEN tokens + held.tokens ELSE tokens
      /\ stop' = IF Terminal(held) THEN held.kind ELSE stop
  BY DEF Admit
<1>3. /\ deque' \in Seq(Block) /\ Len(deque') = Len(deque) + 1
      /\ \A i \in 1..Len(deque) : deque'[i] = deque[i]
      /\ deque'[Len(deque) + 1] = held
  BY <1>1, <1>2, AppendKeeps
<1>4. tokens' \in Nat
  BY <1>1, <1>2 DEF Block
<1>5. stop' \in {NotStopped, "stop", "error"}
  BY <1>1, <1>2 DEF Terminal
<1>6. prod' \in {"finished", "source"}
  BY <1>2
<1>7. StoresAligned'
  <2>1. (base + Len(deque) = total)'
    BY <1>1, <1>2, <1>3
  <2>2. ASSUME Persist
        PROVE  Len(log') = total' + (IF prod' = "blocked" THEN 1 ELSE 0)
    BY <2>2, <1>1, <1>2, <1>6
  <2>3. ASSUME Persist, NEW i \in 1..Len(deque')
        PROVE  deque'[i] = log'[base' + i]
    <3>1. CASE i \in 1..Len(deque)
      <4>1. deque[i] = log[base + i]
        BY <2>3, <3>1 DEF IndInv, StoresAligned
      <4>2. base + i \in 1..total
        BY <3>1, <1>1
      <4>3. QED BY <2>3, <3>1, <4>1, <4>2, <1>3
    <3>2. CASE i = Len(deque) + 1
      <4>1. base + (Len(deque) + 1) = total + 1
        BY <1>1
      <4>2. deque'[i] = held
        BY <3>2, <1>3
      <4>3. log'[base' + i] = held
        BY <2>3, <3>2, <4>1
      <4>4. QED BY <4>2, <4>3
    <3>3. QED BY <2>3, <3>1, <3>2, <1>1, <1>3
  <2>4. QED BY <2>1, <2>2, <2>3 DEF StoresAligned
<1>8. CapacityRespected'
  BY <1>1, <1>3, CapacityAssumption DEF CapacityRespected, Full
<1>9. notified' \in [Consumers -> BOOLEAN]
  BY DEF Admit, IndInv, TypeOK
<1>10. QED BY <1>2, <1>3, <1>1, <1>4, <1>5, <1>6, <1>7, <1>8, <1>9

\* A read pops blocks in flight and touches nothing else of the stores.
LEMMA ReadKeepsStores ==
    ASSUME IndInv, NEW c \in Consumers, NEW start \in Nat, Read(c, start, Length),
           log' = log, total' = total,
           Persist => prod' = prod
    PROVE  /\ deque' \in Seq(Block) /\ base' \in Nat
           /\ batch' \in [Consumers -> Seq(Block)]
           /\ cpc' \in [Consumers -> ConsumerStates]
           /\ fillTo' \in [Consumers -> Nat] /\ skewed' \subseteq Consumers
           /\ StoresAligned' /\ CapacityRespected' /\ FillInRange'
<1> DEFINE clamped == Lesser(Length, Length)
           popped == Pop(start, clamped)
           prefixEnd == clamped - Len(popped.blocks)
<1>1. /\ deque \in Seq(Block) /\ Len(deque) \in Nat /\ total \in Nat /\ base \in Nat
      /\ Length \in Nat /\ clamped = Length /\ base + Len(deque) = total
      /\ Persist => Length = Len(log)
  BY DEF IndInv, TypeOK, StoresAligned, Length, Lesser
<1>2. /\ batch \in [Consumers -> Seq(Block)] /\ fillTo \in [Consumers -> Nat]
      /\ cpc \in [Consumers -> ConsumerStates]
  BY DEF IndInv, TypeOK
<1> DEFINE Kept ==
             /\ deque' \in Seq(Block) /\ base' \in Nat
             /\ batch' \in [Consumers -> Seq(Block)]
             /\ cpc' \in [Consumers -> ConsumerStates]
             /\ fillTo' \in [Consumers -> Nat]
             /\ StoresAligned' /\ CapacityRespected' /\ FillInRange'
<1>3. ASSUME start >= clamped PROVE Kept
  <2>1. /\ batch' = [batch EXCEPT ![c] = <<>>] /\ cpc' = [cpc EXCEPT ![c] = "deliver"]
        /\ deque' = deque /\ base' = base /\ fillTo' = fillTo
    BY <1>3 DEF Read
  <2>2. StoresAligned'
    BY <2>1, <1>1 DEF IndInv, StoresAligned
  <2>3. FillInRange'
    BY <2>1, <1>2 DEF IndInv, FillInRange
  <2>4. CapacityRespected'
    BY <2>1 DEF IndInv, CapacityRespected
  <2>5. cpc' \in [Consumers -> ConsumerStates]
    BY <2>1, <1>2 DEF ConsumerStates
  <2>6. QED BY <2>1, <2>2, <2>3, <2>4, <2>5, <1>1, <1>2
<1>4. ASSUME ~(start >= clamped) PROVE Kept
  <2>1. /\ batch' = [batch EXCEPT ![c] = popped.blocks]
        /\ deque' = SubSeq(deque, popped.drop + 1, Len(deque))
        /\ base' = base + popped.drop
        /\ IF Persist /\ start < prefixEnd
           THEN /\ cpc' = [cpc EXCEPT ![c] = "fill"]
                /\ fillTo' = [fillTo EXCEPT ![c] = prefixEnd]
           ELSE /\ cpc' = [cpc EXCEPT ![c] = "deliver"]
                /\ fillTo' = fillTo
    BY <1>4 DEF Read
  <2>2. popped.blocks \in Seq(Block) /\ popped.drop \in 0..Len(deque)
    BY <1>1, PopIsResident
  <2>3. Len(popped.blocks) \in Nat /\ prefixEnd \in Int /\ prefixEnd <= Length
    BY <1>1, <2>2
  <2> HIDE DEF popped, prefixEnd
  <2>4. /\ deque' \in Seq(Block) /\ Len(deque') = Len(deque) - popped.drop
        /\ \A i \in 1..(Len(deque) - popped.drop) : deque'[i] = deque[popped.drop + i]
    BY <1>1, <2>1, <2>2, DropKeepsTheRest
  <2>5. base' \in Nat /\ (base + Len(deque) = total)'
    <3>1. popped.drop \in Int /\ 0 <= popped.drop /\ popped.drop <= Len(deque)
      BY <1>1, <2>2
    <3>2. base' = base + popped.drop /\ Len(deque') = Len(deque) - popped.drop
      BY <2>1, <2>4
    <3>3. base' \in Nat
      BY <1>1, <3>1, <3>2
    <3>4. base' + Len(deque') = total'
      BY <1>1, <3>1, <3>2
    <3>5. QED BY <3>3, <3>4
  <2>6. StoresAligned'
    <3>1. ASSUME Persist, NEW i \in 1..Len(deque')
          PROVE  deque'[i] = log'[base' + i]
      <4>1. popped.drop + i \in 1..Len(deque) /\ i \in 1..(Len(deque) - popped.drop)
        BY <3>1, <2>2, <2>4, <1>1
      <4>2. deque[popped.drop + i] = log[base + (popped.drop + i)]
        BY <3>1, <4>1 DEF IndInv, StoresAligned
      <4>3. base + (popped.drop + i) = base' + i
        BY <2>1, <2>2, <1>1, <4>1
      <4>4. QED BY <4>1, <4>2, <4>3, <2>4
    <3>2. Persist => (Len(log) = total + (IF prod = "blocked" THEN 1 ELSE 0))'
      BY DEF IndInv, StoresAligned
    <3>3. ~Persist => log' = <<>>
      BY DEF IndInv, StoresAligned
    <3>4. QED BY <2>5, <3>1, <3>2, <3>3 DEF StoresAligned
  <2>7. CapacityRespected'
    BY <2>2, <2>4, <1>1, CapacityAssumption DEF IndInv, CapacityRespected
  <2>8. CASE Persist /\ start < prefixEnd
    <3>1. prefixEnd \in Nat
      BY <2>3, <2>8
    <3>2. /\ cpc' = [cpc EXCEPT ![c] = "fill"]
          /\ fillTo' = [fillTo EXCEPT ![c] = prefixEnd]
      BY <2>1, <2>8
    <3>3. prefixEnd <= Len(log)
      BY <2>3, <2>8, <1>1
    <3>4. FillInRange'
      BY <3>2, <3>3, <1>2 DEF IndInv, FillInRange
    <3>5. cpc' \in [Consumers -> ConsumerStates]
      BY <3>2, <1>2 DEF ConsumerStates
    <3>6. QED BY <3>1, <3>2, <3>4, <3>5, <2>1, <2>2, <2>4, <2>5, <2>6, <2>7, <1>2
  <2>9. CASE ~(Persist /\ start < prefixEnd)
    <3>1. cpc' = [cpc EXCEPT ![c] = "deliver"] /\ fillTo' = fillTo
      BY <2>1, <2>9
    <3>2. FillInRange'
      BY <3>1, <1>2 DEF IndInv, FillInRange
    <3>3. cpc' \in [Consumers -> ConsumerStates]
      BY <3>1, <1>2 DEF ConsumerStates
    <3>4. QED BY <3>1, <3>2, <3>3, <2>1, <2>2, <2>4, <2>5, <2>6, <2>7, <1>2
  <2>10. QED BY <2>8, <2>9
<1>5. skewed' \subseteq Consumers
  BY DEF Read, IndInv, TypeOK
<1>6. QED BY <1>3, <1>4, <1>5

\* A created buffer satisfies the invariant (ModelStreams.create).
LEMMA InitEstablishes == Init => IndInv
<1> SUFFICES ASSUME Init PROVE IndInv
  OBVIOUS
<1> USE DEF Init
<1>1. TypeOK
  BY DEF TypeOK, NotStopped, ProducerStates, ConsumerStates, NoBlock, Block, Kinds
<1>2. StoresAligned
  BY DEF StoresAligned
<1>3. CapacityRespected
  BY CapacityAssumption DEF CapacityRespected
<1>4. HeldIsLogged /\ FillInRange
  BY DEF HeldIsLogged, FillInRange
<1>5. QED BY <1>1, <1>2, <1>3, <1>4 DEF IndInv

\* A step that only hands load its next block.
LEMMA TakeKeeps ==
    ASSUME IndInv, NEW b \in Block, Take(b)
    PROVE  IndInv'
<1>1. TypeOK'
  BY DEF Take, IndInv, TypeOK, store, cvars, readers, ProducerStates
<1>2. StoresAligned'
  BY DEF Take, IndInv, StoresAligned, store, cvars, readers
<1>3. CapacityRespected' /\ FillInRange'
  BY DEF Take, IndInv, CapacityRespected, FillInRange, store, cvars, readers
<1>4. HeldIsLogged'
  BY DEF Take, HeldIsLogged
<1>5. QED BY <1>1, <1>2, <1>3, <1>4 DEF IndInv

\* A step of a consumer that leaves the stores alone; without a durable tier it
\* may cancel the load task.
LEMMA ConsumerStepKeeps ==
    ASSUME IndInv, UNCHANGED <<store, held, emitted>>,
           prod' = prod \/ (~Persist /\ prod' = "cancelled"),
           cpc' \in [Consumers -> ConsumerStates],
           live' \in [Consumers -> BOOLEAN], last' \in [Consumers -> BOOLEAN],
           cursor' \in [Consumers -> Nat],
           upto' = upto, snap' = snap, fillTo' = fillTo,
           batch' \in [Consumers -> Seq(Block)], got' \in [Consumers -> Seq(Block)],
           notified' \in [Consumers -> BOOLEAN], skewed' = skewed,
           \A c \in Consumers : cpc'[c] = "fill" => cpc[c] = "fill"
    PROVE  IndInv'
<1>1. TypeOK'
  BY DEF IndInv, TypeOK, store, ProducerStates
<1>2. StoresAligned'
  BY DEF IndInv, StoresAligned, store
<1>3. CapacityRespected' /\ FillInRange' /\ HeldIsLogged'
  BY DEF IndInv, CapacityRespected, FillInRange, HeldIsLogged, store
<1>4. QED BY <1>1, <1>2, <1>3 DEF IndInv

\* Appending a block, or suspending on a full tier (StreamBuffer.append).
LEMMA StoreKeeps == IndInv /\ Store => IndInv'
<1> SUFFICES ASSUME IndInv, Store PROVE IndInv'
  OBVIOUS
<1>1. /\ log \in Seq(Block) /\ held \in Block /\ total \in Nat /\ Len(log) \in Nat
      /\ prod = "store" /\ base' = base /\ held' = held /\ emitted' = emitted
      /\ UNCHANGED readers
      /\ log' = IF Persist THEN Append(log, held) ELSE log
  BY DEF IndInv, TypeOK, Store
<1>2. /\ log' \in Seq(Block)
      /\ Persist => /\ Len(log) = total /\ Len(log') = total + 1
                    /\ log'[total + 1] = held
                    /\ \A i \in 1..total : log'[i] = log[i]
      /\ ~Persist => log' = <<>>
  <2>1. Persist => Len(log) = total
    BY <1>1 DEF IndInv, StoresAligned
  <2>2. ~Persist => log = <<>>
    BY DEF IndInv, StoresAligned
  <2>3. QED BY <1>1, <2>1, <2>2, AppendKeeps
<1>3. FillInRange'
  BY <1>1, <1>2 DEF IndInv, TypeOK, StoresAligned, FillInRange, readers
<1>4. CASE Full
  <2>1. prod' = "blocked" /\ UNCHANGED <<deque, total, tokens, stop, notified>>
    BY <1>4 DEF Store
  <2>2. TypeOK'
    BY <1>1, <1>2, <2>1 DEF IndInv, TypeOK, ProducerStates, readers
  <2>3. StoresAligned'
    <3>1. (base + Len(deque) = total)'
      BY <1>1, <2>1 DEF IndInv, StoresAligned
    <3>2. Persist => (Len(log) = total + (IF prod = "blocked" THEN 1 ELSE 0))'
      BY <1>1, <1>2, <2>1
    <3>3. ASSUME Persist, NEW i \in 1..Len(deque)
          PROVE  deque[i] = log'[base + i]
      <4>1. deque[i] = log[base + i]
        BY <3>3 DEF IndInv, StoresAligned
      <4>2. base + i \in 1..total
        BY <3>3 DEF IndInv, TypeOK, StoresAligned
      <4>3. QED BY <3>3, <4>1, <4>2, <1>2
    <3>4. QED BY <3>1, <3>2, <3>3, <1>1, <1>2, <2>1 DEF StoresAligned
  <2>4. CapacityRespected'
    BY <2>1 DEF IndInv, CapacityRespected
  <2>5. HeldIsLogged'
    BY <1>1, <1>2 DEF HeldIsLogged
  <2>6. QED BY <1>3, <2>2, <2>3, <2>4, <2>5 DEF IndInv
<1>5. CASE ~Full
  <2>1. Admit(held)
    BY <1>5 DEF Store
  <2>2. /\ deque' \in Seq(Block) /\ total' \in Nat /\ tokens' \in Nat
        /\ stop' \in {NotStopped, "stop", "error"}
        /\ prod' \in {"finished", "source"} /\ notified' \in [Consumers -> BOOLEAN]
        /\ StoresAligned' /\ CapacityRespected'
    BY <1>1, <1>2, <1>5, <2>1, AdmitKeepsStores
  <2>3. TypeOK'
    BY <1>1, <1>2, <2>2 DEF IndInv, TypeOK, ProducerStates, readers
  <2>4. HeldIsLogged'
    BY <2>2 DEF HeldIsLogged
  <2>5. QED BY <1>3, <2>2, <2>3, <2>4 DEF IndInv
<1>6. QED BY <1>4, <1>5

\* The suspended producer admits the block it holds.
LEMMA UnblockKeeps == IndInv /\ Unblock => IndInv'
<1> SUFFICES ASSUME IndInv, Unblock PROVE IndInv'
  OBVIOUS
<1>1. /\ prod = "blocked" /\ ~Full /\ Admit(held)
      /\ UNCHANGED <<log, base, held, emitted, readers>>
  BY DEF Unblock
<1>2. /\ log' \in Seq(Block)
      /\ Persist => /\ Len(log') = total + 1
                    /\ log'[total + 1] = held
                    /\ \A i \in 1..total : log'[i] = log[i]
      /\ ~Persist => log' = <<>>
  BY <1>1 DEF IndInv, TypeOK, StoresAligned, HeldIsLogged
<1>3. /\ deque' \in Seq(Block) /\ total' \in Nat /\ tokens' \in Nat
      /\ stop' \in {NotStopped, "stop", "error"}
      /\ prod' \in {"finished", "source"} /\ notified' \in [Consumers -> BOOLEAN]
      /\ StoresAligned' /\ CapacityRespected'
  BY <1>1, <1>2, AdmitKeepsStores
<1>4. TypeOK'
  BY <1>1, <1>2, <1>3 DEF IndInv, TypeOK, ProducerStates, readers
<1>5. HeldIsLogged' /\ FillInRange'
  BY <1>1, <1>3 DEF IndInv, HeldIsLogged, FillInRange, readers
<1>6. QED BY <1>3, <1>4, <1>5 DEF IndInv

\* A consumer starts with a read from index 0 (StreamBuffer.__aiter__).
LEMMA AttachKeeps == \A c \in Consumers : IndInv /\ Attach(c) => IndInv'
<1> SUFFICES ASSUME NEW c \in Consumers, IndInv, Attach(c) PROVE IndInv'
  OBVIOUS
<1>1. /\ UNCHANGED <<log, total, tokens, stop, held, emitted, cursor, last, notified, got>>
      /\ prod' = IF Persist THEN prod ELSE "source"
      /\ upto' = [upto EXCEPT ![c] = Length] /\ snap' = [snap EXCEPT ![c] = Length]
  BY DEF Attach
<1>2. Length \in Nat
  BY DEF IndInv, TypeOK, Length
<1>3. /\ deque' \in Seq(Block) /\ base' \in Nat
      /\ batch' \in [Consumers -> Seq(Block)]
      /\ cpc' \in [Consumers -> ConsumerStates]
      /\ fillTo' \in [Consumers -> Nat]
      /\ live' \in [Consumers -> BOOLEAN] /\ skewed' \subseteq Consumers
      /\ StoresAligned' /\ CapacityRespected' /\ FillInRange'
  <2>1. CASE Length = 0
    <3>1. /\ cpc' = [cpc EXCEPT ![c] = "wait"] /\ live' = [live EXCEPT ![c] = TRUE]
          /\ UNCHANGED <<deque, base, fillTo, batch, skewed>>
      BY <2>1 DEF Attach
    <3>2. StoresAligned'
      BY <3>1, <1>1 DEF IndInv, StoresAligned
    <3>3. CapacityRespected' /\ FillInRange'
      BY <3>1, <1>1 DEF IndInv, TypeOK, CapacityRespected, FillInRange
    <3>4. cpc' \in [Consumers -> ConsumerStates] /\ live' \in [Consumers -> BOOLEAN]
      BY <3>1 DEF IndInv, TypeOK, ConsumerStates
    <3>5. QED BY <3>1, <3>2, <3>3, <3>4 DEF IndInv, TypeOK
  <2>2. CASE Length # 0
    <3>1. Read(c, 0, Length) /\ live' = live
      BY <2>2 DEF Attach
    <3>2. QED BY <3>1, <1>1, ReadKeepsStores DEF IndInv, TypeOK
  <2>3. QED BY <2>1, <2>2
<1>4. TypeOK'
  BY <1>1, <1>2, <1>3 DEF IndInv, TypeOK, ProducerStates
<1>5. HeldIsLogged'
  BY <1>1 DEF IndInv, HeldIsLogged
<1>6. QED BY <1>3, <1>4, <1>5 DEF IndInv

\* A waiting consumer is notified and reads on.
LEMMA WakeKeeps == \A c \in Consumers : IndInv /\ Wake(c) => IndInv'
<1> SUFFICES ASSUME NEW c \in Consumers, IndInv, Wake(c) PROVE IndInv'
  OBVIOUS
<1>1. /\ UNCHANGED <<log, total, tokens, stop, producer, live, cursor, got, snap>>
      /\ upto' = [upto EXCEPT ![c] = Length] /\ last' = [last EXCEPT ![c] = Done]
      /\ Read(c, cursor[c], Length)
  BY DEF Wake
<1>2. Length \in Nat /\ cursor[c] \in Nat /\ Done \in BOOLEAN
  BY DEF IndInv, TypeOK, Length, Done
<1>3. /\ deque' \in Seq(Block) /\ base' \in Nat
      /\ batch' \in [Consumers -> Seq(Block)]
      /\ cpc' \in [Consumers -> ConsumerStates]
      /\ fillTo' \in [Consumers -> Nat] /\ skewed' \subseteq Consumers
      /\ StoresAligned' /\ CapacityRespected' /\ FillInRange'
  BY <1>1, <1>2, ReadKeepsStores DEF producer
<1>4. last' \in [Consumers -> BOOLEAN] /\ notified' \in [Consumers -> BOOLEAN]
  BY <1>1, <1>2 DEF IndInv, TypeOK, Wake
<1>5. TypeOK'
  BY <1>1, <1>2, <1>3, <1>4 DEF IndInv, TypeOK, producer
<1>6. HeldIsLogged'
  BY <1>1 DEF IndInv, HeldIsLogged, producer
<1>7. QED BY <1>3, <1>5, <1>6 DEF IndInv

\* Every step of a consumer.
LEMMA IterateKeeps ==
    \A c \in Consumers : IndInv /\ (Iterate(c) \/ Disconnect(c)) => IndInv'
<1> SUFFICES ASSUME NEW c \in Consumers, IndInv, Iterate(c) \/ Disconnect(c)
             PROVE  IndInv'
  OBVIOUS
<1>1. TypeOK
  BY DEF IndInv
<1>2. CASE Fill(c)
  <2>1. SubSeq(log, cursor[c] + 1, fillTo[c]) \in Seq(Block)
    <3>1. fillTo[c] <= Len(log) /\ fillTo[c] \in Nat /\ cursor[c] \in Nat /\ log \in Seq(Block)
      BY <1>2, <1>1 DEF Fill, IndInv, FillInRange, TypeOK
    <3>2. \A i \in (cursor[c] + 1)..fillTo[c] : log[i] \in Block
      BY <3>1
    <3>3. QED BY <3>1, <3>2, SubSeqProperties
  <2>2. batch' \in [Consumers -> Seq(Block)]
    BY <2>1, <1>2, <1>1 DEF Fill, TypeOK
  <2>3. /\ cpc' = [cpc EXCEPT ![c] = "deliver"]
        /\ UNCHANGED <<store, producer, live, cursor, upto, last, fillTo, notified, got, snap, skewed>>
    BY <1>2 DEF Fill
  <2>4. QED BY <2>2, <2>3, <1>1, ConsumerStepKeeps DEF TypeOK, ConsumerStates, producer
<1>3. CASE Deliver(c)
  <2>1. batch[c] # <<>> /\ batch[c] \in Seq(Block) /\ got[c] \in Seq(Block)
    BY <1>3, <1>1 DEF Deliver, TypeOK
  <2>2. Head(batch[c]) \in Block /\ Tail(batch[c]) \in Seq(Block)
    BY <2>1, HeadTailProperties
  <2>3. /\ batch' \in [Consumers -> Seq(Block)] /\ got' \in [Consumers -> Seq(Block)]
    BY <2>1, <2>2, <1>3, <1>1 DEF Deliver, TypeOK
  <2>4. UNCHANGED <<store, producer, cpc, live, cursor, upto, last, fillTo, notified, snap, skewed>>
    BY <1>3 DEF Deliver
  <2>5. QED BY <2>3, <2>4, <1>1, ConsumerStepKeeps DEF TypeOK, producer
<1>4. CASE EndReplay(c)
  <2>1. /\ live' = [live EXCEPT ![c] = TRUE] /\ cursor' = [cursor EXCEPT ![c] = Length]
        /\ cpc' = [cpc EXCEPT ![c] = IF Done THEN "ended" ELSE "wait"]
        /\ IF Done THEN CancelAlongside ELSE UNCHANGED prod
        /\ notified' = [notified EXCEPT ![c] = ~Done /\ News(Length)]
        /\ UNCHANGED <<store, held, emitted, upto, last, fillTo, batch, got, snap, skewed>>
    BY <1>4 DEF EndReplay, Finish
  <2>2. prod' = prod \/ (~Persist /\ prod' = "cancelled")
    BY <2>1 DEF CancelAlongside
  <2>3. Length \in Nat /\ (~Done /\ News(Length)) \in BOOLEAN
    BY <1>1 DEF TypeOK, Length, News, Done
  <2>4. QED BY <2>1, <2>2, <2>3, <1>1, ConsumerStepKeeps DEF TypeOK, ConsumerStates
<1>5. CASE EndTail(c)
  <2>1. /\ cursor' = [cursor EXCEPT ![c] = upto[c]]
        /\ cpc' = [cpc EXCEPT ![c] = IF last[c] THEN "ended" ELSE "wait"]
        /\ IF last[c] THEN CancelAlongside ELSE UNCHANGED prod
        /\ notified' = [notified EXCEPT ![c] = ~last[c] /\ News(upto[c])]
        /\ UNCHANGED <<store, held, emitted, live, upto, last, fillTo, batch, got, snap, skewed>>
    BY <1>5 DEF EndTail, Finish
  <2>2. prod' = prod \/ (~Persist /\ prod' = "cancelled")
    BY <2>1 DEF CancelAlongside
  <2>3. (~last[c] /\ News(upto[c])) \in BOOLEAN
    BY <1>1 DEF TypeOK, News, Done
  <2>4. QED BY <2>1, <2>2, <2>3, <1>1, ConsumerStepKeeps DEF TypeOK, ConsumerStates
<1>6. CASE Wake(c)
  BY <1>6, WakeKeeps
<1>7. CASE Disconnect(c)
  <2>1. /\ cpc' = [cpc EXCEPT ![c] = "closed"] /\ CancelAlongside
        /\ notified' = [notified EXCEPT ![c] = FALSE]
        /\ UNCHANGED <<store, held, emitted, live, cursor, upto, last, fillTo, batch, got, snap,
                      skewed>>
    BY <1>7 DEF Disconnect
  <2>2. prod' = prod \/ (~Persist /\ prod' = "cancelled")
    BY <2>1 DEF CancelAlongside
  <2>3. QED BY <2>1, <2>2, <1>1, ConsumerStepKeeps DEF TypeOK, ConsumerStates
<1>8. CASE Sleep(c)
  <2>1. notified' \in [Consumers -> BOOLEAN] /\ UNCHANGED <<store, producer, readers>>
    BY <1>8, <1>1 DEF Sleep, TypeOK
  <2>2. QED BY <2>1, <1>1, ConsumerStepKeeps DEF TypeOK, producer, readers
<1>9. QED BY <1>2, <1>3, <1>4, <1>5, <1>6, <1>7, <1>8 DEF Iterate

\* Every step of the producer.
LEMMA LoadKeeps == IndInv /\ Load => IndInv'
<1> SUFFICES ASSUME IndInv, Load PROVE IndInv'
  OBVIOUS
<1>1. emitted + 1 \in Nat /\ tokens \in Nat
  BY DEF IndInv, TypeOK
<1>2. CASE StartLoad
  BY <1>2 DEF StartLoad, IndInv, TypeOK, StoresAligned, CapacityRespected, HeldIsLogged,
              FillInRange, store, cvars, readers, ProducerStates
<1>3. CASE Emit
  <2>1. PICK k \in EventKinds :
          Take([n |-> emitted + 1, kind |-> k, tokens |-> IF k = "trace" THEN 1 ELSE 0])
    BY <1>3 DEF Emit
  <2>2. [n |-> emitted + 1, kind |-> k, tokens |-> IF k = "trace" THEN 1 ELSE 0] \in Block
    BY <1>1, EventKindsAssumption DEF Block, Kinds
  <2>3. QED BY <2>1, <2>2, TakeKeeps
<1>4. CASE EmitStop
  <2>1. [n |-> emitted + 1, kind |-> "stop", tokens |-> 0] \in Block
    BY <1>1 DEF Block, Kinds
  <2>2. QED BY <2>1, <1>4, TakeKeeps DEF EmitStop
<1>5. CASE Raise
  <2>1. [n |-> emitted + 1, kind |-> "error", tokens |-> tokens] \in Block
    BY <1>1 DEF Block, Kinds
  <2>2. QED BY <2>1, <1>5, TakeKeeps DEF Raise
<1>6. CASE Exhausted
  BY <1>6 DEF Exhausted, IndInv, TypeOK, StoresAligned, CapacityRespected, HeldIsLogged,
              FillInRange, store, cvars, readers, ProducerStates
<1>7. CASE Store
  BY <1>7, StoreKeeps
<1>8. CASE Unblock
  BY <1>8, UnblockKeeps
<1>9. QED BY <1>2, <1>3, <1>4, <1>5, <1>6, <1>7, <1>8 DEF Load

\* Every step, and stuttering.
LEMMA NextKeeps == IndInv /\ [Next]_vars => IndInv'
<1> SUFFICES ASSUME IndInv, [Next]_vars PROVE IndInv'
  OBVIOUS
<1>1. CASE Load
  BY <1>1, LoadKeeps
<1>2. ASSUME NEW c \in Consumers, Attach(c) \/ Iterate(c) \/ Disconnect(c)
      PROVE  IndInv'
  BY <1>2, AttachKeeps, IterateKeeps
<1>3. CASE UNCHANGED vars
  BY <1>3 DEF vars, store, producer, cvars, readers, IndInv, TypeOK, StoresAligned,
              CapacityRespected, HeldIsLogged, FillInRange
<1>4. QED BY <1>1, <1>2, <1>3 DEF Next

-----------------------------------------------------------------------------
(* Theorems *)

\* The invariant the others follow from: stores aligned, capacity respected, and
\* what a suspended producer and a suspended durable read rely on.
THEOREM Inductive == Spec => []IndInv
<1>1. Init => IndInv
  BY InitEstablishes
<1>2. IndInv /\ [Next]_vars => IndInv'
  BY NextKeeps
<1>3. QED BY <1>1, <1>2, PTL DEF Spec

\* Every variable of the buffer, its producer and its consumers keeps its type.
THEOREM TypeCorrect == Spec => []TypeOK
<1>1. IndInv => TypeOK
  BY DEF IndInv
<1>2. QED BY <1>1, Inductive, PTL

\* InMemoryStreamsBackend never holds more blocks than its capacity, for any
\* interleaving of the producer with any number of consumers.
THEOREM CapacityIsRespected == Spec => []CapacityRespected
<1>1. IndInv => CapacityRespected
  BY DEF IndInv
<1>2. QED BY <1>1, Inductive, PTL

\* The two tiers of StreamBuffer agree on absolute indices: the resident blocks
\* are the durable lines of the same index, and the durable tier is ahead by the
\* block of a suspended producer and by nothing else.
THEOREM TiersStayAligned == Spec => []StoresAligned
<1>1. IndInv => StoresAligned
  BY DEF IndInv
<1>2. QED BY <1>1, Inductive, PTL

\* What StreamBuffer.read returns from any index to the end, whatever other consumers
\* have popped: the durable slice, unless the producer is suspended on a full tier; then
\* the first block met in flight comes twice and the one the producer holds is missing.
THEOREM ReadsAreTold == Spec => []ReadsTold
<1>1. IndInv => ReadsTold
  BY ReadIsSlice, ReadIsShifted DEF IndInv, ReadsTold, ReadExact, ReadShifted
<1>2. QED BY <1>1, Inductive, PTL

-----------------------------------------------------------------------------
(* How a recorded stream ends *)

\* The trace blocks among the first n of a sequence.
Traces(s, n) == {i \in 1..n : s[i].kind = "trace"}

\* A terminal block is the last one, and the load task takes no block after it: what
\* it holds, once stored, is the last line of the log. A block on its way to the
\* stores carries the count of the trace blocks before it, if it is an error.
Summed ==
    Persist =>
        /\ prod # "store" => IF log = <<>> THEN held = NoBlock ELSE held = log[Len(log)]
        /\ prod = "store" => \A i \in 1..Len(log) : ~(Terminal(log[i]))
        /\ prod = "store" /\ held.kind = "error" => held.tokens = tokens
        /\ prod \in {"store", "blocked"} /\ held.kind = "trace" => held.tokens = 1

EndInv == Summed /\ EndSumsUp

\* The trace blocks among the first n, counted one block at a time.
LEMMA TracesCount ==
    ASSUME NEW s \in Seq(Block), NEW n \in Nat
    PROVE  /\ Cardinality(Traces(s, n)) \in Nat
           /\ n = 0 => Cardinality(Traces(s, n)) = 0
           /\ Cardinality(Traces(s, n + 1))
                = Cardinality(Traces(s, n)) + (IF s[n + 1].kind = "trace" THEN 1 ELSE 0)
<1>1. IsFiniteSet(1..n) /\ Traces(s, n) \in SUBSET (1..n)
  BY FS_Interval DEF Traces
<1>2. IsFiniteSet(Traces(s, n))
  BY <1>1, FS_Subset
<1>3. Cardinality(Traces(s, n)) \in Nat
  BY <1>2, FS_CardinalityType
<1>4. n = 0 => Traces(s, n) = {}
  BY DEF Traces
<1>5. Cardinality(Traces(s, n + 1))
        = Cardinality(Traces(s, n)) + (IF s[n + 1].kind = "trace" THEN 1 ELSE 0)
  <2>1. 1..(n + 1) = (1..n) \cup {n + 1} /\ n + 1 \notin 1..n
    OBVIOUS
  <2>2. CASE s[n + 1].kind = "trace"
    <3>1. Traces(s, n + 1) = Traces(s, n) \cup {n + 1} /\ n + 1 \notin Traces(s, n)
      BY <2>1, <2>2 DEF Traces
    <3>2. QED BY <3>1, <2>2, <1>2, FS_AddElement
  <2>3. CASE s[n + 1].kind # "trace"
    <3>1. Traces(s, n + 1) = Traces(s, n)
      BY <2>1, <2>3 DEF Traces
    <3>2. QED BY <3>1, <2>3, <1>3
  <2>4. QED BY <2>2, <2>3
<1>6. QED BY <1>3, <1>4, <1>5, FS_EmptySet

\* They depend on those blocks only.
LEMMA TracesAgree ==
    ASSUME NEW s, NEW t, NEW n \in Nat, \A i \in 1..n : s[i] = t[i]
    PROVE  Traces(s, n) = Traces(t, n)
  BY DEF Traces

\* TokensAccounted, in terms of Traces.
LEMMA TokensAre ==
    TokensAccounted <=>
        (Persist => /\ tokens = Cardinality(Traces(log, total))
                    /\ \A i \in 1..Len(log) :
                         log[i].kind = "error" => log[i].tokens = Cardinality(Traces(log, i - 1)))
  BY DEF TokensAccounted, Traces

\* A step that stores nothing and hands load nothing to store.
LEMMA EndFrame ==
    ASSUME EndInv, UNCHANGED <<log, total, tokens, stop, held>>,
           Persist => prod' = prod \/ (prod # "store" /\ prod' \notin {"store", "blocked"})
    PROVE  EndInv'
<1>1. TerminalIsLast' /\ TokensAccounted'
  BY DEF EndInv, EndSumsUp, TerminalIsLast, TokensAccounted, Done
<1>2. Summed'
  BY DEF EndInv, Summed
<1>3. QED BY <1>1, <1>2 DEF EndInv, EndSumsUp

\* The source yields a block: there is no terminal block in the stores yet.
LEMMA EndTake ==
    ASSUME IndInv, EndInv, NEW b \in Block, Take(b), ~(Terminal(held)),
           b.kind = "error" => b.tokens = tokens,
           b.kind = "trace" => b.tokens = 1
    PROVE  EndInv'
<1>1. /\ prod = "source" /\ held' = b /\ prod' = "store"
      /\ UNCHANGED <<log, total, tokens, stop>>
  BY DEF Take, store
<1>2. TerminalIsLast' /\ TokensAccounted'
  BY <1>1 DEF EndInv, EndSumsUp, TerminalIsLast, TokensAccounted, Done
<1>3. ASSUME Persist, NEW i \in 1..Len(log)
      PROVE  ~(Terminal(log[i]))
  <2>1. log \in Seq(Block) /\ log # <<>>
    BY <1>3 DEF IndInv, TypeOK
  <2>2. held = log[Len(log)]
    BY <1>1, <1>3, <2>1 DEF EndInv, Summed
  <2>3. Terminal(log[i]) => i = Len(log)
    BY <1>3 DEF EndInv, EndSumsUp, TerminalIsLast
  <2>4. QED BY <2>2, <2>3
<1>4. Summed'
  BY <1>1, <1>3 DEF Summed
<1>5. QED BY <1>2, <1>4 DEF EndInv, EndSumsUp

\* The durable line of the block on its way: a terminal one comes after no other,
\* and the traces before it are those counted so far.
LEMMA EndStore == IndInv /\ EndInv /\ Store => EndInv'
<1> SUFFICES ASSUME IndInv, EndInv, Store PROVE EndInv'
  OBVIOUS
<1>1. CASE ~Persist
  <2>1. log = <<>> /\ log' = log
    BY <1>1 DEF IndInv, StoresAligned, Store
  <2>2. QED BY <1>1, <2>1 DEF EndInv, Summed, EndSumsUp, TerminalIsLast, TokensAccounted
<1>2. CASE Persist
  <2>1. /\ log \in Seq(Block) /\ held \in Block /\ total \in Nat /\ tokens \in Nat
        /\ prod = "store" /\ Len(log) = total /\ held' = held
        /\ log' = Append(log, held)
    BY <1>2 DEF IndInv, TypeOK, StoresAligned, Store
  <2>2. /\ log' \in Seq(Block) /\ Len(log') = total + 1 /\ log'[total + 1] = held
        /\ \A i \in 1..total : log'[i] = log[i]
    BY <2>1, AppendKeeps
  <2>3. \A i \in 1..total : ~(Terminal(log[i]))
    BY <1>2, <2>1 DEF EndInv, Summed
  <2>4. \A i \in 1..Len(log') : Terminal(log'[i]) => i = Len(log')
    BY <2>1, <2>2, <2>3
  <2>5. ~Done
    BY <1>2, <2>1, <2>3 DEF EndInv, EndSumsUp, TerminalIsLast
  <2>6. /\ tokens = Cardinality(Traces(log, total))
        /\ \A i \in 1..total :
             log[i].kind = "error" => log[i].tokens = Cardinality(Traces(log, i - 1))
    BY <1>2, <2>1, TokensAre DEF EndInv, EndSumsUp
  <2>7. /\ held.kind = "error" => held.tokens = tokens
        /\ held.kind = "trace" => held.tokens = 1
    BY <1>2, <2>1 DEF EndInv, Summed
  <2>8. \A i \in 0..total : Traces(log', i) = Traces(log, i)
    <3> SUFFICES ASSUME NEW i \in 0..total PROVE Traces(log', i) = Traces(log, i)
      OBVIOUS
    <3>1. i \in Nat /\ \A k \in 1..i : log'[k] = log[k]
      BY <2>1, <2>2
    <3>2. QED BY <3>1, TracesAgree
  <2>9. \A i \in 1..Len(log') :
           log'[i].kind = "error" => log'[i].tokens = Cardinality(Traces(log', i - 1))
    <3> SUFFICES ASSUME NEW i \in 1..Len(log'), log'[i].kind = "error"
                 PROVE  log'[i].tokens = Cardinality(Traces(log', i - 1))
      OBVIOUS
    <3>1. i - 1 \in 0..total
      BY <2>1, <2>2
    <3>2. CASE i \in 1..total
      BY <3>1, <3>2, <2>2, <2>6, <2>8
    <3>3. CASE i = total + 1
      <4>1. i - 1 = total /\ log'[i] = held
        BY <3>3, <2>1, <2>2
      <4>2. Traces(log', i - 1) = Traces(log, total)
        BY <4>1, <3>1, <2>8
      <4>3. QED BY <4>1, <4>2, <2>6, <2>7
    <3>4. QED BY <3>2, <3>3, <2>1, <2>2
  <2>10. CASE Full
    <3>1. prod' = "blocked" /\ total' = total /\ tokens' = tokens /\ stop' = stop
      BY <2>10 DEF Store
    <3>2. ~(Done') /\ ~(total' > 0 /\ Terminal(log'[total']))
      BY <3>1, <2>5, <2>3, <2>2, <2>1 DEF Done
    <3>3. TerminalIsLast'
      BY <2>4, <3>2 DEF TerminalIsLast
    <3>4. total \in 0..total
      BY <2>1
    <3>5. TokensAccounted'
      <4>1. tokens' = Cardinality(Traces(log', total'))
        BY <3>1, <3>4, <2>6, <2>8
      <4>2. QED BY <4>1, <2>9 DEF TokensAccounted, Traces
    <3>6. log' # <<>> /\ held' = log'[Len(log')]
      BY <2>1, <2>2
    <3>7. Summed'
      BY <3>1, <3>6, <2>1, <2>7 DEF Summed
    <3>8. QED BY <3>3, <3>5, <3>7 DEF EndInv, EndSumsUp
  <2>11. CASE ~Full
    <3>1. /\ prod' \notin {"blocked", "store"} /\ total' = total + 1
          /\ tokens' = IF held.kind = "trace" THEN tokens + held.tokens ELSE tokens
          /\ stop' = IF Terminal(held) THEN held.kind ELSE stop
      BY <2>11 DEF Store, Admit
    <3>2. Done' <=> Terminal(held)
      BY <3>1, <2>5 DEF Done, Terminal, NotStopped
    <3>3. total' > 0 /\ log'[total'] = held
      BY <3>1, <2>1, <2>2
    <3>4. TerminalIsLast'
      BY <2>4, <3>2, <3>3 DEF TerminalIsLast
    <3>5. tokens' = Cardinality(Traces(log', total'))
      <4>1. Cardinality(Traces(log', total + 1))
              = Cardinality(Traces(log', total)) + (IF held.kind = "trace" THEN 1 ELSE 0)
        BY <2>1, <2>2, TracesCount
      <4>2. total \in 0..total
        BY <2>1
      <4>3. Traces(log', total) = Traces(log, total)
        BY <4>2, <2>8
      <4>4. QED BY <4>1, <4>3, <3>1, <2>1, <2>6, <2>7
    <3>6. TokensAccounted'
      BY <3>5, <2>9 DEF TokensAccounted, Traces
    <3>7. log' # <<>> /\ held' = log'[Len(log')]
      BY <2>1, <2>2
    <3>8. Summed'
      BY <3>1, <3>7 DEF Summed
    <3>9. QED BY <3>4, <3>6, <3>8 DEF EndInv, EndSumsUp
  <2>12. QED BY <2>10, <2>11
<1>3. QED BY <1>1, <1>2

\* The in-flight append of a block whose durable line is already there.
LEMMA EndUnblock == IndInv /\ EndInv /\ Unblock => EndInv'
<1> SUFFICES ASSUME IndInv, EndInv, Unblock PROVE EndInv'
  OBVIOUS
<1>1. /\ prod = "blocked" /\ log' = log /\ held' = held
      /\ prod' \notin {"blocked", "store"} /\ total' = total + 1
      /\ tokens' = IF held.kind = "trace" THEN tokens + held.tokens ELSE tokens
      /\ stop' = IF Terminal(held) THEN held.kind ELSE stop
  BY DEF Unblock, Admit
<1>2. CASE ~Persist
  <2>1. log = <<>>
    BY <1>2 DEF IndInv, StoresAligned
  <2>2. QED BY <1>1, <1>2, <2>1
            DEF EndInv, Summed, EndSumsUp, TerminalIsLast, TokensAccounted
<1>3. CASE Persist
  <2>1. /\ log \in Seq(Block) /\ held \in Block /\ total \in Nat /\ tokens \in Nat
        /\ Len(log) = total + 1 /\ log[total + 1] = held
    BY <1>1, <1>3 DEF IndInv, TypeOK, StoresAligned, HeldIsLogged
  <2>2. ~Done
    <3>1. \A i \in 1..Len(log) : Terminal(log[i]) => i = Len(log)
      BY DEF EndInv, EndSumsUp, TerminalIsLast
    <3>2. Done <=> total > 0 /\ Terminal(log[total])
      BY <1>3 DEF EndInv, EndSumsUp, TerminalIsLast
    <3>3. QED BY <3>1, <3>2, <2>1
  <2>3. Done' <=> Terminal(held)
    BY <1>1, <2>2 DEF Done, Terminal, NotStopped
  <2>4. total' > 0 /\ log'[total'] = held
    BY <1>1, <2>1
  <2>5. TerminalIsLast'
    BY <1>1, <2>3, <2>4 DEF EndInv, EndSumsUp, TerminalIsLast
  <2>6. /\ tokens = Cardinality(Traces(log, total))
        /\ \A i \in 1..Len(log) :
             log[i].kind = "error" => log[i].tokens = Cardinality(Traces(log, i - 1))
    BY <1>3, TokensAre DEF EndInv, EndSumsUp
  <2>7. held.kind = "trace" => held.tokens = 1
    BY <1>1, <1>3 DEF EndInv, Summed
  <2>8. tokens' = Cardinality(Traces(log', total'))
    <3>1. Cardinality(Traces(log, total + 1))
            = Cardinality(Traces(log, total)) + (IF held.kind = "trace" THEN 1 ELSE 0)
      BY <2>1, TracesCount
    <3>2. QED BY <3>1, <1>1, <2>1, <2>6, <2>7
  <2>9. TokensAccounted'
    BY <1>1, <2>6, <2>8 DEF TokensAccounted, Traces
  <2>10. log # <<>> /\ held = log[Len(log)]
    BY <2>1
  <2>11. Summed'
    BY <1>1, <2>10 DEF Summed
  <2>12. QED BY <2>5, <2>9, <2>11 DEF EndInv, EndSumsUp
<1>4. QED BY <1>2, <1>3

\* Every step keeps how a stream ends.
LEMMA EndKept == IndInv /\ EndInv /\ [Next]_vars => EndInv'
<1> SUFFICES ASSUME IndInv, EndInv, [Next]_vars PROVE EndInv'
  OBVIOUS
<1>1. emitted + 1 \in Nat /\ tokens \in Nat
  BY DEF IndInv, TypeOK
<1>2. CASE StartLoad
  BY <1>2, EndFrame DEF StartLoad, store
<1>3. CASE Emit
  <2>1. PICK k \in EventKinds :
          Take([n |-> emitted + 1, kind |-> k, tokens |-> IF k = "trace" THEN 1 ELSE 0])
    BY <1>3 DEF Emit
  <2>2. [n |-> emitted + 1, kind |-> k, tokens |-> IF k = "trace" THEN 1 ELSE 0] \in Block
    BY <1>1, EventKindsAssumption DEF Block, Kinds
  <2>3. k # "error" /\ ~(Terminal(held))
    BY <1>3, EventKindsAssumption DEF Emit
  <2>4. QED BY <2>1, <2>2, <2>3, EndTake
<1>4. CASE EmitStop
  <2>1. [n |-> emitted + 1, kind |-> "stop", tokens |-> 0] \in Block
    BY <1>1 DEF Block, Kinds
  <2>2. QED BY <2>1, <1>4, EndTake DEF EmitStop
<1>5. CASE Raise
  <2>1. [n |-> emitted + 1, kind |-> "error", tokens |-> tokens] \in Block
    BY <1>1 DEF Block, Kinds
  <2>2. QED BY <2>1, <1>5, EndTake DEF Raise
<1>6. CASE Exhausted
  BY <1>6, EndFrame DEF Exhausted, store
<1>7. CASE Store
  BY <1>7, EndStore
<1>8. CASE Unblock
  BY <1>8, EndUnblock
<1>9. ASSUME NEW c \in Consumers, Attach(c) \/ Iterate(c) \/ Disconnect(c)
      PROVE  EndInv'
  <2>1. UNCHANGED <<log, total, tokens, stop, held>>
    BY <1>9 DEF Attach, Iterate, Fill, Deliver, EndReplay, EndTail, Wake, Sleep, Disconnect,
                store, producer
  <2>2. Persist => prod' = prod
    BY <1>9 DEF Attach, Iterate, Fill, Deliver, EndReplay, EndTail, Wake, Sleep, Disconnect,
                Finish, CancelAlongside, producer
  <2>3. QED BY <2>1, <2>2, EndFrame
<1>10. CASE UNCHANGED vars
  BY <1>10, EndFrame DEF vars, store, producer
<1>11. QED BY <1>2, <1>3, <1>4, <1>5, <1>6, <1>7, <1>8, <1>9, <1>10 DEF Next, Load

\* A fresh buffer is empty and not done.
LEMMA EndBegins == Init => EndInv
<1> SUFFICES ASSUME Init PROVE EndInv
  OBVIOUS
<1>1. Summed
  BY DEF Init, Summed
<1>2. TerminalIsLast
  BY DEF Init, TerminalIsLast, Done
<1>3. <<>> \in Seq(Block) /\ 0 \in Nat
  OBVIOUS
<1>4. TokensAccounted
  <2>1. Cardinality(Traces(<<>>, 0)) = 0
    BY <1>3, TracesCount
  <2>2. log = <<>> /\ tokens = 0 /\ total = 0 /\ 1..Len(log) = {}
    BY DEF Init
  <2>3. QED BY <2>1, <2>2, TokensAre
<1>5. QED BY <1>1, <1>2, <1>4 DEF EndInv, EndSumsUp

-----------------------------------------------------------------------------
(* What a consumer is told *)

\* What a consumer has, or will have once its durable read returns.
Coming(c) ==
    IF cpc[c] = "fill" THEN SubSeq(log, cursor[c] + 1, fillTo[c]) \o batch[c] ELSE batch[c]
Due(c) == got[c] \o Coming(c)

\* Where the part of the stream told live begins.
Joined(c) == upto[c] - (Len(Due(c)) - snap[c])

\* A fresh generator has nothing; any other has been told the replayed prefix and a
\* contiguous range of the rest, and will go on from where that range ends, or from
\* past the replay if it has been told nothing since.
Told(c) ==
    /\ cpc[c] = "idle" =>
          cursor[c] = 0 /\ ~(live[c]) /\ got[c] = <<>> /\ batch[c] = <<>>
    /\ cpc[c] \in {"fill", "deliver", "wait", "ended"} =>
          /\ snap[c] <= Joined(c) /\ Joined(c) <= upto[c]
          /\ upto[c] <= Len(log) /\ cursor[c] <= Len(log)
          /\ Due(c) = SubSeq(log, 1, snap[c]) \o SubSeq(log, Joined(c) + 1, upto[c])
          /\ ~(live[c]) => upto[c] = snap[c]
          /\ cpc[c] = "wait" => live[c] /\ batch[c] = <<>>
                                /\ (cursor[c] = upto[c] \/ snap[c] = upto[c])
                                /\ upto[c] <= cursor[c]

TailInv == Persist => \A c \in Consumers \ skewed : Told(c)

\* Lines already recorded stay where they are.
LEMMA SlicesStay ==
    ASSUME NEW s \in Seq(Block), NEW t \in Seq(Block), Len(s) <= Len(t),
           \A i \in 1..Len(s) : t[i] = s[i],
           NEW m \in Nat, NEW n \in Nat, m > 0, n <= Len(s)
    PROVE  SubSeq(t, m, n) = SubSeq(s, m, n)
<1>1. Len(s) \in Nat /\ Len(t) \in Nat
  OBVIOUS
<1>2. \A i \in m..n : s[i] \in Block /\ t[i] \in Block
  BY <1>1
<1> DEFINE u == SubSeq(s, m, n)
           v == SubSeq(t, m, n)
<1>3. /\ u \in Seq(Block) /\ Len(u) = IF m <= n THEN n - m + 1 ELSE 0
      /\ \A i \in 1..(n - m + 1) : u[i] = s[m + i - 1]
  BY <1>2, SubSeqProperties
<1>4. /\ v \in Seq(Block) /\ Len(v) = IF m <= n THEN n - m + 1 ELSE 0
      /\ \A i \in 1..(n - m + 1) : v[i] = t[m + i - 1]
  BY <1>2, SubSeqProperties
<1>5. \A i \in 1..(n - m + 1) : m + i - 1 \in 1..Len(s)
  BY <1>1
<1> HIDE DEF u, v
<1>6. \A i \in 1..Len(u) : u[i] = v[i]
  BY <1>3, <1>4, <1>5
<1>7. u = v
  BY <1>3, <1>4, <1>6, SeqEqual
<1>8. QED BY <1>7 DEF u, v

\* A slice is a sequence of blocks of the expected length.
LEMMA SliceType ==
    ASSUME NEW s \in Seq(Block), NEW m \in Nat, NEW n \in Nat, m > 0, n <= Len(s)
    PROVE  /\ SubSeq(s, m, n) \in Seq(Block)
           /\ Len(SubSeq(s, m, n)) = IF m <= n THEN n - m + 1 ELSE 0
<1>1. \A i \in m..n : s[i] \in Block
  OBVIOUS
<1>2. QED BY <1>1, SubSeqProperties

\* Yielding the head of a batch moves it from what is coming to what was told.
LEMMA HeadMoves ==
    ASSUME NEW g \in Seq(Block), NEW b \in Seq(Block), b # <<>>
    PROVE  Append(g, Head(b)) \o Tail(b) = g \o b
<1>1. /\ Head(b) \in Block /\ Tail(b) \in Seq(Block) /\ Len(Tail(b)) = Len(b) - 1
      /\ \A i \in 1..Len(Tail(b)) : Tail(b)[i] = b[i + 1]
      /\ Head(b) = b[1] /\ Len(b) > 0
  BY HeadTailProperties
<1>2. /\ Append(g, Head(b)) \in Seq(Block) /\ Len(Append(g, Head(b))) = Len(g) + 1
      /\ \A i \in 1..Len(g) : Append(g, Head(b))[i] = g[i]
      /\ Append(g, Head(b))[Len(g) + 1] = Head(b)
  BY <1>1, AppendKeeps
<1>3. Len(g) \in Nat /\ Len(b) \in Nat
  OBVIOUS
<1> DEFINE a == Append(g, Head(b))
           t == Tail(b)
           u == a \o t
           v == g \o b
<1> HIDE DEF a, t
<1>4. a \in Seq(Block) /\ t \in Seq(Block)
  BY <1>1, <1>2 DEF a, t
<1>5. /\ u \in Seq(Block) /\ Len(u) = Len(a) + Len(t)
      /\ \A i \in 1..(Len(a) + Len(t)) : u[i] = IF i <= Len(a) THEN a[i] ELSE t[i - Len(a)]
  BY <1>4, ConcatProperties
<1>6. /\ v \in Seq(Block) /\ Len(v) = Len(g) + Len(b)
      /\ \A i \in 1..(Len(g) + Len(b)) : v[i] = IF i <= Len(g) THEN g[i] ELSE b[i - Len(g)]
  BY ConcatProperties
<1> HIDE DEF u, v
<1>7. Len(a) = Len(g) + 1 /\ Len(t) = Len(b) - 1
  BY <1>1, <1>2 DEF a, t
<1>8. ASSUME NEW i \in 1..Len(u)
      PROVE  u[i] = v[i]
  <2>1. i \in 1..(Len(g) + Len(b)) /\ i \in Nat
    BY <1>3, <1>5, <1>7
  <2>2. CASE i <= Len(g)
    <3>1. u[i] = a[i] /\ a[i] = g[i]
      BY <2>1, <2>2, <1>2, <1>3, <1>5, <1>7 DEF a
    <3>2. QED BY <3>1, <2>1, <2>2, <1>6
  <2>3. CASE i = Len(g) + 1
    <3>1. u[i] = a[i] /\ a[i] = b[1]
      BY <2>1, <2>3, <1>1, <1>2, <1>3, <1>5, <1>7 DEF a
    <3>2. v[i] = b[1]
      BY <2>1, <2>3, <1>3, <1>6
    <3>3. QED BY <3>1, <3>2
  <2>4. CASE i > Len(g) + 1
    <3>1. /\ i - Len(a) \in 1..Len(t) /\ ~(i <= Len(a)) /\ ~(i <= Len(g))
          /\ (i - Len(a)) + 1 = i - Len(g)
      BY <2>1, <2>4, <1>3, <1>7
    <3>2. u[i] = t[i - Len(a)]
      BY <3>1, <2>1, <1>5, <1>7, <1>3
    <3>3. t[i - Len(a)] = b[i - Len(g)]
      BY <3>1, <1>1 DEF t
    <3>4. v[i] = b[i - Len(g)]
      BY <3>1, <2>1, <1>6
    <3>5. QED BY <3>2, <3>3, <3>4
  <2>5. QED BY <2>1, <2>2, <2>3, <2>4, <1>3
<1>9. u = v
  <2>1. u \in Seq(Block) /\ v \in Seq(Block) /\ Len(u) = Len(v)
    BY <1>3, <1>5, <1>6, <1>7
  <2>2. \A i \in 1..Len(u) : u[i] = v[i]
    BY <1>8
  <2>3. QED BY <2>1, <2>2, SeqEqual
<1>10. QED BY <1>9 DEF u, v, a, t

\* What is coming to a consumer is made of blocks.
LEMMA DueType ==
    ASSUME IndInv, NEW c \in Consumers
    PROVE  /\ Coming(c) \in Seq(Block) /\ Due(c) \in Seq(Block)
           /\ Len(Due(c)) = Len(got[c]) + Len(Coming(c))
           /\ Len(Due(c)) \in Nat
<1>1. /\ batch[c] \in Seq(Block) /\ got[c] \in Seq(Block) /\ log \in Seq(Block)
      /\ cursor[c] \in Nat /\ fillTo[c] \in Nat
  BY DEF IndInv, TypeOK
<1>2. CASE cpc[c] = "fill"
  <2>1. fillTo[c] <= Len(log)
    BY <1>2 DEF IndInv, FillInRange
  <2>2. SubSeq(log, cursor[c] + 1, fillTo[c]) \in Seq(Block)
    BY <1>1, <2>1, SliceType
  <2>3. Coming(c) \in Seq(Block)
    BY <1>1, <1>2, <2>2, ConcatProperties DEF Coming
  <2>4. QED BY <1>1, <2>3, ConcatProperties DEF Due
<1>3. CASE cpc[c] # "fill"
  <2>1. Coming(c) \in Seq(Block)
    BY <1>1, <1>3 DEF Coming
  <2>2. QED BY <1>1, <2>1, ConcatProperties DEF Due
<1>4. QED BY <1>2, <1>3

\* A consumer that does not move is told the same, whatever is recorded meanwhile.
LEMMA ToldStays ==
    ASSUME IndInv, NEW c \in Consumers, Told(c),
           log' \in Seq(Block), Len(log) <= Len(log'),
           \A i \in 1..Len(log) : log'[i] = log[i],
           cpc'[c] = cpc[c], live'[c] = live[c], cursor'[c] = cursor[c],
           upto'[c] = upto[c], fillTo'[c] = fillTo[c], batch'[c] = batch[c],
           got'[c] = got[c], snap'[c] = snap[c]
    PROVE  Told(c)'
<1>1. /\ batch[c] \in Seq(Block) /\ got[c] \in Seq(Block) /\ log \in Seq(Block)
      /\ cursor[c] \in Nat /\ fillTo[c] \in Nat /\ snap[c] \in Nat /\ upto[c] \in Nat
      /\ Len(log) \in Nat /\ Len(log') \in Nat
  BY DEF IndInv, TypeOK
<1>0. ASSUME NEW m \in Nat, NEW n \in Nat, m > 0, n <= Len(log)
      PROVE  SubSeq(log', m, n) = SubSeq(log, m, n)
  <2> DEFINE s == log
             t == log'
  <2>1. s \in Seq(Block) /\ t \in Seq(Block) /\ Len(s) <= Len(t) /\ \A i \in 1..Len(s) : t[i] = s[i]
    BY <1>1
  <2> HIDE DEF s, t
  <2>2. n <= Len(s)
    BY <1>0 DEF s
  <2>3. SubSeq(t, m, n) = SubSeq(s, m, n)
    BY <1>0, <2>1, <2>2, SlicesStay
  <2> QED BY <2>3 DEF s, t
<1>2. CASE cpc[c] \notin {"fill", "deliver", "wait", "ended"}
  BY <1>2 DEF Told
<1>3. CASE cpc[c] \in {"fill", "deliver", "wait", "ended"}
  <2>1. cpc[c] = "fill" =>
          SubSeq(log', cursor[c] + 1, fillTo[c]) = SubSeq(log, cursor[c] + 1, fillTo[c])
    <3>1. cpc[c] = "fill" => fillTo[c] <= Len(log)
      BY DEF IndInv, FillInRange
    <3>2. cursor[c] + 1 \in Nat /\ cursor[c] + 1 > 0
      BY <1>1
    <3>3. QED BY <1>1, <1>0, <3>1, <3>2
  <2>2. Due(c)' = Due(c)
    BY <2>1 DEF Due, Coming
  <2>3. Joined(c)' = Joined(c)
    BY <2>2 DEF Joined
  <2>4. /\ snap[c] <= Joined(c) /\ Joined(c) <= upto[c] /\ upto[c] <= Len(log)
        /\ Due(c) = SubSeq(log, 1, snap[c]) \o SubSeq(log, Joined(c) + 1, upto[c])
    BY <1>3 DEF Told
  <2>5. Joined(c) \in Nat /\ snap[c] <= Len(log)
    <3>1. Len(Due(c)) \in Nat
      BY DueType
    <3>2. Joined(c) \in Int
      BY <1>1, <3>1 DEF Joined
    <3>3. QED BY <1>1, <2>4, <3>2
  <2>6. /\ SubSeq(log', 1, snap[c]) = SubSeq(log, 1, snap[c])
        /\ SubSeq(log', Joined(c) + 1, upto[c]) = SubSeq(log, Joined(c) + 1, upto[c])
    <3>1. Joined(c) + 1 \in Nat /\ Joined(c) + 1 > 0 /\ 1 \in Nat /\ 1 > 0
      BY <2>5
    <3>2. QED BY <1>1, <1>0, <2>4, <2>5, <3>1
  <2>7. cursor[c] <= Len(log')
    BY <1>1, <1>3 DEF Told
  <2>8. upto[c] <= Len(log')
    BY <1>1, <2>4
  <2>9. (Due(c) = SubSeq(log, 1, snap[c]) \o SubSeq(log, Joined(c) + 1, upto[c]))'
    BY <2>2, <2>3, <2>4, <2>6
  <2>10. QED BY <1>3, <2>3, <2>4, <2>7, <2>8, <2>9 DEF Told
<1>4. QED BY <1>2, <1>3

\* A read to the end of the buffer brings the durable slice, at once or in two parts.
LEMMA ReadComes ==
    ASSUME IndInv, Persist, prod # "blocked", NEW c \in Consumers,
           NEW start \in 0..Length, Read(c, start, Length)
    PROVE  /\ cpc'[c] \in {"fill", "deliver"}
           /\ \A d \in Consumers \ {c} :
                cpc'[d] = cpc[d] /\ fillTo'[d] = fillTo[d] /\ batch'[d] = batch[d]
           /\ SubSeq(log, start + 1, Length)
                = IF cpc'[c] = "fill"
                  THEN SubSeq(log, start + 1, fillTo'[c]) \o batch'[c]
                  ELSE batch'[c]
<1> DEFINE popped == Pop(start, Length).blocks
           prefixEnd == Length - Len(popped)
<1>1. /\ log \in Seq(Block) /\ deque \in Seq(Block) /\ base \in Nat
      /\ Length = Len(log) /\ Length \in Nat /\ Lesser(Length, Length) = Length
      /\ batch \in [Consumers -> Seq(Block)] /\ fillTo \in [Consumers -> Nat]
      /\ cpc \in [Consumers -> ConsumerStates]
  BY DEF IndInv, TypeOK, Length, Lesser
<1>2. popped \in Seq(Block)
  <2>1. start \in Nat
    BY <1>1
  <2>2. QED BY <1>1, <2>1, PopIsResident
<1>3. SubSeq(log, start + 1, prefixEnd) \o popped = SubSeq(log, start + 1, Length)
  BY ReadIsSlice DEF IndInv, ReadResult
<1>4. CASE start >= Length
  <2>1. batch' = [batch EXCEPT ![c] = <<>>] /\ cpc' = [cpc EXCEPT ![c] = "deliver"]
        /\ fillTo' = fillTo
    BY <1>1, <1>4 DEF Read
  <2>2. SubSeq(log, start + 1, Length) = <<>>
    BY <1>1, <1>4, SubSeqEmpty
  <2>3. QED BY <1>1, <2>1, <2>2
<1>5. CASE ~(start >= Length)
  <2>1. /\ batch' = [batch EXCEPT ![c] = popped]
        /\ IF start < prefixEnd
           THEN /\ cpc' = [cpc EXCEPT ![c] = "fill"]
                /\ fillTo' = [fillTo EXCEPT ![c] = prefixEnd]
           ELSE /\ cpc' = [cpc EXCEPT ![c] = "deliver"]
                /\ fillTo' = fillTo
    BY <1>1, <1>5 DEF Read
  <2>2. prefixEnd \in Int
    BY <1>1, <1>2
  <2> HIDE DEF popped, prefixEnd
  <2>3. CASE start < prefixEnd
    <3>1. cpc' = [cpc EXCEPT ![c] = "fill"] /\ fillTo' = [fillTo EXCEPT ![c] = prefixEnd]
      BY <2>1, <2>3
    <3>2. cpc'[c] = "fill" /\ fillTo'[c] = prefixEnd /\ batch'[c] = popped
      BY <1>1, <2>1, <3>1
    <3>3. QED BY <1>1, <1>3, <2>1, <3>1, <3>2
  <2>4. CASE ~(start < prefixEnd)
    <3>1. SubSeq(log, start + 1, prefixEnd) = <<>>
      BY <2>2, <2>4, SubSeqEmpty
    <3>2. SubSeq(log, start + 1, Length) = popped
      BY <1>2, <1>3, <3>1, ConcatEmptySeq
    <3>3. QED BY <1>1, <2>1, <2>4, <3>2
  <2>5. QED BY <2>3, <2>4
<1>6. QED BY <1>4, <1>5

\* It concerns no other consumer.
LEMMA ReadSpares ==
    ASSUME IndInv, NEW c \in Consumers, NEW d \in Consumers, d # c, NEW start,
           Read(d, start, Length)
    PROVE  cpc'[c] = cpc[c] /\ fillTo'[c] = fillTo[c] /\ batch'[c] = batch[c]
<1>1. /\ cpc \in [Consumers -> ConsumerStates] /\ fillTo \in [Consumers -> Nat]
      /\ batch \in [Consumers -> Seq(Block)]
  BY DEF IndInv, TypeOK
<1>2. /\ \E v : batch' = [batch EXCEPT ![d] = v]
      /\ \E v : cpc' = [cpc EXCEPT ![d] = v]
      /\ fillTo' = fillTo \/ \E v : fillTo' = [fillTo EXCEPT ![d] = v]
  <2>1. CASE start >= Lesser(Length, Length)
    <3>1. /\ batch' = [batch EXCEPT ![d] = <<>>] /\ cpc' = [cpc EXCEPT ![d] = "deliver"]
          /\ fillTo' = fillTo
      BY <2>1 DEF Read
    <3>2. QED BY <3>1
  <2>2. CASE ~(start >= Lesser(Length, Length))
    <3> DEFINE popped == Pop(start, Lesser(Length, Length))
               prefixEnd == Lesser(Length, Length) - Len(popped.blocks)
    <3>1. /\ batch' = [batch EXCEPT ![d] = popped.blocks]
          /\ \/ /\ cpc' = [cpc EXCEPT ![d] = "fill"]
                /\ fillTo' = [fillTo EXCEPT ![d] = prefixEnd]
             \/ cpc' = [cpc EXCEPT ![d] = "deliver"] /\ fillTo' = fillTo
      BY <2>2 DEF Read
    <3> HIDE DEF popped, prefixEnd
    <3>2. QED BY <3>1
  <2>3. QED BY <2>1, <2>2
<1>3. QED BY <1>1, <1>2

\* What Told says of a consumer that has read: the parts of its new state.
LEMMA ToldOf ==
    ASSUME NEW c \in Consumers, cpc'[c] # "idle",
           snap'[c] <= Joined(c)', Joined(c)' <= upto'[c],
           upto'[c] <= Len(log'), cursor'[c] <= Len(log'),
           Due(c)' = SubSeq(log', 1, snap'[c]) \o SubSeq(log', Joined(c)' + 1, upto'[c]),
           live'[c] \/ upto'[c] = snap'[c],
           cpc'[c] = "wait" =>
              /\ live'[c] /\ batch'[c] = <<>> /\ upto'[c] <= cursor'[c]
              /\ cursor'[c] = upto'[c] \/ snap'[c] = upto'[c]
    PROVE  Told(c)'
  BY DEF Told

\* A generator attaching to the buffer reads what is recorded.
LEMMA AttachTold ==
    ASSUME IndInv, IndInv', Persist, NEW c \in Consumers, Told(c), Attach(c),
           c \notin skewed'
    PROVE  Told(c)'
<1>1. /\ cpc[c] = "idle" /\ UNCHANGED <<log, total, cursor, got>>
      /\ upto' = [upto EXCEPT ![c] = Length] /\ snap' = [snap EXCEPT ![c] = Length]
  BY DEF Attach
<1>2. /\ log \in Seq(Block) /\ Length = Len(log) /\ Length \in Nat
      /\ upto'[c] = Length /\ snap'[c] = Length
  BY <1>1 DEF IndInv, TypeOK, Length
<1>3. cursor[c] = 0 /\ ~(live[c]) /\ got[c] = <<>> /\ batch[c] = <<>>
  BY <1>1 DEF Told
<1>4. SubSeq(log, Length + 1, Length) = <<>> /\ SubSeq(log, 1, Length) = log
  BY <1>2, SubSeqEmpty, SubSeqFull
<1>5. CASE Length = 0
  <2>1. /\ cpc' = [cpc EXCEPT ![c] = "wait"] /\ live' = [live EXCEPT ![c] = TRUE]
        /\ batch' = batch
    BY <1>5 DEF Attach
  <2>2. cpc'[c] = "wait" /\ live'[c]
    BY <2>1 DEF IndInv, TypeOK
  <2>3. <<>> \in Seq(Block) /\ <<>> \o <<>> = <<>>
    BY ConcatEmptySeq
  <2>4. Due(c)' = <<>>
    BY <1>1, <1>3, <2>1, <2>2, <2>3 DEF Due, Coming
  <2>5. Joined(c)' = 0
    <3>1. Joined(c)' = upto'[c] - (Len(Due(c)') - snap'[c])
      BY DEF Joined
    <3>2. Len(Due(c)') = 0 /\ upto'[c] = 0 /\ snap'[c] = 0
      BY <1>2, <1>5, <2>4
    <3>3. QED BY <3>1, <3>2
  <2>6. (SubSeq(log, 1, snap[c]) \o SubSeq(log, Joined(c) + 1, upto[c]))' = <<>>
    <3>1. SubSeq(log, 1, 0) = <<>>
      BY SubSeqEmpty
    <3>2. QED BY <3>1, <1>1, <1>2, <1>5, <2>3, <2>5
  <2>7. upto'[c] = 0 /\ snap'[c] = 0 /\ cursor'[c] = 0 /\ batch'[c] = <<>> /\ Len(log') = 0
    BY <1>1, <1>2, <1>3, <1>5, <2>1
  <2>8. Due(c)' = SubSeq(log', 1, snap'[c]) \o SubSeq(log', Joined(c)' + 1, upto'[c])
    BY <2>4, <2>6
  <2>9. /\ snap'[c] <= Joined(c)' /\ Joined(c)' <= upto'[c]
        /\ upto'[c] <= Len(log') /\ cursor'[c] <= Len(log') /\ upto'[c] <= cursor'[c]
    BY <2>5, <2>7
  <2>10. cpc'[c] # "idle" /\ cursor'[c] = upto'[c]
    BY <2>2, <2>7
  <2>11. QED BY <2>2, <2>7, <2>8, <2>9, <2>10, ToldOf
<1>6. CASE Length # 0
  <2>1. Read(c, 0, Length) /\ live' = live /\ prod # "blocked"
    BY <1>6 DEF Attach, Read
  <2>2. 0 \in 0..Length
    BY <1>2
  <2>3. /\ cpc'[c] \in {"fill", "deliver"}
        /\ SubSeq(log, 0 + 1, Length)
             = IF cpc'[c] = "fill" THEN SubSeq(log, 0 + 1, fillTo'[c]) \o batch'[c]
                                   ELSE batch'[c]
    BY <2>1, <2>2, ReadComes
  <2>4. Coming(c)' = log
    <3>1. cursor'[c] = 0
      BY <1>1, <1>3
    <3>2. Coming(c)' = IF cpc'[c] = "fill" THEN SubSeq(log, 0 + 1, fillTo'[c]) \o batch'[c]
                                           ELSE batch'[c]
      BY <1>1, <3>1 DEF Coming
    <3>3. SubSeq(log, 0 + 1, Length) = log
      BY <1>4
    <3>4. QED BY <2>3, <3>2, <3>3
  <2>5. Due(c)' = log
    BY <1>1, <1>2, <1>3, <2>4, ConcatEmptySeq DEF Due
  <2>6. Joined(c)' = Length
    BY <1>2, <2>5 DEF Joined
  <2>7. (Due(c) = SubSeq(log, 1, snap[c]) \o SubSeq(log, Joined(c) + 1, upto[c]))'
    BY <1>1, <1>2, <1>4, <2>5, <2>6, ConcatEmptySeq
  <2>8. cpc'[c] # "idle" /\ cpc'[c] # "wait" /\ cursor'[c] = 0 /\ Len(log') = Length
    BY <1>1, <1>2, <1>3, <2>3
  <2>9. QED BY <1>2, <2>6, <2>7, <2>8, ToldOf
<1>7. QED BY <1>5, <1>6

\* A step within the range being delivered: what is due stays what it was.
LEMMA SameDue ==
    ASSUME NEW c \in Consumers, Told(c), cpc[c] \in {"fill", "deliver"},
           cpc'[c] \in {"fill", "deliver"}, Due(c)' = Due(c),
           log' = log, live'[c] = live[c], cursor'[c] = cursor[c], upto'[c] = upto[c],
           snap'[c] = snap[c]
    PROVE  Told(c)'
<1>1. Joined(c)' = Joined(c)
  BY DEF Joined
<1>2. QED BY <1>1 DEF Told

\* The missing prefix arrives.
LEMMA FillTold ==
    ASSUME IndInv, NEW c \in Consumers, Told(c), Fill(c)
    PROVE  Told(c)'
<1>1. /\ cpc[c] = "fill" /\ cpc' = [cpc EXCEPT ![c] = "deliver"]
      /\ batch' = [batch EXCEPT ![c] = SubSeq(log, cursor[c] + 1, fillTo[c]) \o @]
      /\ UNCHANGED <<log, live, cursor, upto, got, snap>>
  BY DEF Fill, store
<1>2. cpc'[c] = "deliver" /\ batch'[c] = SubSeq(log, cursor[c] + 1, fillTo[c]) \o batch[c]
  BY <1>1 DEF IndInv, TypeOK
<1>3. Coming(c)' = Coming(c)
  BY <1>1, <1>2 DEF Coming
<1>4. Due(c)' = Due(c)
  BY <1>1, <1>3 DEF Due
<1>5. QED BY <1>1, <1>2, <1>4, SameDue

\* A block is yielded.
LEMMA DeliverTold ==
    ASSUME IndInv, NEW c \in Consumers, Told(c), Deliver(c)
    PROVE  Told(c)'
<1>1. /\ cpc[c] = "deliver" /\ batch[c] # <<>>
      /\ got' = [got EXCEPT ![c] = Append(@, Head(batch[c]))]
      /\ batch' = [batch EXCEPT ![c] = Tail(@)]
      /\ UNCHANGED <<log, cpc, live, cursor, upto, snap>>
  BY DEF Deliver, store
<1>2. /\ got[c] \in Seq(Block) /\ batch[c] \in Seq(Block)
      /\ got'[c] = Append(got[c], Head(batch[c])) /\ batch'[c] = Tail(batch[c])
  BY <1>1 DEF IndInv, TypeOK
<1>3. got'[c] \o batch'[c] = got[c] \o batch[c]
  BY <1>1, <1>2, HeadMoves
<1>4. Due(c)' = Due(c)
  BY <1>1, <1>3 DEF Due, Coming
<1>5. QED BY <1>1, <1>4, SameDue

\* A range is exhausted: nothing is coming, and the cursor is where the range ended, or
\* past the replay.
LEMMA EndTold ==
    ASSUME IndInv, Persist, NEW c \in Consumers, Told(c), EndReplay(c) \/ EndTail(c)
    PROVE  Told(c)'
<1>1. /\ cpc[c] = "deliver" /\ batch[c] = <<>> /\ UNCHANGED <<log, upto, batch, got, snap>>
      /\ cpc' = [cpc EXCEPT ![c] = "ended"] \/ cpc' = [cpc EXCEPT ![c] = "wait"]
  BY DEF EndReplay, EndTail, Finish, store
<1>2. /\ log \in Seq(Block) /\ cpc'[c] \in {"ended", "wait"} /\ Length = Len(log)
      /\ upto[c] \in Nat /\ snap[c] \in Nat /\ Len(log) \in Nat
  BY <1>1 DEF IndInv, TypeOK, Length
<1>3. upto[c] <= Len(log)
  BY <1>1 DEF Told
<1>4. live'[c] /\ cursor'[c] <= Len(log) /\ upto[c] <= cursor'[c]
      /\ (cursor'[c] = upto[c] \/ snap[c] = upto[c])
  <2>1. CASE EndReplay(c)
    <3>1. live'[c] /\ cursor'[c] = Len(log) /\ ~(live[c])
      BY <2>1, <1>2 DEF EndReplay, Finish, IndInv, TypeOK
    <3>2. snap[c] = upto[c]
      BY <3>1, <1>1 DEF Told
    <3>3. QED BY <3>1, <3>2, <1>2, <1>3
  <2>2. CASE EndTail(c)
    <3>1. live'[c] /\ cursor'[c] = upto[c]
      BY <2>2 DEF EndTail, Finish, IndInv, TypeOK
    <3>2. QED BY <3>1, <1>2, <1>3
  <2>3. QED BY <2>1, <2>2
<1>5. Due(c)' = Due(c)
  BY <1>1, <1>2 DEF Due, Coming
<1>6. Joined(c)' = Joined(c)
  BY <1>1, <1>5 DEF Joined
<1>7. QED BY <1>1, <1>2, <1>4, <1>5, <1>6 DEF Told

\* The wait ends and the rest of the log is read from the cursor.
LEMMA WakeTold ==
    ASSUME IndInv, IndInv', Persist, NEW c \in Consumers, Told(c), Wake(c),
           c \notin skewed'
    PROVE  Told(c)'
<1>1. /\ cpc[c] = "wait" /\ Read(c, cursor[c], Length) /\ prod # "blocked"
      /\ UNCHANGED <<log, total, live, cursor, got, snap>>
      /\ upto' = [upto EXCEPT ![c] = Length]
  BY DEF Wake, Read
<1>2. /\ log \in Seq(Block) /\ got[c] \in Seq(Block) /\ Length = Len(log) /\ Length \in Nat
      /\ upto[c] \in Nat /\ snap[c] \in Nat /\ cursor[c] \in Nat /\ Len(got[c]) \in Nat
      /\ upto'[c] = Length
  BY <1>1 DEF IndInv, TypeOK, Length
<1>3. /\ live[c] /\ batch[c] = <<>> /\ cursor[c] <= Len(log) /\ upto[c] <= cursor[c]
      /\ cursor[c] = upto[c] \/ snap[c] = upto[c]
      /\ snap[c] <= Joined(c) /\ Joined(c) <= upto[c]
      /\ Due(c) = SubSeq(log, 1, snap[c]) \o SubSeq(log, Joined(c) + 1, upto[c])
  BY <1>1 DEF Told
<1>4. Due(c) = got[c]
  BY <1>1, <1>2, <1>3, ConcatEmptySeq DEF Due, Coming
<1>5. Joined(c) = upto[c] - (Len(got[c]) - snap[c])
  BY <1>4 DEF Joined
<1> DEFINE rest == SubSeq(log, cursor[c] + 1, Length)
<1>6. cpc'[c] \in {"fill", "deliver"} /\ Coming(c)' = rest
  <2>1. cursor[c] \in 0..Length
    BY <1>2, <1>3
  <2>2. /\ cpc'[c] \in {"fill", "deliver"}
        /\ rest = IF cpc'[c] = "fill" THEN SubSeq(log, cursor[c] + 1, fillTo'[c]) \o batch'[c]
                                      ELSE batch'[c]
    BY <1>1, <2>1, ReadComes
  <2>3. QED BY <1>1, <2>2 DEF Coming
<1>7. rest \in Seq(Block) /\ Len(rest) = Length - cursor[c]
  <2>1. cursor[c] + 1 \in Nat /\ cursor[c] + 1 > 0 /\ Length <= Len(log)
    BY <1>2
  <2>2. /\ rest \in Seq(Block)
        /\ Len(rest) = IF cursor[c] + 1 <= Length THEN Length - (cursor[c] + 1) + 1 ELSE 0
    BY <1>2, <2>1, SliceType
  <2>3. QED BY <1>2, <1>3, <2>2
<1> HIDE DEF rest
<1>8. Due(c)' = got[c] \o rest
  BY <1>1, <1>6 DEF Due
<1>9. Joined(c)' = cursor[c] - (Len(got[c]) - snap[c])
  <2>1. Len(got[c] \o rest) = Len(got[c]) + (Length - cursor[c])
    <3>1. Len(got[c] \o rest) = Len(got[c]) + Len(rest)
      BY <1>2, <1>7, ConcatProperties
    <3>2. QED BY <3>1, <1>7
  <2>2. Joined(c)' = Length - (Len(got[c] \o rest) - snap[c])
    BY <1>1, <1>2, <1>8 DEF Joined
  <2>3. QED BY <1>2, <2>1, <2>2
<1>10. CASE cursor[c] = upto[c]
  <2>1. Joined(c)' = Joined(c) /\ Joined(c) \in Nat
    BY <1>2, <1>3, <1>5, <1>9, <1>10
  <2>2. SubSeq(log, Joined(c) + 1, upto[c]) \o rest = SubSeq(log, Joined(c) + 1, Length)
    <3>1. /\ Joined(c) + 1 \in 1..(Len(log) + 1) /\ upto[c] \in ((Joined(c) + 1) - 1)..Len(log)
          /\ Len(log) \in upto[c]..Len(log)
      BY <1>2, <1>3, <2>1
    <3>2. SubSeq(log, Joined(c) + 1, upto[c]) \o SubSeq(log, upto[c] + 1, Len(log))
            = SubSeq(log, Joined(c) + 1, Len(log))
      BY <1>2, <3>1, ConcatAdjacentSubSeq
    <3>3. QED BY <3>2, <1>2, <1>10 DEF rest
  <2>3. /\ SubSeq(log, 1, snap[c]) \in Seq(Block)
        /\ SubSeq(log, Joined(c) + 1, upto[c]) \in Seq(Block)
    <3>1. /\ Joined(c) + 1 \in Nat /\ Joined(c) + 1 > 0 /\ 1 \in Nat /\ 1 > 0
          /\ snap[c] <= Len(log) /\ upto[c] <= Len(log)
      BY <1>2, <1>3, <2>1
    <3>2. QED BY <1>2, <3>1, SliceType
  <2>4. got[c] \o rest = SubSeq(log, 1, snap[c]) \o SubSeq(log, Joined(c) + 1, Length)
    <3> DEFINE one == SubSeq(log, 1, snap[c])
               two == SubSeq(log, Joined(c) + 1, upto[c])
    <3>1. one \in Seq(Block) /\ two \in Seq(Block) /\ got[c] = one \o two
      BY <1>3, <1>4, <2>3
    <3>2. two \o rest = SubSeq(log, Joined(c) + 1, Length)
      BY <2>2
    <3> HIDE DEF one, two
    <3>3. (one \o two) \o rest = one \o (two \o rest)
      BY <1>7, <3>1, ConcatAssociative
    <3>4. QED BY <3>1, <3>2, <3>3 DEF one
  <2>5. (Due(c) = SubSeq(log, 1, snap[c]) \o SubSeq(log, Joined(c) + 1, upto[c]))'
    BY <1>1, <1>2, <1>8, <2>1, <2>4
  <2>6. Joined(c)' <= Length /\ snap[c] <= Joined(c)'
    BY <1>2, <1>3, <2>1, <1>10
  <2>7. /\ cpc'[c] # "idle" /\ cpc'[c] # "wait" /\ live'[c]
        /\ cursor'[c] <= Len(log') /\ upto'[c] <= Len(log')
    BY <1>1, <1>2, <1>3, <1>6
  <2>8. snap'[c] <= Joined(c)' /\ Joined(c)' <= upto'[c]
    BY <1>1, <1>2, <2>6
  <2>9. QED BY <2>5, <2>7, <2>8, ToldOf
<1>11. CASE snap[c] = upto[c]
  <2>1. Joined(c) = upto[c] /\ Len(got[c]) = snap[c]
    BY <1>2, <1>3, <1>5, <1>11
  <2>2. Joined(c)' = cursor[c]
    BY <1>2, <1>9, <2>1
  <2>3. got[c] = SubSeq(log, 1, snap[c])
    <3>1. SubSeq(log, upto[c] + 1, upto[c]) = <<>>
      BY <1>2, SubSeqEmpty
    <3>2. SubSeq(log, 1, snap[c]) \in Seq(Block)
      <4>1. 1 \in Nat /\ 1 > 0 /\ snap[c] <= Len(log)
        BY <1>2, <1>3, <1>11
      <4>2. QED BY <1>2, <4>1, SliceType
    <3>3. QED BY <1>3, <1>4, <2>1, <3>1, <3>2, ConcatEmptySeq
  <2>4. (Due(c) = SubSeq(log, 1, snap[c]) \o SubSeq(log, Joined(c) + 1, upto[c]))'
    BY <1>1, <1>2, <1>8, <2>2, <2>3 DEF rest
  <2>5. Joined(c)' <= Length /\ snap[c] <= Joined(c)'
    BY <1>2, <1>3, <1>11, <2>2
  <2>6. /\ cpc'[c] # "idle" /\ cpc'[c] # "wait" /\ live'[c]
        /\ cursor'[c] <= Len(log') /\ upto'[c] <= Len(log')
    BY <1>1, <1>2, <1>3, <1>6
  <2>7. snap'[c] <= Joined(c)' /\ Joined(c)' <= upto'[c]
    BY <1>1, <1>2, <2>5
  <2>8. QED BY <2>4, <2>6, <2>7, ToldOf
<1>12. QED BY <1>3, <1>10, <1>11

\* The durable log only grows.
LEMMA LogGrows ==
    ASSUME IndInv, [Next]_vars
    PROVE  /\ log' \in Seq(Block) /\ Len(log) <= Len(log')
           /\ \A i \in 1..Len(log) : log'[i] = log[i]
<1>1. log \in Seq(Block) /\ held \in Block /\ Len(log) \in Nat
  BY DEF IndInv, TypeOK
<1>2. log' = log \/ log' = Append(log, held)
  <2>1. CASE Load
    BY <2>1 DEF Load, StartLoad, Emit, EmitStop, Raise, Take, Exhausted, Store, Unblock, store
  <2>2. ASSUME NEW c \in Consumers, Attach(c) \/ Iterate(c) \/ Disconnect(c)
        PROVE  log' = log
    BY <2>2 DEF Attach, Iterate, Fill, Deliver, EndReplay, EndTail, Wake, Sleep, Disconnect, store
  <2>3. CASE UNCHANGED vars
    BY <2>3 DEF vars, store
  <2>4. QED BY <2>1, <2>2, <2>3 DEF Next
<1>3. CASE log' = log
  BY <1>1, <1>3
<1>4. CASE log' = Append(log, held)
  BY <1>1, <1>4, AppendKeeps
<1>5. QED BY <1>2, <1>3, <1>4

\* Every step keeps what the consumers are told.
LEMMA TailKept == IndInv /\ IndInv' /\ TailInv /\ [Next]_vars => TailInv'
<1> SUFFICES ASSUME IndInv, IndInv', TailInv, [Next]_vars, Persist,
                    NEW c \in Consumers, c \notin skewed'
             PROVE  Told(c)'
  BY DEF TailInv
<1>1. /\ log' \in Seq(Block) /\ Len(log) <= Len(log')
      /\ \A i \in 1..Len(log) : log'[i] = log[i]
  BY LogGrows
<1>2. c \notin skewed
  <2>1. CASE Load \/ UNCHANGED vars
    BY <2>1 DEF Load, StartLoad, Emit, EmitStop, Raise, Take, Exhausted, Store, Unblock,
                vars, cvars, readers
  <2>2. ASSUME NEW d \in Consumers, Attach(d) \/ Iterate(d) \/ Disconnect(d)
        PROVE  skewed \subseteq skewed'
    BY <2>2 DEF Attach, Iterate, Fill, Deliver, EndReplay, EndTail, Wake, Sleep, Disconnect,
                Read, readers
  <2>3. QED BY <2>1, <2>2 DEF Next
<1>3. Told(c)
  BY <1>2 DEF TailInv
<1>4. Told(c)'
  <2>1. CASE Load \/ UNCHANGED vars
    <3>1. UNCHANGED readers
      BY <2>1 DEF Load, StartLoad, Emit, EmitStop, Raise, Take, Exhausted, Store, Unblock,
                  vars, cvars
    <3>2. QED BY <1>1, <1>3, <3>1, ToldStays DEF readers
  <2>2. ASSUME NEW d \in Consumers, Attach(d) \/ Iterate(d) \/ Disconnect(d), d # c
        PROVE  Told(c)'
    <3>1. /\ cpc'[c] = cpc[c] /\ live'[c] = live[c] /\ cursor'[c] = cursor[c]
          /\ upto'[c] = upto[c] /\ fillTo'[c] = fillTo[c] /\ batch'[c] = batch[c]
          /\ got'[c] = got[c] /\ snap'[c] = snap[c]
      <4>1. CASE Attach(d)
        <5>1. CASE Length = 0
          BY <2>2, <4>1, <5>1 DEF Attach, IndInv, TypeOK
        <5>2. CASE Length # 0
          <6>1. Read(d, 0, Length)
            BY <4>1, <5>2 DEF Attach
          <6>2. cpc'[c] = cpc[c] /\ fillTo'[c] = fillTo[c] /\ batch'[c] = batch[c]
            BY <2>2, <6>1, ReadSpares
          <6>3. QED BY <2>2, <4>1, <5>2, <6>2 DEF Attach, IndInv, TypeOK
        <5>3. QED BY <5>1, <5>2
      <4>2. CASE Wake(d)
        <5>1. Read(d, cursor[d], Length)
          BY <4>2 DEF Wake
        <5>2. cpc'[c] = cpc[c] /\ fillTo'[c] = fillTo[c] /\ batch'[c] = batch[c]
          BY <2>2, <5>1, ReadSpares
        <5>3. QED BY <2>2, <4>2, <5>2 DEF Wake, IndInv, TypeOK
      <4>3. CASE Fill(d) \/ Deliver(d)
        BY <2>2, <4>3 DEF Fill, Deliver, IndInv, TypeOK
      <4>4. CASE EndReplay(d) \/ EndTail(d) \/ Disconnect(d)
        BY <2>2, <4>4 DEF EndReplay, EndTail, Disconnect, Finish, IndInv, TypeOK
      <4>5. CASE Sleep(d)
        BY <4>5 DEF Sleep, readers
      <4>6. QED BY <2>2, <4>1, <4>2, <4>3, <4>4, <4>5 DEF Iterate
    <3>2. QED BY <1>1, <1>3, <3>1, ToldStays
  <2>3. CASE Attach(c)
    BY <1>3, <2>3, AttachTold
  <2>4. CASE Sleep(c)
    BY <1>1, <1>3, <2>4, ToldStays DEF Sleep, readers
  <2>5. CASE Iterate(c) /\ ~(Sleep(c))
    BY <1>3, <2>5, FillTold, DeliverTold, EndTold, WakeTold DEF Iterate
  <2>6. CASE Disconnect(c)
    BY <2>6 DEF Disconnect, Told, IndInv, TypeOK
  <2>7. QED BY <2>1, <2>2, <2>3, <2>4, <2>5, <2>6 DEF Next
<1>5. QED BY <1>4

\* Nobody has been told anything of a fresh buffer.
LEMMA TailBegins == Init => TailInv
  BY DEF Init, TailInv, Told

-----------------------------------------------------------------------------
(* What a consumer of a recorded stream can rely on *)

\* However a stream ends, its terminal block is the only one and the last of the log,
\* `done` says that it is in both tiers, and the output tokens a synthesised StopEvent
\* carries are those of the trace blocks recorded before it (StreamBuffer.error).
THEOREM EndIsTrue == Spec => []EndSumsUp
<1>1. Init => IndInv /\ EndInv
  BY InitEstablishes, EndBegins
<1>2. (IndInv /\ EndInv) /\ [Next]_vars => (IndInv /\ EndInv)'
  BY NextKeeps, EndKept
<1>3. EndInv => EndSumsUp
  BY DEF EndInv
<1>4. QED BY <1>1, <1>2, <1>3, PTL DEF Spec

\* What an iterator of a recorded stream can rely on: the stream ends in one terminal
\* block that sums it up and, unless a read of its own fell in a suspension of the
\* producer, the iterator gets the replayed prefix and then a contiguous range, nothing
\* twice and nothing out of order, with one gap at most and that at the replay boundary
\* (StreamBuffer._iterate).
THEOREM RecordIsTold == Spec => []RecordTold
<1>1. Init => IndInv /\ TailInv
  BY InitEstablishes, TailBegins
<1>2. (IndInv /\ TailInv) /\ [Next]_vars => (IndInv /\ TailInv)'
  BY NextKeeps, TailKept
<1>3. TailInv => ReplayThenTail
  <2> SUFFICES ASSUME TailInv, Persist, NEW c \in Consumers \ skewed,
                      cpc[c] \in {"deliver", "wait", "ended"}
               PROVE  /\ snap[c] <= Joined(c)
                      /\ Received(c) = SubSeq(log, 1, snap[c])
                                         \o SubSeq(log, Joined(c) + 1, upto[c])
                      /\ Due(c) = Received(c)
    BY DEF ReplayThenTail, Joined
  <2>1. Told(c)
    BY DEF TailInv
  <2>2. Due(c) = Received(c)
    BY DEF Due, Coming, Received
  <2>3. QED BY <2>1, <2>2 DEF Told
<1>4. EndSumsUp /\ ReplayThenTail => RecordTold
  BY DEF RecordTold
<1>5. QED BY <1>1, <1>2, <1>3, <1>4, EndIsTrue, PTL DEF Spec
-----------------------------------------------------------------------------
(* The channel a buffer without durable tier is to its client *)

\* A buffer without durable tier, with a bound and a client.
Ephemeral == ~Persist /\ Capacity # Unbounded /\ Consumers # {}

\* The blocks the in-flight tier ever admitted: with the client, or resident.
Sent == Received(Client) \o deque

\* They are numbered in order, and at most one capacity is in the client's hands.
Feed ==
    /\ Len(Sent) = total
    /\ \A i \in 1..total : Sent[i].n = i
    /\ Len(batch[Client]) <= Capacity

\* The block held is the next one until it is admitted; load has a terminal block
\* in hand, or has finished, once the buffer is done.
Source ==
    /\ prod \in {"idle", "source"} => emitted = total /\ (Done <=> Terminal(held))
    /\ prod \in {"store", "blocked"} => emitted = total + 1 /\ held.n = emitted /\ ~Done
    /\ prod = "idle" => total = 0 /\ ~Done

\* The client takes all that is resident, from where it left off, and has it all
\* when it read that the buffer is done; once it is gone load does not run.
Drain ==
    /\ cpc[Client] = "idle" <=> prod = "idle"
    /\ cpc[Client] = "idle" => cursor[Client] = 0
    /\ cpc[Client] # "fill"
    /\ cpc[Client] # "idle" => live[Client]
    /\ cpc[Client] = "wait" => cursor[Client] = base /\ batch[Client] = <<>>
    /\ cpc[Client] = "deliver" => upto[Client] = base
    /\ cpc[Client] = "deliver" /\ last[Client] => Done /\ deque = <<>>
    /\ Gone(Client) => prod \in {"finished", "cancelled"}

ClientInv == Feed /\ Source /\ Drain

\* The first k numbers.
Upto(k) == [i \in 1..k |-> i]

\* There is one client.
LEMMA OneClient ==
    ASSUME Ephemeral
    PROVE  Client \in Consumers /\ \A c \in Consumers : c = Client
  BY SingleConsumerAssumption DEF Ephemeral, Client

\* Blocks numbered in order have the first numbers.
LEMMA NumbersAre ==
    ASSUME NEW s, NEW k \in Nat, Len(s) = k, \A i \in 1..k : s[i].n = i
    PROVE  Numbers(s) = Upto(k)
  BY DEF Numbers, Upto

\* The next number extends them.
LEMMA UptoGrows ==
    ASSUME NEW k \in Nat
    PROVE  Upto(k) \in Seq(Nat) /\ Len(Upto(k)) = k /\ Append(Upto(k), k + 1) = Upto(k + 1)
<1>1. Upto(k) \in Seq(Nat) /\ Len(Upto(k)) = k
  BY DEF Upto
<1>2. Upto(k + 1) \in Seq(Nat) /\ Len(Upto(k + 1)) = k + 1
  BY DEF Upto
<1>3. /\ Append(Upto(k), k + 1) \in Seq(Nat) /\ Len(Append(Upto(k), k + 1)) = k + 1
      /\ \A i \in 1..k : Append(Upto(k), k + 1)[i] = Upto(k)[i]
      /\ Append(Upto(k), k + 1)[k + 1] = k + 1
  BY <1>1, AppendProperties
<1>4. \A i \in 1..(k + 1) : Append(Upto(k), k + 1)[i] = Upto(k + 1)[i]
  BY <1>3 DEF Upto
<1>5. QED BY <1>1, <1>2, <1>3, <1>4, SeqEqual

\* The types of what the client was told, has in hand and will find.
LEMMA ClientTypes ==
    ASSUME IndInv, Ephemeral
    PROVE  /\ got[Client] \in Seq(Block) /\ batch[Client] \in Seq(Block) /\ deque \in Seq(Block)
           /\ Received(Client) \in Seq(Block) /\ Sent \in Seq(Block)
           /\ Len(got[Client]) \in Nat /\ Len(batch[Client]) \in Nat /\ Len(deque) \in Nat
           /\ Len(Received(Client)) = Len(got[Client]) + Len(batch[Client])
           /\ Len(Sent) = Len(got[Client]) + Len(batch[Client]) + Len(deque)
<1>1. /\ got[Client] \in Seq(Block) /\ batch[Client] \in Seq(Block) /\ deque \in Seq(Block)
  BY OneClient DEF IndInv, TypeOK
<1>2. /\ Received(Client) \in Seq(Block)
      /\ Len(Received(Client)) = Len(got[Client]) + Len(batch[Client])
  BY <1>1, ConcatProperties DEF Received
<1>3. Sent \in Seq(Block) /\ Len(Sent) = Len(Received(Client)) + Len(deque)
  BY <1>1, <1>2, ConcatProperties DEF Sent
<1>4. QED BY <1>1, <1>2, <1>3

\* The first part of a sequence of blocks numbered in order.
LEMMA FrontIs ==
    ASSUME NEW g \in Seq(Block), NEW b \in Seq(Block), NEW d \in Seq(Block),
           \A i \in 1..Len((g \o b) \o d) : ((g \o b) \o d)[i].n = i
    PROVE  Numbers(g) = Upto(Len(g))
<1>1. Len(g) \in Nat /\ Len(b) \in Nat /\ Len(d) \in Nat
  OBVIOUS
<1>2. /\ g \o b \in Seq(Block) /\ Len(g \o b) = Len(g) + Len(b)
      /\ \A i \in 1..(Len(g) + Len(b)) : (g \o b)[i] = IF i <= Len(g) THEN g[i] ELSE b[i - Len(g)]
  BY ConcatProperties
<1> DEFINE q == g \o b
           w == q \o d
<1>3. q \in Seq(Block) /\ Len(q) = Len(g) + Len(b)
  BY <1>2
<1>4. \A i \in 1..Len(w) : w[i].n = i
  OBVIOUS
<1> HIDE DEF q
<1>5. /\ Len(w) = Len(q) + Len(d)
      /\ \A i \in 1..(Len(q) + Len(d)) : w[i] = IF i <= Len(q) THEN q[i] ELSE d[i - Len(q)]
  BY <1>3, ConcatProperties
<1> HIDE DEF w
<1>6. ASSUME NEW i \in 1..Len(g)
      PROVE  g[i].n = i
  <2>1. i \in 1..(Len(g) + Len(b)) /\ i <= Len(g) /\ i \in 1..(Len(q) + Len(d)) /\ i <= Len(q)
    BY <1>1, <1>3
  <2>2. q[i] = g[i]
    BY <1>2, <2>1 DEF q
  <2>3. w[i] = q[i]
    BY <1>5, <2>1
  <2>4. w[i].n = i
    BY <1>4, <1>5, <2>1
  <2>5. QED BY <2>2, <2>3, <2>4
<1>7. QED BY <1>1, <1>6, NumbersAre

\* What the client was told is the first part of what was sent.
LEMMA ReceivedIs ==
    ASSUME IndInv, Ephemeral, Feed
    PROVE  /\ Numbers(Sent) = Upto(total)
           /\ Numbers(got[Client]) = Upto(Len(got[Client]))
           /\ Len(got[Client]) + Len(batch[Client]) + Len(deque) = total
<1>1. total \in Nat /\ Len(Sent) = total /\ \A i \in 1..total : Sent[i].n = i
  BY DEF Feed, IndInv, TypeOK
<1>2. Numbers(Sent) = Upto(total)
  BY <1>1, NumbersAre
<1>3. Sent = (got[Client] \o batch[Client]) \o deque
  BY DEF Sent, Received
<1>4. Numbers(got[Client]) = Upto(Len(got[Client]))
  BY <1>1, <1>3, ClientTypes, FrontIs
<1>5. QED BY <1>1, <1>2, <1>4, ClientTypes

\* A block that is admitted is the next item of the channel, which has room for it.
LEMMA AdmitSends ==
    ASSUME IndInv, IndInv', Ephemeral, ClientInv, prod \in {"store", "blocked"}, ~Full, Admit(held),
           UNCHANGED <<base, held, emitted, readers>>
    PROVE  ClientInv' /\ AsChannel!Send
<1>1. /\ deque' = Append(deque, held) /\ total' = total + 1
      /\ stop' = IF Terminal(held) THEN held.kind ELSE stop
      /\ prod' = IF held.kind = "error" THEN "finished" ELSE "source"
  BY DEF Admit
<1>2. /\ held \in Block /\ held.n = total + 1 /\ emitted = total + 1 /\ ~Done /\ total \in Nat
      /\ Capacity \in Nat /\ Len(deque) < Capacity
  <2>1. held \in Block /\ total \in Nat /\ Capacity \in Nat /\ Len(deque) \in Nat
    BY ClientTypes, CapacityAssumption DEF IndInv, TypeOK
  <2>2. emitted = total + 1 /\ held.n = emitted /\ ~Done
    BY DEF ClientInv, Source
  <2>3. Capacity # Unbounded
    BY DEF Ephemeral
  <2>4. Len(deque) < Capacity
    BY <2>1, <2>3 DEF Full
  <2>5. QED BY <2>1, <2>2, <2>4
<1>3. Sent' = Append(Sent, held)
  <2>1. Received(Client)' = Received(Client)
    BY DEF Received, readers
  <2>2. Sent' = Received(Client) \o (deque \o <<held>>)
    BY <1>1, <1>2, <2>1, ClientTypes, AppendIsConcat DEF Sent
  <2>3. <<held>> \in Seq(Block)
    BY <1>2
  <2>4. Sent' = Sent \o <<held>>
    <3>1. Received(Client) \in Seq(Block) /\ deque \in Seq(Block)
      BY ClientTypes
    <3>2. Received(Client) \o (deque \o <<held>>) = (Received(Client) \o deque) \o <<held>>
      BY <2>3, <3>1, ConcatAssociative
    <3>3. QED BY <2>2, <3>2 DEF Sent
  <2>5. QED BY <1>2, <2>4, ClientTypes, AppendIsConcat
<1>4. Len(Sent') = total' /\ \A i \in 1..total' : Sent'[i].n = i
  <2>1. Len(Sent) = total /\ \A i \in 1..total : Sent[i].n = i
    BY DEF ClientInv, Feed
  <2>2. /\ Len(Sent') = total + 1 /\ Sent'[total + 1] = held
        /\ \A i \in 1..total : Sent'[i] = Sent[i]
    <3>1. Sent \in Seq(Block)
      BY ClientTypes
    <3> HIDE DEF Sent
    <3>2. QED BY <1>2, <1>3, <2>1, <3>1, AppendKeeps
  <2>3. QED BY <1>1, <1>2, <2>1, <2>2
<1>5. Feed'
  BY <1>4 DEF Feed, ClientInv, readers
<1>6. Source'
  BY <1>1, <1>2 DEF Source, Done, Terminal, NotStopped
<1>7. Drain'
  <2>1. prod' # "idle" /\ prod # "idle" /\ prod \notin {"finished", "cancelled"}
    BY <1>1
  <2>2. ~(cpc[Client] = "deliver" /\ last[Client])
    BY <1>2 DEF ClientInv, Drain
  <2>3. QED BY <2>1, <2>2 DEF ClientInv, Drain, Gone, readers
<1>8. ~Gone(Client) /\ ~Done
  BY <1>2 DEF ClientInv, Drain
<1>9. Numbers(Sent') = Append(Numbers(Sent), Len(Numbers(Sent)) + 1)
  <2>1. Numbers(Sent) = Upto(total)
    BY ReceivedIs DEF ClientInv
  <2>2. Numbers(Sent') = Upto(total + 1)
    BY <1>1, <1>2, <1>4, NumbersAre
  <2>3. QED BY <1>2, <2>1, <2>2, UptoGrows
<1>10. Len(Numbers(Sent)) - Len(Numbers(got[Client])) < 2 * Capacity
  <2>1. /\ Len(Numbers(Sent)) = total /\ Len(Numbers(got[Client])) = Len(got[Client])
        /\ Len(got[Client]) + Len(batch[Client]) + Len(deque) = total
    BY <1>2, ReceivedIs, ClientTypes, UptoGrows DEF ClientInv
  <2>2. Len(batch[Client]) <= Capacity
    BY DEF ClientInv, Feed
  <2>3. Len(got[Client]) \in Nat /\ Len(batch[Client]) \in Nat /\ Len(deque) \in Nat
    BY ClientTypes
  <2> HIDE DEF ClientInv
  <2>4. Len(batch[Client]) + Len(deque) < 2 * Capacity
    BY <1>2, <2>2, <2>3
  <2>5. \A g, b, d, t \in Nat : g + b + d = t /\ b + d < 2 * Capacity => t - g < 2 * Capacity
    BY <1>2
  <2>6. total - Len(got[Client]) < 2 * Capacity
    BY <1>2, <2>1, <2>3, <2>4, <2>5
  <2>7. QED BY <2>1, <2>6
<1>11. UNCHANGED <<got, cpc>> /\ Done' \in BOOLEAN
  BY DEF readers, Done
<1>12. AsChannel!Send
  BY <1>8, <1>9, <1>10, <1>11 DEF AsChannel!Send, Sent, Gone, Numbers
<1>13. QED BY <1>5, <1>6, <1>7, <1>12 DEF ClientInv

\* The channel sees only what is sent, what is received, whether the buffer is done and
\* whether the client is gone.
LEMMA Unseen ==
    ASSUME Sent' = Sent, got'[Client] = got[Client], stop' = stop, Gone(Client)' = Gone(Client)
    PROVE  UNCHANGED AsChannel!vars
<1>1. Done' = Done
  BY DEF Done
<1>2. Numbers(Sent)' = Numbers(Sent) /\ Numbers(got[Client])' = Numbers(got[Client])
  BY DEF Numbers
<1>3. QED BY <1>1, <1>2 DEF AsChannel!vars, Sent

\* A step of the load task sends a block or is not seen.
LEMMA LoadChannels ==
    ASSUME IndInv, IndInv', Ephemeral, ClientInv, Load
    PROVE  ClientInv' /\ [AsChannel!Next]_(AsChannel!vars)
<1>1. CASE (Store /\ ~Full) \/ Unblock
  <2>1. /\ prod \in {"store", "blocked"} /\ ~Full /\ Admit(held)
        /\ UNCHANGED <<base, held, emitted, readers>>
    BY <1>1 DEF Store, Unblock
  <2>2. QED BY <2>1, AdmitSends DEF AsChannel!Next
<1>2. CASE ~((Store /\ ~Full) \/ Unblock)
  <2>1. ~StartLoad
    BY DEF StartLoad, Ephemeral
  <2>2. Emit \/ EmitStop \/ Raise \/ Exhausted \/ (Store /\ Full)
    BY <1>2, <2>1 DEF Load
  <2>3. UNCHANGED <<deque, base, total, tokens, stop, readers>>
    BY <2>2 DEF Emit, EmitStop, Raise, Take, Exhausted, Store, store, cvars
  <2>4. Sent' = Sent
    BY <2>3 DEF Sent, Received, readers
  <2>5. Feed'
    BY <2>3, <2>4 DEF ClientInv, Feed, readers
  <2>6. prod \in {"source", "store"} /\ prod' \in {"store", "blocked", "finished"} /\ total \in Nat
    BY <2>2 DEF Emit, EmitStop, Raise, Take, Exhausted, Store, IndInv, TypeOK
  <2>7. Source'
    <3>1. CASE Emit \/ EmitStop \/ Raise
      <4>1. /\ prod = "source" /\ ~(Terminal(held)) /\ prod' = "store"
            /\ emitted' = emitted + 1 /\ held'.n = emitted + 1
        BY <3>1 DEF Emit, EmitStop, Raise, Take
      <4>2. emitted = total /\ ~Done
        BY <4>1 DEF ClientInv, Source
      <4>3. QED BY <4>1, <4>2, <2>3 DEF Source, Done
    <3>2. CASE Exhausted
      BY <3>2 DEF Exhausted, Source
    <3>3. CASE Store /\ Full
      <4>1. prod = "store" /\ prod' = "blocked" /\ UNCHANGED <<held, emitted>>
        BY <3>3 DEF Store
      <4>2. QED BY <4>1, <2>3 DEF ClientInv, Source, Done
    <3>4. QED BY <2>2, <3>1, <3>2, <3>3
  <2>8. Drain'
    BY <2>3, <2>6 DEF ClientInv, Drain, Done, Gone, readers
  <2>9. UNCHANGED AsChannel!vars
    BY <2>3, <2>4, Unseen DEF Gone, readers
  <2>10. QED BY <2>5, <2>7, <2>8, <2>9 DEF ClientInv
<1>3. QED BY <1>1, <1>2

\* The client connects: the load task starts and there is nothing to replay.
LEMMA AttachChannels ==
    ASSUME IndInv, IndInv', Ephemeral, ClientInv, Attach(Client)
    PROVE  ClientInv' /\ [AsChannel!Next]_(AsChannel!vars)
<1>1. cpc[Client] = "idle" /\ prod = "idle" /\ total = 0 /\ ~Done /\ Client \in Consumers
  BY OneClient DEF Attach, ClientInv, Drain, Source
<1>2. Length = 0
  BY <1>1 DEF Length, Ephemeral
<1>3. /\ cpc' = [cpc EXCEPT ![Client] = "wait"] /\ live' = [live EXCEPT ![Client] = TRUE]
      /\ prod' = "source"
      /\ UNCHANGED <<deque, base, batch, total, stop, held, emitted, cursor, last, got>>
  BY <1>2 DEF Attach, Ephemeral
<1>4. cpc'[Client] = "wait" /\ live'[Client]
  BY <1>1, <1>3 DEF IndInv, TypeOK
<1>5. Len(got[Client]) + Len(batch[Client]) + Len(deque) = 0
  BY <1>1, ReceivedIs DEF ClientInv
<1>6. base = 0 /\ batch[Client] = <<>>
  <2>1. batch[Client] \in Seq(Block) /\ base \in Nat /\ base + Len(deque) = 0
    BY <1>1, ClientTypes DEF IndInv, StoresAligned, TypeOK
  <2>2. Len(got[Client]) \in Nat /\ Len(batch[Client]) \in Nat /\ Len(deque) \in Nat
    BY ClientTypes
  <2>3. Len(batch[Client]) = 0 /\ base = 0
    <3>1. \A x, y, z, t \in Nat : x + y + z = 0 /\ t + z = 0 => y = 0 /\ t = 0
      OBVIOUS
    <3>2. QED BY <1>5, <2>1, <2>2, <3>1
  <2>4. QED BY <2>1, <2>3, EmptySeq
<1>7. cursor[Client] = 0
  BY <1>1 DEF ClientInv, Drain
<1>8. Sent' = Sent
  BY <1>3 DEF Sent, Received
<1>9. Feed' /\ Source' /\ Drain'
  <2>1. Feed'
    BY <1>3, <1>8 DEF ClientInv, Feed
  <2>2. Source'
    BY <1>1, <1>3 DEF ClientInv, Source, Done
  <2>3. Drain'
    BY <1>3, <1>4, <1>6, <1>7 DEF Drain, Gone
  <2>4. QED BY <2>1, <2>2, <2>3
<1>10. Gone(Client)' = Gone(Client)
  BY <1>1, <1>4 DEF Gone
<1>11. QED BY <1>3, <1>8, <1>9, <1>10, Unseen DEF ClientInv

\* The client receives the next item.
LEMMA DeliverChannels ==
    ASSUME IndInv, IndInv', Ephemeral, ClientInv, Deliver(Client)
    PROVE  ClientInv' /\ [AsChannel!Next]_(AsChannel!vars)
<1> DEFINE g == got[Client]
           b == batch[Client]
<1>1. /\ cpc[Client] = "deliver" /\ b # <<>>
      /\ UNCHANGED <<store, producer, cpc, live, cursor, upto, last, fillTo, snap>>
  BY DEF Deliver
<1>2. g \in Seq(Block) /\ b \in Seq(Block)
  BY ClientTypes
<1>3. got'[Client] = Append(g, Head(b)) /\ batch'[Client] = Tail(b)
  BY OneClient DEF Deliver, IndInv, TypeOK
<1>4. Sent' = Sent
  <2>1. Append(g, Head(b)) \o Tail(b) = g \o b
    BY <1>1, <1>2, HeadMoves
  <2>2. QED BY <1>1, <1>3, <2>1 DEF Sent, Received, store
<1>5. Feed'
  <2>1. Len(batch'[Client]) = Len(b) - 1 /\ Len(b) \in Nat
    BY <1>1, <1>2, <1>3, HeadTailProperties
  <2>2. Len(b) <= Capacity /\ Len(Sent') = total' /\ \A i \in 1..total' : Sent'[i].n = i
    BY <1>1, <1>4 DEF ClientInv, Feed, store
  <2>3. Len(batch'[Client]) <= Capacity
    BY <2>1, <2>2, CapacityAssumption
  <2>4. QED BY <2>2, <2>3 DEF Feed
<1>6. Source'
  BY <1>1 DEF ClientInv, Source, Done, store, producer
<1>7. Drain'
  BY <1>1 DEF ClientInv, Drain, Done, Gone, store, producer
<1>8. AsChannel!Receive
  <2>1. /\ total \in Nat /\ Numbers(Sent) = Upto(total)
        /\ Numbers(g) = Upto(Len(g)) /\ Len(g) + Len(b) + Len(deque) = total
    BY ReceivedIs DEF ClientInv, IndInv, TypeOK
  <2>2. Numbers(got'[Client]) = Upto(Len(g) + 1)
    <3>1. got'[Client] \in Seq(Block) /\ Len(got'[Client]) = Len(g) + 1
      BY <1>1, <1>2, <1>3, AppendProperties, HeadTailProperties
    <3>2. batch'[Client] \in Seq(Block) /\ deque' \in Seq(Block)
      BY OneClient DEF IndInv, TypeOK
    <3>3. Sent' = (got'[Client] \o batch'[Client]) \o deque'
      BY DEF Sent, Received
    <3>4. \A i \in 1..Len(Sent') : Sent'[i].n = i
      BY <1>5 DEF Feed
    <3>5. QED BY <3>1, <3>2, <3>3, <3>4, FrontIs
  <2>3. Len(g) \in Nat /\ Len(b) \in Nat /\ Len(deque) \in Nat /\ Len(b) # 0
    BY <1>1, <1>2, ClientTypes, EmptySeq
  <2>4. Len(g) < total
    <3>1. \A x, y, z \in Nat : y # 0 => x < x + y + z
      OBVIOUS
    <3>2. Len(g) < Len(g) + Len(b) + Len(deque)
      BY <2>3, <3>1
    <3>3. QED BY <2>1, <3>2
  <2>5. Len(Numbers(g)) = Len(g) /\ Len(Numbers(Sent)) = total
    BY <2>1, <2>3, UptoGrows
  <2>6. Numbers(got'[Client]) = Append(Numbers(g), Numbers(Sent)[Len(Numbers(g)) + 1])
    <3>1. Upto(total)[Len(g) + 1] = Len(g) + 1
      BY <2>1, <2>3, <2>4 DEF Upto
    <3>2. Append(Upto(Len(g)), Len(g) + 1) = Upto(Len(g) + 1)
      BY <2>3, UptoGrows
    <3>3. QED BY <2>1, <2>2, <2>5, <3>1, <3>2
  <2>7. ~Gone(Client) /\ Gone(Client)' = Gone(Client) /\ Done' = Done
    BY <1>1 DEF Gone, Done, store
  <2>8. Numbers(Sent') = Numbers(Sent)
    BY <1>4
  <2>9. QED BY <2>4, <2>5, <2>6, <2>7, <2>8 DEF AsChannel!Receive, Sent, Numbers, Gone, g
<1>9. QED BY <1>5, <1>6, <1>7, <1>8 DEF ClientInv, AsChannel!Next

\* The client is woken and takes all that is resident; the channel does not see it.
LEMMA WakeChannels ==
    ASSUME IndInv, IndInv', Ephemeral, ClientInv, Wake(Client)
    PROVE  ClientInv' /\ [AsChannel!Next]_(AsChannel!vars)
<1>1. /\ cpc[Client] = "wait" /\ Read(Client, cursor[Client], Length)
      /\ UNCHANGED <<log, total, tokens, stop, producer, live, cursor, got, snap>>
      /\ upto' = [upto EXCEPT ![Client] = Length] /\ last' = [last EXCEPT ![Client] = Done]
  BY DEF Wake
<1>2. /\ Client \in Consumers /\ batch \in [Consumers -> Seq(Block)]
      /\ cpc \in [Consumers -> ConsumerStates]
      /\ upto'[Client] = Length /\ last'[Client] = Done
  BY <1>1, OneClient DEF IndInv, TypeOK
<1>3. /\ Length = total /\ total \in Nat /\ base \in Nat /\ base + Len(deque) = total
      /\ cursor[Client] = base /\ batch[Client] = <<>> /\ live[Client]
      /\ deque \in Seq(Block) /\ Len(deque) \in Nat
  BY <1>1, ClientTypes DEF Length, Ephemeral, IndInv, TypeOK, StoresAligned, ClientInv, Drain
<1>4. Lesser(Length, Length) = Length
  BY DEF Lesser
<1>5. batch'[Client] = deque /\ deque' = <<>> /\ base' = total /\ cpc'[Client] = "deliver"
  <2>1. CASE base >= total
    <3>1. /\ batch' = [batch EXCEPT ![Client] = <<>>] /\ cpc' = [cpc EXCEPT ![Client] = "deliver"]
          /\ deque' = deque /\ base' = base
      BY <1>1, <1>3, <1>4, <2>1 DEF Read
    <3>2. Len(deque) = 0 /\ base = total
      BY <1>3, <2>1
    <3>3. deque = <<>>
      BY <1>3, <3>2, EmptySeq
    <3>4. QED BY <1>2, <3>1, <3>2, <3>3
  <2>2. CASE ~(base >= total)
    <3>1. Pop(base, total) = [blocks |-> deque, drop |-> Len(deque)]
      <4>1. NonNegative(base - base) = 0 /\ NonNegative(total - base) = Len(deque)
        BY <1>3 DEF NonNegative
      <4>2. Lesser(Len(deque), Len(deque)) = Len(deque) /\ Len(deque) > 0
        BY <1>3, <2>2 DEF Lesser
      <4>3. Pop(base, total) = [blocks |-> SubSeq(deque, 0 + 1, Len(deque)), drop |-> Len(deque)]
        <5>1. ~(base >= total \/ 0 >= Len(deque) \/ Len(deque) <= 0)
          BY <1>3, <2>2, <4>2
        <5>2. QED BY <4>1, <4>2, <5>1 DEF Pop
      <4>4. SubSeq(deque, 1, Len(deque)) = deque
        BY <1>3, SubSeqFull
      <4>5. QED BY <4>3, <4>4
    <3>2. /\ batch' = [batch EXCEPT ![Client] = deque] /\ cpc' = [cpc EXCEPT ![Client] = "deliver"]
          /\ deque' = SubSeq(deque, Len(deque) + 1, Len(deque)) /\ base' = base + Len(deque)
      BY <1>1, <1>3, <1>4, <2>2, <3>1 DEF Read, Ephemeral
    <3>3. SubSeq(deque, Len(deque) + 1, Len(deque)) = <<>>
      BY <1>3, SubSeqEmpty
    <3>4. QED BY <1>2, <1>3, <3>2, <3>3
  <2>3. QED BY <2>1, <2>2
<1>6. Sent' = Sent
  <2>1. got[Client] \in Seq(Block) /\ got'[Client] = got[Client]
    BY <1>1, ClientTypes
  <2>2. Sent = got[Client] \o deque
    BY <1>3, <2>1, ConcatEmptySeq DEF Sent, Received
  <2>3. Sent' = (got[Client] \o deque) \o <<>>
    BY <1>5, <2>1 DEF Sent, Received
  <2>4. got[Client] \o deque \in Seq(Block)
    BY <1>3, <2>1, ConcatProperties
  <2>5. QED BY <2>2, <2>3, <2>4, ConcatEmptySeq
<1>7. Feed'
  <2>1. Len(deque) <= Capacity
    BY DEF IndInv, CapacityRespected, Ephemeral
  <2>2. QED BY <1>1, <1>5, <1>6, <2>1 DEF ClientInv, Feed
<1>8. Source'
  BY <1>1 DEF ClientInv, Source, Done, producer
<1>9. Drain'
  BY <1>1, <1>2, <1>3, <1>5 DEF ClientInv, Drain, Done, Gone, producer
<1>10. Gone(Client)' = Gone(Client)
  BY <1>1, <1>5 DEF Gone
<1>11. QED BY <1>1, <1>6, <1>7, <1>8, <1>9, <1>10, Unseen DEF ClientInv

\* A range is exhausted: the stream ends with all of it received, or the client waits.
LEMMA EndChannels ==
    ASSUME IndInv, IndInv', Ephemeral, ClientInv, EndTail(Client)
    PROVE  ClientInv' /\ [AsChannel!Next]_(AsChannel!vars)
<1>1. /\ cpc[Client] = "deliver" /\ batch[Client] = <<>>
      /\ cursor' = [cursor EXCEPT ![Client] = upto[Client]]
      /\ cpc' = [cpc EXCEPT ![Client] = IF last[Client] THEN "ended" ELSE "wait"]
      /\ IF last[Client] THEN CancelAlongside ELSE UNCHANGED prod
      /\ UNCHANGED <<store, held, emitted, live, upto, last, fillTo, batch, got, snap>>
  BY DEF EndTail, Finish
<1>2. /\ cpc'[Client] = (IF last[Client] THEN "ended" ELSE "wait")
      /\ cursor'[Client] = upto[Client] /\ prod \in ProducerStates
  BY <1>1, OneClient DEF IndInv, TypeOK
<1>3. /\ prod' = prod \/ prod' = "cancelled"
      /\ last[Client] => prod' \in {"finished", "cancelled"}
  BY <1>1 DEF CancelAlongside, Ephemeral
<1>4. Sent' = Sent
  BY <1>1 DEF Sent, Received, store
<1>5. Feed'
  BY <1>1, <1>4 DEF ClientInv, Feed, store
<1>6. Source'
  BY <1>1, <1>3 DEF ClientInv, Source, Done, store
<1>7. Drain'
  <2>1. prod # "idle" /\ prod' # "idle" /\ live[Client] /\ upto[Client] = base
    BY <1>1, <1>3 DEF ClientInv, Drain
  <2>2. QED BY <1>1, <1>2, <1>3, <2>1 DEF Drain, Gone, store
<1>8. CASE last[Client]
  <2>1. Done /\ deque = <<>>
    BY <1>1, <1>8 DEF ClientInv, Drain
  <2>2. Sent = got[Client]
    BY <1>1, <2>1, ClientTypes, ConcatEmptySeq DEF Sent, Received
  <2>3. ~Gone(Client) /\ Gone(Client)'
    BY <1>1, <1>2, <1>8 DEF Gone
  <2>4. AsChannel!End
    BY <1>1, <1>4, <2>1, <2>2, <2>3 DEF AsChannel!End, Sent, Done, Gone, Numbers, store
  <2>5. QED BY <1>5, <1>6, <1>7, <2>4 DEF ClientInv, AsChannel!Next
<1>9. CASE ~last[Client]
  <2>1. Gone(Client)' = Gone(Client)
    BY <1>1, <1>2, <1>9 DEF Gone
  <2>2. UNCHANGED AsChannel!vars
    BY <1>1, <1>4, <2>1, Unseen DEF store
  <2>3. QED BY <1>5, <1>6, <1>7, <2>2 DEF ClientInv
<1>10. QED BY <1>8, <1>9

\* The client leaves and the load task is cancelled.
LEMMA DisconnectChannels ==
    ASSUME IndInv, IndInv', Ephemeral, ClientInv, Disconnect(Client)
    PROVE  ClientInv' /\ [AsChannel!Next]_(AsChannel!vars)
<1>1. /\ cpc[Client] \in {"fill", "deliver", "wait"} /\ cpc'[Client] = "closed"
      /\ prod' \in {"finished", "cancelled"}
      /\ UNCHANGED <<store, held, emitted, live, cursor, upto, last, fillTo, batch, got, snap>>
  BY OneClient DEF Disconnect, CancelAlongside, Ephemeral, IndInv, TypeOK
<1>2. Sent' = Sent
  BY <1>1 DEF Sent, Received, store
<1>3. Feed'
  BY <1>1, <1>2 DEF ClientInv, Feed, store
<1>4. Source'
  BY <1>1 DEF Source
<1>5. Drain'
  BY <1>1 DEF ClientInv, Drain, Gone
<1>6. ~Gone(Client) /\ Gone(Client)'
  BY <1>1 DEF Gone
<1>7. AsChannel!Abandon
  BY <1>1, <1>2, <1>6 DEF AsChannel!Abandon, Sent, Done, Gone, Numbers, store
<1>8. QED BY <1>3, <1>4, <1>5, <1>7 DEF ClientInv, AsChannel!Next

\* Every step.
LEMMA NextChannels ==
    ASSUME IndInv, IndInv', Ephemeral, ClientInv, [Next]_vars
    PROVE  ClientInv' /\ [AsChannel!Next]_(AsChannel!vars)
<1>1. CASE Load
  BY <1>1, LoadChannels
<1>2. CASE (\E c \in Consumers : Attach(c) \/ Iterate(c) \/ Disconnect(c)) /\ ~(Sleep(Client))
  <2>1. Attach(Client) \/ Iterate(Client) \/ Disconnect(Client)
    BY <1>2, OneClient
  <2>2. ~Fill(Client) /\ ~EndReplay(Client)
    BY DEF Fill, EndReplay, ClientInv, Drain
  <2>3. QED BY <1>2, <2>1, <2>2, AttachChannels, DeliverChannels, WakeChannels, EndChannels,
               DisconnectChannels DEF Iterate
<1>3. CASE UNCHANGED vars \/ Sleep(Client)
  <2>1. UNCHANGED <<store, producer, readers>>
    BY <1>3 DEF vars, cvars, Sleep
  <2>2. Sent' = Sent
    BY <2>1 DEF Sent, Received, store, readers
  <2>3. Feed' /\ Source' /\ Drain'
    BY <2>1, <2>2 DEF ClientInv, Feed, Source, Drain, Done, Gone, store, producer, readers
  <2>4. UNCHANGED AsChannel!vars
    BY <2>1, <2>2, Unseen DEF Gone, store, readers
  <2>5. QED BY <2>3, <2>4 DEF ClientInv
<1>4. QED BY <1>1, <1>2, <1>3 DEF Next

\* A fresh buffer is an empty channel.
LEMMA ChannelBegins ==
    ASSUME Init, Ephemeral
    PROVE  ClientInv /\ AsChannel!Init
<1>1. Client \in Consumers /\ Capacity \in Nat
  BY OneClient, CapacityAssumption
<1>2. /\ got[Client] = <<>> /\ batch[Client] = <<>> /\ deque = <<>> /\ total = 0 /\ ~Done
      /\ cpc[Client] = "idle" /\ prod = "idle" /\ cursor[Client] = 0 /\ emitted = 0 /\ held = NoBlock
  BY <1>1 DEF Init, Done
<1>3. Sent = <<>>
  BY <1>2, ConcatEmptySeq, EmptySeq DEF Sent, Received
<1>4. Feed
  BY <1>1, <1>2, <1>3 DEF Feed
<1>5. Source /\ Drain
  BY <1>2 DEF Source, Drain, Gone, NoBlock, Terminal
<1>6. Numbers(<<>>) = <<>>
  BY DEF Numbers
<1>7. AsChannel!Init
  BY <1>2, <1>3, <1>6 DEF AsChannel!Init, Sent, Gone
<1>8. QED BY <1>4, <1>5, <1>7 DEF ClientInv

\* A buffer without durable tier is a bounded FIFO channel to its client, for any capacity
\* and any length of stream: blocks arrive in order, none is lost or repeated, at most two
\* capacities are in flight, and the stream ends when all of it was received, unless the
\* client leaves (StreamBuffer.append, StreamBuffer._iterate). This is the safety part of
\* ImplementsChannel: that the client is served is left to model checking.
THEOREM ChannelSafely ==
    Ephemeral /\ Spec => AsChannel!Init /\ [][AsChannel!Next]_(AsChannel!vars)
<1>1. Ephemeral /\ [Next]_vars => Ephemeral'
  BY DEF Ephemeral
<1>2. Ephemeral /\ Init => ClientInv /\ AsChannel!Init
  BY ChannelBegins
<1>3. Ephemeral /\ IndInv /\ IndInv' /\ ClientInv /\ [Next]_vars
        => ClientInv' /\ [AsChannel!Next]_(AsChannel!vars)
  BY NextChannels
<1>4. QED BY <1>1, <1>2, <1>3, Inductive, PTL DEF Spec

=============================================================================
