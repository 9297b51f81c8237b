--------------------------- MODULE RequestsProofs ---------------------------
(***************************************************************************)
(* Proofs about Requests, for any set of stacks of any depth, any order of *)
(* the layers between ServerErrorMiddleware and ExceptionMiddleware, any   *)
(* number of chunks and of WebSocket messages: the server is given one     *)
(* answer, and both kinds of connection are brought to their end.          *)
(***************************************************************************)
EXTENDS Requests, SequenceTheorems, TLAPS

-----------------------------------------------------------------------------
(* The inductive invariant *)

Forms == {"plain", "events", "encoded"}
Messages == [kind : {"start", "body"}, form : Forms, coding : {"identity", "app", "codec"},
             small : BOOLEAN, more : BOOLEAN]
Responses == [stream : BOOLEAN, left : Nat, form : Forms, small : BOOLEAN, background : BOOLEAN,
              sent : {"nothing", "start", "all"}]
Phases == {"entering", "sending", "answered", "raising", "returned", "raised", "receive",
           "on_receive", "on_disconnect"}

\* Types, of what the proofs rely on.
Typed ==
    /\ config \in [type : {"http", "websocket"}, accepts : BOOLEAN, stack : Stacks]
    /\ phase \in Phases
    /\ at \in Nat
    /\ layers \in [Layers -> [started : BOOLEAN, held : Messages \cup {NoStart}]]
    /\ origin \in 1..Inner
    /\ response \in Responses
    /\ flight \in Seq([message : Messages, at : 0..(origin - 1)])
    /\ gone \in BOOLEAN
    /\ wire \in [starts : Nat, coding : {"identity", "app", "codec"},
                 codings : SUBSET {"identity", "app", "codec"},
                 complete : BOOLEAN, late : BOOLEAN, closes : Nat]
    /\ conn \in [client : {"connecting", "connected", "disconnected"},
                 application : {"connecting", "connected", "disconnected"},
                 messages : Nat, hooks : Nat, connected : BOOLEAN]
    /\ past \in [background : {"none", "complete", "incomplete"}, swallowed : BOOLEAN]

\* The layers that remember that a start went through them.
Tracks(i) == Kind(i) \in {"server", "exception", "hook"} \/ (Kind(i) = "compression" /\ config.accepts)

\* Nothing of an answer has come as far as layer p.
Untouched == [started |-> FALSE, held |-> NoStart]
Clear(p) == wire.starts = 0 /\ ~wire.complete /\ \A j \in 1..p : layers[j] = Untouched

\* The start has gone out, or a compression up to layer p holds it.
Holds(c) ==
    Kind(c) = "compression" /\ config.accepts /\ ~layers[c].started /\ layers[c].held.kind = "start"
Placed(p) == wire.starts = 1 \/ \E c \in 1..p : Holds(c)

\* A layer that has not seen a start still has a clear way out: it may answer.
Guarded ==
    \A i \in 1..(origin - 1) : Tracks(i) /\ ~layers[i].started =>
        Clear(i - 1) /\ \A n \in DOMAIN flight : flight[n].at >= i

\* At most one message is under way, or a start that a compression has just let go and the
\* body behind it.
Pair ==
    /\ Len(flight) <= 2
    /\ Len(flight) = 2 => /\ flight[1].message.kind = "start" /\ flight[2].message.kind = "body"
                          /\ flight[1].at <= flight[2].at

\* What a response has sent is under way or has arrived, in order.
Between ==
    flight = <<>> =>
        /\ response.sent = "nothing" => Clear(origin - 1)
        /\ response.sent # "nothing" => Placed(origin - 1)
        /\ response.sent = "all" => wire.complete
UnderWay ==
    flight # <<>> =>
        /\ response.sent # "nothing" /\ ~wire.complete
        /\ flight[1].message.kind = "start" => Clear(flight[1].at)
        /\ flight[1].message.kind = "body" => Placed(flight[1].at)
        /\ flight[Len(flight)].message.kind = "start" => response.sent = "start"
        /\ flight[Len(flight)].message.kind = "body" =>
             (flight[Len(flight)].message.more <=> response.sent = "start")
Sending == Pair /\ Between /\ UnderWay /\ (wire.complete => response.sent = "all")

Positions ==
    /\ phase = "sending" => Sending
    /\ phase # "sending" => flight = <<>>
    /\ phase = "entering" => origin = Inner /\ at \in 1..Inner /\ Clear(Inner - 1)
    /\ phase = "raising" => at < origin
    /\ phase \in {"receive", "on_receive", "on_disconnect"} => origin = Inner

OneAnswer == Typed /\ Guarded /\ Positions /\ SingleAnswer

\* How far the two kinds of connection are.
Settling ==
    /\ phase = "answered" \/ (phase = "returned" /\ IsHTTP) => wire.complete \/ gone \/ past.swallowed
    /\ phase \in {"sending", "answered"} => IsHTTP
    /\ phase = "entering" => conn.hooks = 0 /\ ~conn.connected
    /\ phase \in {"receive", "on_receive", "on_disconnect"} =>
         ~IsHTTP /\ conn.hooks = 0 /\ conn.connected
    /\ phase \in {"raising", "returned", "raised"} /\ ~IsHTTP =>
         conn.hooks = (IF conn.connected THEN 1 ELSE 0)

-----------------------------------------------------------------------------
(* Stacks, layers and what is under way *)

\* The shape of a stack: the error middleware outside, the handler inside.
LEMMA Stack ==
    ASSUME config \in [type : {"http", "websocket"}, accepts : BOOLEAN, stack : Stacks]
    PROVE  /\ Len(config.stack) \in Nat /\ Len(config.stack) > 1
           /\ Layers = 1..Len(config.stack) /\ Inner \in Nat /\ Inner > 2 /\ Layers = 1..(Inner - 1)
           /\ Kind(1) = "server"
           /\ \A i \in Layers : Kind(i) \in {"server", "exception", "hook", "compression", "cors", "telemetry"}
<1> DEFINE s == config.stack
<1>1. s \in Stacks
  OBVIOUS
<1>2. /\ s \in Seq({"server", "exception", "hook", "compression", "cors", "telemetry"})
      /\ Len(s) > 1 /\ s[1] = "server"
  BY <1>1, StacksAssumption
<1> HIDE DEF s
<1>3. Len(s) \in Nat /\ DOMAIN s = 1..Len(s)
  BY <1>2
<1>4. \A i \in 1..Len(s) : s[i] \in {"server", "exception", "hook", "compression", "cors", "telemetry"}
  BY <1>2
<1> QED BY <1>2, <1>3, <1>4 DEF Layers, Inner, Kind, s

\* A sequence of at most two, and the two ways its head goes on.
LEMMA Two ==
    ASSUME NEW T, NEW s \in Seq(T), s # <<>>, Len(s) <= 2, NEW x \in T, NEW y \in T
    PROVE  /\ Len(s) \in {1, 2} /\ Head(s) = s[1] /\ s[1] \in T
           /\ Tail(s) \in Seq(T) /\ Len(Tail(s)) = Len(s) - 1
           /\ Len(s) = 1 => Tail(s) = <<>>
           /\ Len(s) = 2 => Tail(s) # <<>> /\ Tail(s)[1] = s[2] /\ s[2] \in T
           /\ (<<x>> \o Tail(s)) \in Seq(T) /\ Len(<<x>> \o Tail(s)) = Len(s)
           /\ (<<x>> \o Tail(s))[1] = x
           /\ Len(s) = 2 => (<<x>> \o Tail(s))[2] = s[2]
           /\ Len(s) = 1 => <<x, y>> \o Tail(s) = <<x, y>>
<1>1. Len(s) \in Nat /\ Len(s) # 0 /\ Len(s) <= 2
  OBVIOUS
<1>2. Len(s) = 1 \/ Len(s) = 2
  <2>1. \A k \in Nat : k # 0 /\ k <= 2 => k = 1 \/ k = 2
    OBVIOUS
  <2> QED BY <1>1, <2>1
<1>3. CASE Len(s) = 1
  <2>1. s[1] \in T /\ s = <<s[1]>>
    BY <1>3
  <2>2. Head(s) = s[1] /\ Tail(s) = <<>>
    <3> DEFINE a == s[1]
    <3> HIDE DEF a
    <3>1. Tail(<<a>>) = <<>> /\ Head(<<a>>) = a
      OBVIOUS
    <3> QED BY <2>1, <3>1 DEF a
  <2>3. <<x>> \o Tail(s) = <<x>> /\ <<x, y>> \o Tail(s) = <<x, y>>
    <3>1. <<x>> \o <<>> = <<x>> /\ <<x, y>> \o <<>> = <<x, y>>
      OBVIOUS
    <3> QED BY <2>2, <3>1
  <2> QED BY <1>3, <2>1, <2>2, <2>3
<1>4. CASE Len(s) = 2
  <2>1. s[1] \in T /\ s[2] \in T /\ s = <<s[1], s[2]>>
    BY <1>4
  <2>2. Head(s) = s[1] /\ Tail(s) = <<s[2]>>
    <3> DEFINE a == s[1]
               b == s[2]
    <3> HIDE DEF a, b
    <3>1. Tail(<<a, b>>) = <<b>> /\ Head(<<a, b>>) = a
      OBVIOUS
    <3> QED BY <2>1, <3>1 DEF a, b
  <2>3. /\ (<<x>> \o Tail(s)) \in Seq(T) /\ Len(<<x>> \o Tail(s)) = 2
        /\ (<<x>> \o Tail(s))[1] = x /\ (<<x>> \o Tail(s))[2] = s[2]
    <3> DEFINE t == Tail(s)
    <3>1. t \in Seq(T) /\ Len(t) = 1 /\ t[1] = s[2]
      BY <2>1, <2>2
    <3> HIDE DEF t
    <3>2. <<x>> \in Seq(T) /\ Len(<<x>>) = 1
      OBVIOUS
    <3>3. (<<x>> \o t) \in Seq(T) /\ Len(<<x>> \o t) = 2
      BY <3>1, <3>2, ConcatProperties
    <3>4. (<<x>> \o t)[1] = x /\ (<<x>> \o t)[2] = t[1]
      BY <3>1, <3>2
    <3> QED BY <3>1, <3>3, <3>4 DEF t
  <2> QED BY <1>4, <2>1, <2>2, <2>3
<1> QED BY <1>2, <1>3, <1>4

-----------------------------------------------------------------------------
(* Steps that send nothing *)

\* Those that leave the answer, and what every layer remembers of it, as they are.
Quiet ==
    /\ UNCHANGED <<config, layers, origin, response, flight>>
    /\ wire'.starts = wire.starts /\ wire'.complete = wire.complete /\ wire'.late = wire.late
    /\ past'.background # "incomplete"
    /\ phase' = "sending" => phase = "sending"
    /\ phase' # "sending" => flight = <<>>
    /\ phase' = "entering" => phase = "entering" /\ at' \in 1..Inner
    /\ phase' = "raising" => at' < origin
    /\ phase' \in {"receive", "on_receive", "on_disconnect"} => origin = Inner

\* A step that sends nothing and marks no layer leaves the answer as it is.
LEMMA QuietKeeps ==
    ASSUME OneAnswer, Quiet
    PROVE  Guarded' /\ Positions' /\ SingleAnswer'
<1>1. Inner' = Inner /\ \A i : Kind(i)' = Kind(i) /\ Holds(i)' = Holds(i)
  BY DEF Quiet, Inner, Kind, Holds
<1>2. \A p : Clear(p)' = Clear(p)
  BY DEF Quiet, Clear
<1>3. \A p : Placed(p)' = Placed(p)
  BY <1>1 DEF Quiet, Placed
<1>4. Guarded'
  BY <1>1, <1>2 DEF OneAnswer, Guarded, Quiet, Tracks
<1>5. Sending => Sending'
  BY <1>2, <1>3 DEF Sending, Pair, Between, UnderWay, Quiet
<1>6. Positions'
  BY <1>1, <1>2, <1>5 DEF OneAnswer, Positions, Quiet
<1>7. SingleAnswer'
  BY DEF OneAnswer, SingleAnswer, Quiet
<1> QED BY <1>4, <1>6, <1>7

\* A layer that answers has a clear way out, and its answer has not been sent.
LEMMA RespondKeeps ==
    ASSUME OneAnswer, NEW layer \in 1..origin, NEW r, Respond(layer, r), r.sent = "nothing",
           flight = <<>>, Clear(layer - 1), UNCHANGED <<config, layers, flight, wire, past>>
    PROVE  Guarded' /\ Positions' /\ SingleAnswer'
<1>1. Inner' = Inner /\ \A i : Kind(i)' = Kind(i)
  BY DEF Inner, Kind
<1>2. \A p : Clear(p)' = Clear(p)
  BY DEF Clear
<1>3. origin \in Nat /\ layer \in Nat /\ origin' = layer /\ response' = r /\ phase' = "sending"
  BY Stack DEF OneAnswer, Typed, Respond
<1>4. Guarded'
  <2> SUFFICES ASSUME NEW i \in 1..(layer - 1), Tracks(i)', ~layers[i].started
               PROVE  Clear(i - 1) /\ \A n \in DOMAIN flight : flight[n].at >= i
    BY <1>2, <1>3 DEF Guarded
  <2>1. i \in 1..(origin - 1) /\ Tracks(i)
    BY <1>1, <1>3 DEF Tracks
  <2> QED BY <2>1 DEF OneAnswer, Guarded
<1>5. Sending'
  <2>1. ~wire.complete
    BY DEF Clear
  <2>2. Pair'
    BY DEF Pair
  <2>3. Between' /\ UnderWay'
    BY <1>2, <1>3 DEF Between, UnderWay
  <2> QED BY <2>1, <2>2, <2>3 DEF Sending
<1>6. Positions'
  BY <1>3, <1>5 DEF Positions
<1>7. SingleAnswer'
  BY DEF OneAnswer, SingleAnswer
<1> QED BY <1>4, <1>6, <1>7

-----------------------------------------------------------------------------
(* Steps that move a message *)

\* The message that moves, and what may be behind it.
LEMMA UnderWayIs ==
    ASSUME OneAnswer, flight # <<>>
    PROVE  /\ phase = "sending" /\ Len(flight) \in {1, 2} /\ Len(flight) <= 2 /\ Head(flight) = flight[1]
           /\ flight[1].message \in Messages /\ flight[1].at \in 0..(origin - 1)
           /\ Len(flight) = 1 => Tail(flight) = <<>>
           /\ Len(flight) = 2 => /\ Tail(flight) # <<>> /\ Tail(flight)[1] = flight[2]
                                 /\ flight[1].message.kind = "start" /\ flight[2].message.kind = "body"
                                 /\ flight[1].at <= flight[2].at
                                 /\ flight[2].message \in Messages /\ flight[2].at \in 0..(origin - 1)
           /\ Len(Tail(flight)) = Len(flight) - 1
           /\ Tail(flight) \in Seq([message : Messages, at : 0..(origin - 1)])
<1> DEFINE T == [message : Messages, at : 0..(origin - 1)]
<1>1. phase = "sending" /\ Pair /\ flight \in Seq(T)
  BY DEF OneAnswer, Positions, Sending, Typed
<1>2. Len(flight) <= 2
  BY <1>1 DEF Pair
<1> HIDE DEF T
<1>3. flight[1] \in T
  BY <1>1
<1>4. /\ Len(flight) \in {1, 2} /\ Head(flight) = flight[1]
      /\ Tail(flight) \in Seq(T) /\ Len(Tail(flight)) = Len(flight) - 1
      /\ Len(flight) = 1 => Tail(flight) = <<>>
      /\ Len(flight) = 2 => Tail(flight) # <<>> /\ Tail(flight)[1] = flight[2] /\ flight[2] \in T
  BY <1>1, <1>2, <1>3, Two
<1> QED BY <1>1, <1>2, <1>3, <1>4 DEF Pair, T

\* The head goes outwards by a layer, alone or with the start that was held before it.
LEMMA Goes ==
    ASSUME OneAnswer, flight # <<>>, flight[1].at \in Layers,
           NEW x \in [message : Messages, at : 0..(origin - 1)],
           NEW y \in [message : Messages, at : 0..(origin - 1)]
    PROVE  /\ Len(<<x>> \o Tail(flight)) = Len(flight) /\ <<x>> \o Tail(flight) # <<>>
           /\ (<<x>> \o Tail(flight))[1] = x
           /\ Len(flight) = 2 => (<<x>> \o Tail(flight))[2] = flight[2]
           /\ (<<x>> \o Tail(flight)) \in Seq([message : Messages, at : 0..(origin - 1)])
           /\ Len(flight) = 1 => <<x, y>> \o Tail(flight) = <<x, y>>
<1> DEFINE T == [message : Messages, at : 0..(origin - 1)]
<1>1. flight \in Seq(T)
  BY DEF OneAnswer, Typed
<1>3. Len(flight) \in {1, 2} /\ Len(flight) <= 2
  BY UnderWayIs
<1> HIDE DEF T
<1>2. /\ (<<x>> \o Tail(flight)) \in Seq(T) /\ Len(<<x>> \o Tail(flight)) = Len(flight)
      /\ (<<x>> \o Tail(flight))[1] = x
      /\ Len(flight) = 2 => (<<x>> \o Tail(flight))[2] = flight[2]
      /\ Len(flight) = 1 => <<x, y>> \o Tail(flight) = <<x, y>>
  BY <1>1, <1>3, Two DEF T
<1> QED BY <1>2, <1>3 DEF T

\* A body comes to a layer that follows starts after its start did.
LEMMA BodyFollows ==
    ASSUME OneAnswer, flight # <<>>, NEW i \in Layers, flight[1].at = i, flight[1].message.kind = "body",
           Tracks(i), ~layers[i].started
    PROVE  Holds(i) /\ Len(flight) = 1
<1>1. i \in 1..(origin - 1) /\ i \in Nat /\ Len(flight) = 1
  BY UnderWayIs, Stack DEF OneAnswer, Typed
<1>2. Clear(i - 1)
  BY <1>1 DEF OneAnswer, Guarded
<1>3. Placed(i)
  BY UnderWayIs DEF OneAnswer, Positions, Sending, UnderWay
<1>4. PICK c \in 1..i : Holds(c)
  BY <1>2, <1>3 DEF Placed, Clear
<1>5. c \notin 1..(i - 1)
  BY <1>2, <1>4 DEF Clear, Holds, Untouched, NoStart
<1> QED BY <1>1, <1>4, <1>5

\* What moves at a layer leaves the layers that have not seen a start as they were.
LEMMA Onward ==
    ASSUME OneAnswer, flight # <<>>, NEW i \in Layers, flight[1].at = i,
           UNCHANGED <<config, origin>>, wire'.starts = wire.starts, wire'.complete = wire.complete,
           \A j \in Layers \ {i} : layers'[j] = layers[j],
           Tracks(i) /\ ~(layers'[i].started) =>
               Clear(i - 1) /\ \A n \in DOMAIN flight' : flight'[n].at >= i,
           \A n \in DOMAIN flight' : flight'[n].at \in Nat /\ flight'[n].at >= i - 1
    PROVE  /\ Guarded' /\ \A p \in 0..(i - 1) : Clear(p) => Clear(p)'
           /\ \A c \in Layers \ {i} : Holds(c)' = Holds(c)
           /\ i \in 1..(origin - 1)
<1>1. i \in 1..(origin - 1) /\ i \in Nat /\ Layers = 1..(Inner - 1) /\ Inner \in Nat
      /\ origin \in Nat /\ origin <= Inner
  BY UnderWayIs, Stack DEF OneAnswer, Typed
<1>2. \A c : Kind(c)' = Kind(c) /\ Tracks(c)' = Tracks(c)
  BY DEF Kind, Tracks
<1>3. \A p \in 0..(i - 1) : Clear(p) => Clear(p)'
  BY <1>1 DEF Clear
<1>4. \A c \in Layers \ {i} : Holds(c)' = Holds(c)
  BY <1>2 DEF Holds
<1>5. Guarded'
  <2> SUFFICES ASSUME NEW j \in 1..(origin - 1), Tracks(j), ~(layers'[j].started)
               PROVE  Clear(j - 1)' /\ \A n \in DOMAIN flight' : flight'[n].at >= j
    BY <1>2 DEF Guarded
  <2>1. j \in Layers /\ j \in Nat
    BY <1>1
  <2>2. CASE j = i
    BY <1>1, <1>3, <2>1, <2>2
  <2>3. CASE j # i
    <3>1. ~layers[j].started
      BY <2>1, <2>3
    <3>2. Clear(j - 1) /\ flight[1].at >= j
      <4>1. 1 \in DOMAIN flight
        BY UnderWayIs DEF OneAnswer, Typed
      <4> QED BY <3>1, <4>1 DEF OneAnswer, Guarded
    <3>3. j < i /\ j - 1 \in 0..(i - 1)
      BY <1>1, <2>1, <2>3, <3>2
    <3>4. Clear(j - 1)'
      BY <1>3, <3>2, <3>3
    <3>5. ASSUME NEW n \in DOMAIN flight' PROVE flight'[n].at >= j
      <4>1. flight'[n].at \in Nat /\ flight'[n].at >= i - 1
        OBVIOUS
      <4> QED BY <1>1, <2>1, <3>3, <4>1
    <3> QED BY <3>4, <3>5
  <2> QED BY <2>2, <2>3
<1> QED BY <1>1, <1>3, <1>4, <1>5

\* A message goes through a layer.
LEMMA ForwardKeeps ==
    ASSUME OneAnswer, flight # <<>>, NEW i \in Layers, flight[1].at = i, NEW m \in Messages,
           m.kind = flight[1].message.kind, m.more = flight[1].message.more,
           flight' = <<[message |-> m, at |-> i - 1]>> \o Tail(flight),
           UNCHANGED <<config, phase, at, origin, response, wire, past>>,
           \A j \in Layers \ {i} : layers'[j] = layers[j],
           Tracks(i) => layers'[i].started,
           m.kind = "body" => ~Holds(i)
    PROVE  Guarded' /\ Positions' /\ SingleAnswer'
<1> DEFINE x == [message |-> m, at |-> i - 1]
<1>1. i \in 1..(origin - 1) /\ i \in Nat /\ origin \in Nat /\ Layers = 1..(Inner - 1) /\ Inner \in Nat
      /\ origin <= Inner
  <2>1. Layers = 1..(Inner - 1) /\ Inner \in Nat /\ origin \in 1..Inner
    BY Stack DEF OneAnswer, Typed
  <2>2. i \in 0..(origin - 1)
    BY UnderWayIs
  <2> QED BY <2>1, <2>2
<1>2. x \in [message : Messages, at : 0..(origin - 1)]
  BY <1>1
<1>3. /\ Len(flight') = Len(flight) /\ flight' # <<>> /\ flight'[1] = x
      /\ Len(flight) = 2 => flight'[2] = flight[2]
      /\ flight' \in Seq([message : Messages, at : 0..(origin - 1)])
  BY <1>2, Goes
<1>4. /\ Len(flight) \in {1, 2}
      /\ Len(flight) = 2 => /\ flight[1].message.kind = "start" /\ flight[2].message.kind = "body"
                            /\ flight[1].at <= flight[2].at /\ flight[2].at \in Nat
  BY UnderWayIs, <1>1
<1>5. ASSUME NEW n \in DOMAIN flight' PROVE flight'[n].at \in Nat /\ flight'[n].at >= i - 1
  <2>1. n = 1 \/ (n = 2 /\ Len(flight) = 2)
    BY <1>3, <1>4
  <2>2. flight'[1].at = i - 1 /\ i - 1 \in Nat
    BY <1>1, <1>3
  <2>3. Len(flight) = 2 => flight'[2].at \in Nat /\ flight'[2].at >= i
    BY <1>3, <1>4
  <2>4. CASE n = 1
    BY <1>1, <2>2, <2>4
  <2>5. CASE n = 2 /\ Len(flight) = 2
    BY <1>1, <2>3, <2>5
  <2> QED BY <2>1, <2>4, <2>5
<1>6. /\ Guarded' /\ \A p \in 0..(i - 1) : Clear(p) => Clear(p)'
      /\ \A c \in Layers \ {i} : Holds(c)' = Holds(c)
  BY <1>5, Onward
<1>7. Sending /\ phase = "sending"
  BY UnderWayIs DEF OneAnswer, Positions
<1>8. Pair'
  <2>1. flight'[1].at = i - 1 /\ flight'[1].message.kind = flight[1].message.kind
    BY <1>3
  <2>2. Len(flight) = 2 => i - 1 <= flight[2].at
    BY <1>1, <1>4
  <2>3. Len(flight') <= 2
    BY <1>3, UnderWayIs
  <2> QED BY <1>3, <1>4, <2>1, <2>2, <2>3 DEF Pair
<1>9. m.kind = "start" => Clear(i - 1)'
  <2>1. m.kind = "start" => Clear(i)
    BY <1>7 DEF Sending, UnderWay
  <2>2. Clear(i) => Clear(i - 1)
    BY <1>1 DEF Clear
  <2> QED BY <1>1, <1>6, <2>1, <2>2
<1>10. m.kind = "body" => Placed(i - 1)'
  <2> SUFFICES ASSUME m.kind = "body", wire.starts # 1 PROVE \E c \in 1..(i - 1) : Holds(c)'
    BY DEF Placed
  <2>1. PICK c \in 1..i : Holds(c)
    BY <1>7 DEF Sending, UnderWay, Placed
  <2>2. c # i
    BY <2>1
  <2>3. c \in Layers \ {i} /\ c \in 1..(i - 1)
    BY <1>1, <2>2
  <2> QED BY <1>6, <2>1, <2>3
<1>11. UnderWay'
  <2>1. /\ response.sent # "nothing" /\ ~wire.complete
        /\ flight[Len(flight)].message.kind = "start" => response.sent = "start"
        /\ flight[Len(flight)].message.kind = "body" =>
             (flight[Len(flight)].message.more <=> response.sent = "start")
    BY <1>7 DEF Sending, UnderWay
  <2>2. /\ flight'[Len(flight')].message.kind = flight[Len(flight)].message.kind
        /\ flight'[Len(flight')].message.more = flight[Len(flight)].message.more
    BY <1>3, <1>4
  <2>3. flight'[1].message.kind = m.kind /\ flight'[1].at = i - 1
    BY <1>3
  <2> QED BY <1>9, <1>10, <2>1, <2>2, <2>3 DEF UnderWay
<1>12. Sending'
  BY <1>3, <1>7, <1>8, <1>11 DEF Sending, Between
<1>13. Positions' /\ SingleAnswer'
  BY <1>7, <1>12 DEF OneAnswer, Positions, SingleAnswer
<1> QED BY <1>6, <1>13

\* The middlewares that pass a message on: a layer that tracks starts has seen the one a
\* body follows.
LEMMA PassKeeps ==
    ASSUME OneAnswer, NEW i \in Layers, Pass(i)
    PROVE  Guarded' /\ Positions' /\ SingleAnswer'
<1> DEFINE m == flight[1].message
<1>1. flight # <<>> /\ Head(flight) = flight[1] /\ m \in Messages /\ flight[1].at = i
  BY UnderWayIs DEF Pass, Arrives
<1>2. flight' = <<[message |-> m, at |-> i - 1]>> \o Tail(flight)
  BY <1>1 DEF Pass, Outward
<1>3. \A j \in Layers \ {i} : layers'[j] = layers[j]
  BY DEF Pass, OneAnswer, Typed
<1>4. ~Holds(i)
  BY DEF Pass, Holds
<1>5. Tracks(i) => layers'[i].started
  <2> SUFFICES ASSUME Tracks(i) PROVE layers'[i].started
    OBVIOUS
  <2>1. layers[i].started \/ m.kind = "start"
    BY <1>1, <1>4, BodyFollows DEF Messages
  <2>2. layers'[i].started
          = (layers[i].started \/ (m.kind = "start" /\ Kind(i) \in {"server", "exception", "hook"}))
    BY <1>1 DEF Pass, OneAnswer, Typed
  <2>3. Kind(i) \in {"server", "exception", "hook"}
    BY DEF Pass, Tracks
  <2> QED BY <2>1, <2>2, <2>3
<1>6. UNCHANGED <<config, phase, at, origin, response, wire, past>>
  BY DEF Pass
<1> HIDE DEF m
<1> QED BY <1>1, <1>2, <1>3, <1>4, <1>5, <1>6, ForwardKeeps DEF m

\* CompressionMiddleware keeps the start to itself until a body comes.
LEMMA HoldKeeps ==
    ASSUME OneAnswer, NEW i \in Layers, Arrives(i), Kind(i) = "compression", config.accepts,
           Head(flight).message.kind = "start",
           layers' = [layers EXCEPT ![i].held = Head(flight).message],
           flight' = Tail(flight),
           UNCHANGED <<config, phase, at, origin, response, wire, past>>
    PROVE  Guarded' /\ Positions' /\ SingleAnswer'
<1> DEFINE m == flight[1].message
<1>1. /\ flight # <<>> /\ Head(flight) = flight[1] /\ flight[1].at = i /\ m.kind = "start"
      /\ Len(flight) \in {1, 2} /\ Len(flight') = Len(flight) - 1
      /\ Len(flight) = 1 => flight' = <<>>
      /\ Len(flight) = 2 => /\ flight' # <<>> /\ flight'[1] = flight[2] /\ flight[2].message.kind = "body"
                            /\ flight[2].at \in 0..(origin - 1) /\ i <= flight[2].at
      /\ flight' \in Seq([message : Messages, at : 0..(origin - 1)])
  BY UnderWayIs DEF Arrives
<1>2. i \in 1..(origin - 1) /\ i \in Nat /\ origin \in Nat /\ Layers = 1..(Inner - 1) /\ Inner \in Nat
      /\ origin <= Inner
  <2>1. Layers = 1..(Inner - 1) /\ Inner \in Nat /\ origin \in 1..Inner
    BY Stack DEF OneAnswer, Typed
  <2>2. i \in 0..(origin - 1)
    BY <1>1, UnderWayIs
  <2> QED BY <2>1, <2>2
<1>3. Sending /\ phase = "sending"
  BY <1>1, UnderWayIs DEF OneAnswer, Positions
<1>4. Clear(i) /\ Clear(i - 1)
  <2>1. Clear(i)
    BY <1>1, <1>3 DEF Sending, UnderWay
  <2> QED BY <1>2, <2>1 DEF Clear
<1>5. \A j \in Layers \ {i} : layers'[j] = layers[j]
  BY DEF OneAnswer, Typed
<1>6. ASSUME NEW n \in DOMAIN flight' PROVE flight'[n].at \in Nat /\ flight'[n].at >= i /\ flight'[n].at >= i - 1
  <2>1. n \in 1..Len(flight')
    BY <1>1
  <2>2. n = 1 /\ Len(flight) = 2
    <3>1. CASE Len(flight) = 1
      BY <1>1, <2>1, <3>1
    <3>2. CASE Len(flight) = 2
      BY <1>1, <2>1, <3>2
    <3> QED BY <1>1, <3>1, <3>2
  <2> QED BY <1>1, <1>2, <2>2
<1>7. Guarded'
  BY <1>1, <1>4, <1>5, <1>6, Onward
<1>8. Holds(i)'
  <2>1. layers[i] = Untouched
    BY <1>2, <1>4 DEF Clear
  <2>2. ~(layers'[i].started) /\ layers'[i].held = m
    BY <1>1, <2>1 DEF OneAnswer, Typed, Untouched
  <2> QED BY <1>1, <2>2 DEF Holds, Kind
<1>9. \A p \in Nat : p >= i => Placed(p)'
  BY <1>2, <1>8 DEF Placed
<1>10. response.sent # "nothing" /\ ~wire.complete
  BY <1>1, <1>3 DEF Sending, UnderWay
<1>11. CASE Len(flight) = 1
  <2>1. response.sent = "start"
    BY <1>1, <1>3, <1>11 DEF Sending, UnderWay
  <2>2. origin - 1 \in Nat /\ origin - 1 >= i
    BY <1>2
  <2>3. Placed(origin - 1)'
    BY <1>9, <2>2
  <2>4. Pair' /\ Between' /\ UnderWay'
    BY <1>1, <1>11, <2>1, <2>3 DEF Pair, Between, UnderWay
  <2>5. Sending'
    BY <1>10, <2>4 DEF Sending
  <2> QED BY <1>3, <1>7, <2>5 DEF OneAnswer, Positions, SingleAnswer
<1>12. CASE Len(flight) = 2
  <2>1. Placed(flight[1].at)'
    <3>1. flight'[1].at \in Nat /\ flight'[1].at >= i
      BY <1>1, <1>2, <1>12
    <3>2. i \in 1..(flight'[1].at)
      <4>1. \A k \in Nat : k >= i => i \in 1..k
        BY <1>2
      <4> QED BY <3>1, <4>1
    <3>3. \E c \in 1..(flight'[1].at) : Holds(c)'
      BY <1>8, <3>2
    <3> QED BY <3>3 DEF Placed
  <2>2. Len(flight') = 1 /\ flight' # <<>>
    BY <1>1, <1>12
  <2>3. flight'[1].message.more <=> response.sent = "start"
    BY <1>1, <1>3, <1>12 DEF Sending, UnderWay
  <2>4. Pair' /\ Between' /\ UnderWay'
    <3>1. Pair'
      BY <2>2 DEF Pair
    <3>2. Between'
      BY <2>2 DEF Between
    <3>3. flight'[1].message.kind = "body" /\ flight'[Len(flight')] = flight'[1]
      BY <1>1, <1>12, <2>2
    <3>4. UnderWay'
      BY <1>10, <2>1, <2>3, <3>3 DEF UnderWay
    <3> QED BY <3>1, <3>2, <3>4
  <2>5. Sending'
    BY <1>10, <2>4 DEF Sending
  <2> QED BY <1>3, <1>7, <2>5 DEF OneAnswer, Positions, SingleAnswer
<1> QED BY <1>1, <1>11, <1>12

\* With the first body it lets the start go, and the body right behind it.
LEMMA ReleaseKeeps ==
    ASSUME OneAnswer, NEW i \in Layers, Arrives(i), Kind(i) = "compression", config.accepts,
           Head(flight).message.kind = "body", ~layers[i].started,
           layers' = [layers EXCEPT ![i].started = TRUE],
           NEW s \in Messages, s.kind = "start",
           NEW m \in Messages, m.kind = "body", m.more = Head(flight).message.more,
           flight' = <<[message |-> s, at |-> i - 1], [message |-> m, at |-> i - 1]>> \o Tail(flight),
           UNCHANGED <<config, phase, at, origin, response, wire, past>>
    PROVE  Guarded' /\ Positions' /\ SingleAnswer'
<1> DEFINE x == [message |-> s, at |-> i - 1]
           y == [message |-> m, at |-> i - 1]
<1>1. flight # <<>> /\ Head(flight) = flight[1] /\ flight[1].at = i /\ flight[1].message.kind = "body"
  BY UnderWayIs DEF Arrives
<1>2. Tracks(i)
  BY DEF Tracks
<1>3. Len(flight) = 1
  BY <1>1, <1>2, BodyFollows
<1>4. i \in 1..(origin - 1) /\ i \in Nat /\ origin \in Nat
  <2>1. Layers = 1..(Inner - 1) /\ Inner \in Nat /\ origin \in 1..Inner
    BY Stack DEF OneAnswer, Typed
  <2>2. i \in 0..(origin - 1)
    BY <1>1, UnderWayIs
  <2> QED BY <2>1, <2>2
<1>5. flight' = <<x, y>>
  <2>1. x \in [message : Messages, at : 0..(origin - 1)] /\ y \in [message : Messages, at : 0..(origin - 1)]
    BY <1>4
  <2> HIDE DEF x, y
  <2>2. <<x, y>> \o Tail(flight) = <<x, y>>
    BY <1>1, <1>3, <2>1, Goes
  <2> QED BY <2>2 DEF x, y
<1>6. \A j \in Layers \ {i} : layers'[j] = layers[j]
  BY DEF OneAnswer, Typed
<1>7. layers'[i].started
  BY DEF OneAnswer, Typed
<1>8. Len(flight') = 2 /\ flight'[1] = x /\ flight'[2] = y /\ flight' # <<>> /\ DOMAIN flight' = {1, 2}
  <2> HIDE DEF x, y
  <2>1. /\ Len(<<x, y>>) = 2 /\ <<x, y>>[1] = x /\ <<x, y>>[2] = y /\ <<x, y>> # <<>>
        /\ DOMAIN <<x, y>> = {1, 2}
    OBVIOUS
  <2> QED BY <1>5, <2>1
<1>9. \A n \in DOMAIN flight' : flight'[n].at \in Nat /\ flight'[n].at >= i - 1
  <2>1. i - 1 \in Nat /\ i - 1 >= i - 1
    BY <1>4
  <2> QED BY <1>8, <2>1
<1>10. Clear(i - 1)
  BY <1>2, <1>4 DEF OneAnswer, Guarded
<1>11. Guarded' /\ Clear(i - 1)'
  <2>1. i - 1 \in 0..(i - 1)
    BY <1>4
  <2> QED BY <1>1, <1>6, <1>7, <1>9, <1>10, <2>1, Onward
<1>12. Sending /\ phase = "sending"
  BY <1>1, UnderWayIs DEF OneAnswer, Positions
<1>13. /\ response.sent # "nothing" /\ ~wire.complete
       /\ m.more <=> response.sent = "start"
  BY <1>1, <1>3, <1>12 DEF Sending, UnderWay
<1>14. flight'[1].at = i - 1 /\ flight'[2].at = i - 1 /\ flight'[1].message = s /\ flight'[2].message = m
  BY <1>8
<1> HIDE DEF x, y
<1>15. Pair' /\ Between'
  <2>1. i - 1 <= i - 1
    BY <1>4
  <2> QED BY <1>8, <1>14, <2>1 DEF Pair, Between
<1>16. UnderWay'
  BY <1>8, <1>11, <1>13, <1>14 DEF UnderWay
<1>17. Sending'
  BY <1>13, <1>15, <1>16 DEF Sending
<1> QED BY <1>11, <1>12, <1>17 DEF OneAnswer, Positions, SingleAnswer

\* So it never parts a start from its bodies, nor swaps them.
LEMMA CompressKeeps ==
    ASSUME OneAnswer, NEW i \in Layers, Compress(i)
    PROVE  Guarded' /\ Positions' /\ SingleAnswer'
<1> DEFINE m == flight[1].message
           coded == [m EXCEPT !.coding = "codec"]
           held == layers[i].held
<1>1. /\ flight # <<>> /\ Head(flight) = flight[1] /\ m \in Messages /\ flight[1].at = i
      /\ Arrives(i) /\ Kind(i) = "compression" /\ config.accepts
      /\ UNCHANGED <<config, phase, at, origin, response, wire, past>>
  BY UnderWayIs DEF Compress, Arrives
<1>2. coded \in Messages /\ coded.kind = m.kind /\ coded.more = m.more
  BY <1>1 DEF Messages
<1>3. CASE m.kind = "start"
  <2>1. layers' = [layers EXCEPT ![i].held = m] /\ flight' = Tail(flight)
    BY <1>1, <1>3 DEF Compress
  <2> QED BY <1>1, <1>3, <2>1, HoldKeeps
<1>4. CASE m.kind = "body" /\ ~layers[i].started
  <2>1. Tracks(i)
    BY <1>1 DEF Tracks
  <2>2. Holds(i)
    BY <1>1, <1>4, <2>1, BodyFollows
  <2>3. held \in Messages /\ held.kind = "start"
    BY <2>2 DEF Holds, OneAnswer, Typed, NoStart
  <2>4. [held EXCEPT !.coding = "codec"] \in Messages /\ [held EXCEPT !.coding = "codec"].kind = "start"
    BY <2>3 DEF Messages
  <2>5. layers' = [layers EXCEPT ![i].started = TRUE]
    BY <1>1, <1>4 DEF Compress
  <2>6. \/ flight' = <<[message |-> held, at |-> i - 1], [message |-> m, at |-> i - 1]>> \o Tail(flight)
        \/ flight' = <<[message |-> [held EXCEPT !.coding = "codec"], at |-> i - 1],
                       [message |-> coded, at |-> i - 1]>> \o Tail(flight)
    BY <1>1, <1>4 DEF Compress, Outward
  <2> HIDE DEF m, coded, held
  <2>7. Head(flight).message = m
    BY <1>1 DEF m
  <2>8. CASE flight' = <<[message |-> held, at |-> i - 1], [message |-> m, at |-> i - 1]>> \o Tail(flight)
    BY <1>1, <1>4, <2>3, <2>5, <2>7, <2>8, ReleaseKeeps
  <2>9. CASE flight' = <<[message |-> [held EXCEPT !.coding = "codec"], at |-> i - 1],
                         [message |-> coded, at |-> i - 1]>> \o Tail(flight)
    BY <1>1, <1>2, <1>4, <2>4, <2>5, <2>7, <2>9, ReleaseKeeps
  <2> QED BY <2>6, <2>8, <2>9
<1>5. CASE m.kind = "body" /\ layers[i].started
  <2>1. layers' = layers /\ flight' = <<[message |-> coded, at |-> i - 1]>> \o Tail(flight)
    BY <1>1, <1>5 DEF Compress, Outward
  <2>2. ~Holds(i)
    BY <1>5 DEF Holds
  <2>3. Tracks(i) => layers'[i].started
    BY <1>5, <2>1
  <2> HIDE DEF coded
  <2> QED BY <1>1, <1>2, <1>5, <2>1, <2>2, <2>3, ForwardKeeps
<1> QED BY <1>1, <1>3, <1>4, <1>5 DEF Messages

\* What the server takes is the next of the answer; what its client is not there for ends it.
LEMMA DeliverKeeps ==
    ASSUME OneAnswer, Arrives(0), ~gone, Deliver
    PROVE  Guarded' /\ Positions' /\ SingleAnswer'
<1> DEFINE m == flight[1].message
<1>1. /\ flight # <<>> /\ Head(flight) = flight[1] /\ flight[1].at = 0 /\ m \in Messages
      /\ Len(flight) \in {1, 2} /\ Len(flight') = Len(flight) - 1
      /\ Len(flight) = 1 => flight' = <<>>
      /\ Len(flight) = 2 => /\ flight' # <<>> /\ flight'[1] = flight[2] /\ flight[2].message.kind = "body"
                            /\ m.kind = "start"
  BY UnderWayIs DEF Arrives, Deliver
<1>2. UNCHANGED <<config, layers, origin, response, phase, past>>
  BY DEF Deliver
<1>3. Sending /\ phase = "sending" /\ response.sent # "nothing" /\ ~wire.complete
  BY <1>1, UnderWayIs DEF OneAnswer, Positions, Sending, UnderWay
<1>4. Guarded'
  <2> SUFFICES ASSUME NEW j \in 1..(origin - 1), Tracks(j), ~layers[j].started PROVE FALSE
    BY <1>2 DEF Guarded, Tracks, Kind
  <2>1. 1 \in DOMAIN flight
    BY <1>1, UnderWayIs DEF OneAnswer, Typed
  <2>2. flight[1].at >= j /\ j \in Nat /\ j > 0
    <3>1. origin \in Nat
      BY Stack DEF OneAnswer, Typed
    <3> QED BY <2>1, <3>1 DEF OneAnswer, Guarded
  <2> QED BY <1>1, <2>2
<1>5. CASE m.kind = "start"
  <2>1. wire.starts = 0
    BY <1>1, <1>3, <1>5 DEF Sending, UnderWay, Clear
  <2>2. wire'.starts = 1 /\ wire'.complete = wire.complete /\ wire'.late = wire.late
    <3>1. wire' = [wire EXCEPT !.starts = @ + 1, !.coding = m.coding, !.late = @ \/ wire.complete]
      BY <1>1, <1>5 DEF Deliver
    <3>2. wire.late \in BOOLEAN
      BY DEF OneAnswer, Typed
    <3>3. wire'.starts = wire.starts + 1 /\ wire'.complete = wire.complete /\ wire'.late = (wire.late \/ wire.complete)
      BY <3>1 DEF OneAnswer, Typed
    <3> QED BY <1>3, <2>1, <3>2, <3>3
  <2>3. \A p : Placed(p)'
    BY <2>2 DEF Placed
  <2>4. flight[Len(flight)].message.kind = "start" => response.sent = "start"
    BY <1>1, <1>3 DEF Sending, UnderWay
  <2>5. Sending'
    <3>1. CASE Len(flight) = 1
      <4>1. response.sent = "start" /\ flight' = <<>>
        BY <1>1, <1>5, <2>4, <3>1
      <4>2. Pair' /\ Between' /\ UnderWay'
        BY <1>2, <2>3, <4>1 DEF Pair, Between, UnderWay
      <4> QED BY <1>2, <1>3, <2>2, <4>2 DEF Sending
    <3>2. CASE Len(flight) = 2
      <4>1. Len(flight') = 1 /\ flight' # <<>> /\ flight'[Len(flight')] = flight'[1]
            /\ flight'[1] = flight[2] /\ flight[2].message.kind = "body"
        BY <1>1, <3>2
      <4>2. flight[2].message.more <=> response.sent = "start"
        BY <1>1, <1>3, <3>2 DEF Sending, UnderWay
      <4>3. Pair' /\ Between'
        BY <4>1 DEF Pair, Between
      <4>4. Placed(flight[1].at)'
        BY <2>2 DEF Placed
      <4>5. UnderWay'
        BY <1>2, <1>3, <2>2, <4>1, <4>2, <4>4 DEF UnderWay
      <4> QED BY <1>2, <1>3, <2>2, <4>3, <4>5 DEF Sending
    <3> QED BY <1>1, <3>1, <3>2
  <2>6. SingleAnswer'
    BY <1>2, <2>2 DEF SingleAnswer, OneAnswer
  <2>7. Positions'
    BY <1>2, <1>3, <2>5 DEF Positions
  <2> QED BY <1>4, <2>6, <2>7
<1>6. CASE m.kind = "body"
  <2>1. wire.starts = 1
    <3>1. Placed(0)
      BY <1>1, <1>3, <1>6 DEF Sending, UnderWay
    <3> QED BY <3>1 DEF Placed
  <2>2. wire'.starts = 1 /\ wire'.complete = ~m.more /\ wire'.late = wire.late
    BY <1>1, <1>3, <1>6, <2>1 DEF Deliver, OneAnswer, Typed
  <2>3. Len(flight) = 1 /\ flight' = <<>>
    BY <1>1, <1>6
  <2>4. m.more <=> response.sent = "start"
    BY <1>1, <1>3, <1>6, <2>3 DEF Sending, UnderWay
  <2>5. Placed(origin - 1)'
    BY <2>2 DEF Placed
  <2>6. response.sent = "all" <=> wire'.complete
    <3>1. response.sent \in {"start", "all"} /\ m.more \in BOOLEAN
      BY <1>1, <1>3 DEF OneAnswer, Typed, Responses, Messages
    <3> QED BY <2>2, <2>4, <3>1
  <2>7. Pair' /\ UnderWay'
    BY <2>3 DEF Pair, UnderWay
  <2>8. Between'
    BY <1>2, <1>3, <2>5, <2>6 DEF Between
  <2>9. Sending'
    BY <1>2, <2>6, <2>7, <2>8 DEF Sending
  <2>10. SingleAnswer'
    BY <1>2, <2>2 DEF SingleAnswer, OneAnswer
  <2>11. Positions'
    BY <1>2, <1>3, <2>9 DEF Positions
  <2> QED BY <1>4, <2>10, <2>11
<1> QED BY <1>1, <1>5, <1>6 DEF Messages

\* A response sends its messages in order, the next one once the last has gone as far as
\* it goes.
LEMMA SendKeeps ==
    ASSUME OneAnswer, Send
    PROVE  Guarded' /\ Positions' /\ SingleAnswer'
<1> DEFINE m == Message(response)
<1>1. /\ phase = "sending" /\ flight = <<>> /\ response \in Responses /\ response.sent \in {"nothing", "start"}
      /\ flight' = <<[message |-> m, at |-> origin - 1]>> /\ response' = AfterMessage(response)
      /\ UNCHANGED <<config, phase, layers, origin, wire, past>>
  BY DEF Send, OneAnswer, Typed, Responses
<1>2. Sending /\ origin \in Nat /\ origin - 1 \in Nat
  BY <1>1, Stack DEF OneAnswer, Positions, Typed
<1>3. /\ Len(flight') = 1 /\ flight' # <<>> /\ DOMAIN flight' = {1} /\ flight'[Len(flight')] = flight'[1]
      /\ flight'[1].message = m /\ flight'[1].at = origin - 1
  BY <1>1
<1>4. \A p : Clear(p)' = Clear(p)
  BY <1>1 DEF Clear
<1>5. Guarded'
  <2> SUFFICES ASSUME NEW j \in 1..(origin - 1), Tracks(j), ~layers[j].started
               PROVE  Clear(j - 1) /\ \A n \in DOMAIN flight' : flight'[n].at >= j
    BY <1>1, <1>4 DEF Guarded, Tracks, Kind
  <2>1. Clear(j - 1)
    BY DEF OneAnswer, Guarded
  <2>2. flight'[1].at >= j
    BY <1>2, <1>3
  <2> QED BY <1>3, <2>1, <2>2
<1>6. ~wire.complete
  BY <1>1, <1>2 DEF Sending
<1>7. CASE response.sent = "nothing"
  <2>1. m.kind = "start" /\ response'.sent = "start"
    BY <1>1, <1>7 DEF Message, AfterMessage, Responses
  <2>2. Clear(flight[1].at)'
    BY <1>1, <1>2, <1>3, <1>7 DEF Sending, Between, Clear
  <2>3. Pair' /\ Between'
    BY <1>3 DEF Pair, Between
  <2>4. UnderWay'
    BY <1>1, <1>3, <1>6, <2>1, <2>2 DEF UnderWay
  <2>5. Sending'
    BY <1>1, <1>6, <2>3, <2>4 DEF Sending
  <2> QED BY <1>1, <1>5, <2>5 DEF Positions, OneAnswer, SingleAnswer
<1>8. CASE response.sent = "start"
  <2>1. m.kind = "body" /\ response'.sent \in {"start", "all"}
    BY <1>1, <1>8 DEF Message, AfterMessage, Responses
  <2>2. m.more <=> response'.sent = "start"
    <3>1. m.more <=> response.stream /\ response.left > 0
      BY DEF Message
    <3>2. CASE response.stream /\ response.left > 0
      <4>1. response' = [response EXCEPT !.left = @ - 1]
        BY <1>1, <1>8, <3>2 DEF AfterMessage
      <4> QED BY <1>1, <1>8, <3>1, <3>2, <4>1 DEF Responses
    <3>3. CASE ~(response.stream /\ response.left > 0)
      <4>1. response' = [response EXCEPT !.sent = "all"]
        BY <1>1, <1>8, <3>3 DEF AfterMessage
      <4> QED BY <1>1, <3>1, <3>3, <4>1 DEF Responses
    <3> QED BY <3>2, <3>3
  <2>3. Placed(flight[1].at)'
    <3>1. Placed(origin - 1)
      BY <1>1, <1>2, <1>8 DEF Sending, Between
    <3> QED BY <1>1, <1>3, <3>1 DEF Placed, Holds, Kind
  <2>4. Pair' /\ Between'
    BY <1>3 DEF Pair, Between
  <2>5. UnderWay'
    BY <1>1, <1>3, <1>6, <2>1, <2>2, <2>3 DEF UnderWay
  <2>6. Sending'
    BY <1>1, <1>6, <2>4, <2>5 DEF Sending
  <2> QED BY <1>1, <1>5, <2>6 DEF Positions, OneAnswer, SingleAnswer
<1> QED BY <1>1, <1>7, <1>8

\* A response that fails is over, whatever was under way; the start may be noted at a hook
\* whose after() raises.
LEMMA FailKeeps ==
    ASSUME OneAnswer, phase = "sending", flight' = <<>>, UNCHANGED <<config, origin, response, wire>>,
           past'.background = past.background,
           phase' = "answered" \/ (phase' = "raising" /\ at' = origin - 1),
           layers' = layers \/ \E i \in Layers :
               Arrives(i) /\ layers' = [layers EXCEPT ![i].started = TRUE]
    PROVE  Guarded' /\ Positions' /\ SingleAnswer'
<1>1. Guarded'
  <2>1. CASE layers' = layers
    BY <2>1 DEF OneAnswer, Guarded, Clear, Tracks, Kind
  <2>2. ASSUME NEW i \in Layers, Arrives(i), layers' = [layers EXCEPT ![i].started = TRUE]
        PROVE  Guarded'
    <3>1. flight # <<>> /\ flight[1].at = i
      BY <2>2, UnderWayIs DEF Arrives
    <3>2. layers'[i].started /\ \A j \in Layers \ {i} : layers'[j] = layers[j]
      BY <2>2 DEF OneAnswer, Typed
    <3> QED BY <3>1, <3>2, Onward
  <2> QED BY <2>1, <2>2
<1>2. origin \in Nat /\ origin > 0
  BY Stack DEF OneAnswer, Typed
<1>3. Positions'
  BY <1>2 DEF Positions
<1>4. SingleAnswer'
  BY DEF OneAnswer, SingleAnswer
<1> QED BY <1>1, <1>3, <1>4

-----------------------------------------------------------------------------
(* Every step *)

\* Types of what a step that sends nothing may change.
LEMMA QuietTyped ==
    ASSUME Typed, UNCHANGED <<config, layers, origin, response, flight>>,
           phase' \in Phases, at' \in Nat, gone' \in BOOLEAN,
           wire' = wire \/ wire' = [wire EXCEPT !.closes = @ + 1],
           conn' \in [client : {"connecting", "connected", "disconnected"},
                      application : {"connecting", "connected", "disconnected"},
                      messages : Nat, hooks : Nat, connected : BOOLEAN],
           past' \in [background : {"none", "complete", "incomplete"}, swallowed : BOOLEAN]
    PROVE  Typed'
<1>1. wire' \in [starts : Nat, coding : {"identity", "app", "codec"},
                 codings : SUBSET {"identity", "app", "codec"},
                 complete : BOOLEAN, late : BOOLEAN, closes : Nat]
  BY DEF Typed
<1>2. Layers' = Layers /\ Inner' = Inner
  BY DEF Layers, Inner
<1> QED BY <1>1, <1>2 DEF Typed

\* Control going in, an exception going out and control coming back leave the answer alone.
LEMMA ControlQuiet ==
    ASSUME OneAnswer,
           \/ Enter \/ EnterRaise \/ HandleRaise \/ ClientGoes \/ Return \/ ReturnRaises
           \/ Escape \/ Through \/ ThroughTelemetry
    PROVE  Quiet /\ Typed'
<1>1. /\ Typed /\ Positions /\ at \in Nat /\ origin \in Nat /\ Layers = 1..(Inner - 1) /\ Inner \in Nat
      /\ origin \in 1..Inner /\ past.background # "incomplete"
  BY Stack DEF OneAnswer, Typed, SingleAnswer
<1>2. UNCHANGED <<config, layers, origin, response, flight, wire, conn, past>>
  BY DEF Enter, EnterRaise, HandleRaise, ClientGoes, Return, ReturnRaises, Escape, Through,
         ThroughTelemetry, Raise, Outwards
<1>3. CASE ClientGoes
  <2>1. phase' = phase /\ at' = at /\ gone' = TRUE
    BY <1>3 DEF ClientGoes
  <2>2. Quiet
    BY <1>1, <1>2, <2>1 DEF Quiet, Positions
  <2>3. Typed'
    BY <1>1, <1>2, <2>1, QuietTyped DEF Typed
  <2> QED BY <2>2, <2>3
<1>4. ASSUME gone' = gone, phase # "sending", phase' \in Phases \ {"sending"}, at' \in Nat,
             phase' = "entering" => phase = "entering" /\ at' \in 1..Inner,
             phase' = "raising" => at' < origin,
             phase' \notin {"receive", "on_receive", "on_disconnect"} \/ phase' = phase
      PROVE  Quiet /\ Typed'
  <2>1. Quiet
    BY <1>1, <1>2, <1>4 DEF Quiet, Positions
  <2>2. Typed'
    BY <1>1, <1>2, <1>4, QuietTyped DEF Typed
  <2> QED BY <2>1, <2>2
<1>5. CASE Enter
  BY <1>1, <1>4, <1>5 DEF Enter, Phases
<1>6. CASE EnterRaise \/ HandleRaise
  <2>1. at' = at - 1 /\ phase = "entering" /\ phase' = "raising" /\ gone' = gone /\ at \in 1..Inner /\ origin = Inner
    BY <1>1, <1>6 DEF EnterRaise, HandleRaise, Raise, Positions
  <2> QED BY <1>1, <1>4, <2>1 DEF Phases
<1>7. CASE Return
  BY <1>1, <1>4, <1>7 DEF Return, Phases
<1>8. CASE ReturnRaises
  <2>1. PICK i \in 2..(origin - 1) : i \in Layers /\ Raise("unhandled", i - 1)
    BY <1>8 DEF ReturnRaises
  <2>2. at' = i - 1 /\ phase' = "raising" /\ phase = "answered" /\ gone' = gone
    BY <1>8, <2>1 DEF ReturnRaises, Raise
  <2> QED BY <1>1, <1>4, <2>1, <2>2 DEF Phases
<1>9. CASE Escape
  BY <1>1, <1>4, <1>9 DEF Escape, Phases
<1>10. CASE Through \/ ThroughTelemetry
  <2>1. at' = at - 1 /\ phase = "raising" /\ phase' = "raising" /\ gone' = gone /\ at \in Layers
    BY <1>10 DEF Through, ThroughTelemetry, Outwards
  <2>2. at < origin
    BY <1>1, <2>1 DEF Positions
  <2> QED BY <1>1, <1>4, <2>1, <2>2 DEF Phases
<1> QED BY <1>3, <1>5, <1>6, <1>7, <1>8, <1>9, <1>10

\* So does the endpoint of a WebSocket.
LEMMA SocketQuiet ==
    ASSUME OneAnswer,
           \/ OnConnect \/ OnConnectRaises \/ ReceiveMessage \/ ReceiveDisconnect \/ OnReceive
           \/ OnReceiveCloses \/ OnDisconnect \/ CloseSocket
    PROVE  Quiet /\ Typed'
<1>1. /\ Typed /\ Positions /\ at \in Nat /\ origin \in Nat /\ Layers = 1..(Inner - 1) /\ Inner \in Nat
      /\ origin \in 1..Inner /\ past.background # "incomplete" /\ Inner > 2
  BY Stack DEF OneAnswer, Typed, SingleAnswer
<1>2. UNCHANGED <<config, layers, origin, response, flight, gone, past>> /\ phase # "sending"
  BY DEF OnConnect, OnConnectRaises, ReceiveMessage, ReceiveDisconnect, OnReceive, OnReceiveCloses,
         OnDisconnect, CloseSocket, socketless
<1>3. wire' = wire \/ wire' = [wire EXCEPT !.closes = @ + 1]
  BY DEF OnConnect, OnConnectRaises, ReceiveMessage, ReceiveDisconnect, OnReceive, OnReceiveCloses,
         OnDisconnect, CloseSocket
<1>4. conn' \in [client : {"connecting", "connected", "disconnected"},
                 application : {"connecting", "connected", "disconnected"},
                 messages : Nat, hooks : Nat, connected : BOOLEAN]
  <2>1. CASE OnConnect
    BY <1>1, <2>1 DEF OnConnect, Typed
  <2>2. CASE ReceiveMessage
    <3>1. conn' = [conn EXCEPT !.client = "connected", !.messages = @ + 1]
      BY <2>2 DEF ReceiveMessage
    <3>2. conn.messages + 1 \in Nat
      BY <1>1 DEF Typed
    <3> QED BY <1>1, <3>1, <3>2 DEF Typed
  <2>3. CASE ReceiveDisconnect \/ OnReceive \/ OnReceiveCloses
    BY <1>1, <2>3 DEF ReceiveDisconnect, OnReceive, OnReceiveCloses, Typed
  <2>4. CASE OnDisconnect
    <3>1. \/ conn' = [conn EXCEPT !.hooks = @ + 1]
          \/ conn' = [conn EXCEPT !.hooks = @ + 1, !.application = "disconnected"]
      BY <2>4 DEF OnDisconnect
    <3>2. conn.hooks + 1 \in Nat
      BY <1>1 DEF Typed
    <3> QED BY <1>1, <3>1, <3>2 DEF Typed
  <2>5. CASE OnConnectRaises \/ CloseSocket
    BY <1>1, <2>5 DEF OnConnectRaises, CloseSocket, Typed
  <2> QED BY <2>1, <2>2, <2>3, <2>4, <2>5
<1>5. /\ phase' \in Phases \ {"sending", "entering"} /\ at' \in Nat
      /\ phase' = "raising" => at' < origin
      /\ phase' \in {"receive", "on_receive", "on_disconnect"} => origin = Inner
  <2>1. CASE OnConnect \/ ReceiveMessage \/ ReceiveDisconnect \/ OnReceive \/ OnReceiveCloses
    BY <1>1, <2>1 DEF OnConnect, ReceiveMessage, ReceiveDisconnect, OnReceive, OnReceiveCloses, Socket, Phases,
       Positions
  <2>2. CASE OnConnectRaises
    BY <1>1, <2>2 DEF OnConnectRaises, Raise, Phases, Positions
  <2>3. CASE OnDisconnect
    BY <1>1, <2>3 DEF OnDisconnect, Phases, Positions
  <2>4. CASE CloseSocket
    BY <1>1, <2>4 DEF CloseSocket, Phases, Positions
  <2> QED BY <2>1, <2>2, <2>3, <2>4
<1>6. wire'.starts = wire.starts /\ wire'.complete = wire.complete /\ wire'.late = wire.late
  BY <1>1, <1>3 DEF Typed
<1>7. Quiet
  BY <1>1, <1>2, <1>5, <1>6 DEF Quiet, Positions
<1>8. Typed'
  BY <1>1, <1>2, <1>3, <1>4, <1>5, QuietTyped DEF Typed
<1> QED BY <1>7, <1>8

\* A layer that answers: the handler, a hook or a preflight on the way in, a middleware
\* that has seen no start on the way out.
LEMMA RespondTyped ==
    ASSUME OneAnswer, NEW layer \in 1..origin, NEW r \in Responses, Respond(layer, r), r.sent = "nothing",
           flight = <<>>, at' = at, Clear(layer - 1),
           UNCHANGED <<config, layers, flight, gone, wire, conn, past>>
    PROVE  Typed' /\ Guarded' /\ Positions' /\ SingleAnswer'
<1>1. Guarded' /\ Positions' /\ SingleAnswer'
  BY RespondKeeps
<1>2. Layers' = Layers /\ Inner' = Inner /\ origin \in Nat /\ origin <= Inner /\ Inner \in Nat
  BY Stack DEF OneAnswer, Typed, Layers, Inner
<1>3. origin' \in 1..Inner /\ phase' \in Phases /\ response' \in Responses
  BY <1>2 DEF Respond, Phases
<1>4. flight' \in Seq([message : Messages, at : 0..(origin' - 1)])
  OBVIOUS
<1>5. Typed'
  BY <1>2, <1>3, <1>4 DEF OneAnswer, Typed
<1> QED BY <1>1, <1>5

\* The answer of a layer is a response of which nothing was sent.
LEMMA PlainIs == Plain \in Responses /\ Plain.sent = "nothing"
BY DEF Plain, NoResponse, Responses, Forms

\* So is what a handler returns.
LEMMA ReturnedAre ==
    ASSUME NEW r \in Returned
    PROVE  r \in Responses /\ r.sent = "nothing"
<1> DEFINE Left == 0..MaxChunks
<1>1. Left \subseteq Nat
  BY BoundsAssumption
<1> HIDE DEF Left
<1>2. \/ r \in [stream : {TRUE}, left : Left, form : Forms, small : {TRUE}, background : BOOLEAN,
               sent : {"nothing"}]
      \/ r \in [stream : {FALSE}, left : {1}, form : {"plain"}, small : BOOLEAN, background : BOOLEAN,
               sent : {"nothing"}]
  BY DEF Returned, Forms, Left
<1>3. r.left \in Nat
  <2>1. r.left \in Left \/ r.left = 1
    BY <1>2
  <2>2. 1 \in Nat
    OBVIOUS
  <2> QED BY <1>1, <2>1, <2>2, Zenon
<1>4. r.form \in Forms
  <2>1. r.form \in Forms \/ r.form = "plain"
    BY <1>2
  <2> QED BY <2>1 DEF Forms
<1> QED BY <1>2, <1>3, <1>4 DEF Responses

\* They answer where the way out is clear.
LEMMA AnswersKept ==
    ASSUME OneAnswer,
           \/ EnterAnswer \/ Handle
           \/ (ErrorHook \/ HandleException \/ ServerError) /\ phase' = "sending"
    PROVE  Typed' /\ Guarded' /\ Positions' /\ SingleAnswer'
<1>1. /\ at \in Nat /\ origin \in Nat /\ Layers = 1..(Inner - 1) /\ Inner \in Nat /\ origin \in 1..Inner
      /\ Typed /\ Positions /\ Guarded
  BY Stack DEF OneAnswer, Typed
<1>2. UNCHANGED <<config, layers, flight, gone, wire, conn, past>> /\ flight = <<>>
  BY <1>1 DEF EnterAnswer, Handle, ErrorHook, HandleException, ServerError, Positions
<1>3. CASE EnterAnswer
  <2>1. Respond(at, Plain) /\ at' = at /\ at \in 1..origin /\ Clear(at - 1)
    BY <1>1, <1>3 DEF EnterAnswer, Positions, Clear
  <2> QED BY <1>2, <2>1, PlainIs, RespondTyped
<1>4. CASE Handle
  <2>1. PICK r \in Returned : Respond(Inner, r)
    BY <1>4 DEF Handle
  <2>2. at' = at /\ Inner \in 1..origin /\ Clear(Inner - 1)
    BY <1>1, <1>4 DEF Handle, Positions
  <2> QED BY <1>2, <2>1, <2>2, ReturnedAre, RespondTyped
<1>5. CASE phase' = "sending" /\ (ErrorHook \/ HandleException \/ ServerError)
  <2>1. /\ phase = "raising" /\ at \in Layers /\ at' = at /\ Respond(at, Plain) /\ ~layers[at].started
        /\ Kind(at) \in {"hook", "exception", "server"}
    BY <1>5 DEF ErrorHook, HandleException, ServerError, Outwards
  <2>2. at \in 1..(origin - 1) /\ at \in 1..origin
    BY <1>1, <2>1 DEF Positions
  <2>3. Clear(at - 1)
    BY <1>1, <2>1, <2>2 DEF Guarded, Tracks
  <2> QED BY <1>2, <2>1, <2>2, <2>3, PlainIs, RespondTyped
<1> QED BY <1>3, <1>4, <1>5

\* Or they let the exception go on.
LEMMA ErrorsQuiet ==
    ASSUME OneAnswer, ErrorHook \/ HandleException \/ ServerError, phase' # "sending"
    PROVE  Quiet /\ Typed'
<1>1. /\ at \in Nat /\ origin \in Nat /\ Layers = 1..(Inner - 1) /\ Inner \in Nat /\ origin \in 1..Inner
      /\ Typed /\ Positions /\ past.background # "incomplete"
  BY Stack DEF OneAnswer, Typed, SingleAnswer
<1>2. /\ phase = "raising" /\ at \in Layers /\ phase' = "raising" /\ at' = at - 1
      /\ UNCHANGED <<config, layers, origin, response, flight, gone, wire, conn, past>>
  BY DEF ErrorHook, HandleException, ServerError, Outwards, Respond
<1>3. at < origin /\ flight = <<>>
  BY <1>1, <1>2 DEF Positions
<1>4. Quiet
  BY <1>1, <1>2, <1>3 DEF Quiet
<1>5. Typed'
  BY <1>1, <1>2, QuietTyped DEF Typed, Phases
<1> QED BY <1>4, <1>5

\* The background of a response that was sent runs after the whole of it has arrived.
LEMMA BackgroundQuiet ==
    ASSUME OneAnswer, Background
    PROVE  Quiet /\ Typed'
<1>1. /\ at \in Nat /\ origin \in Nat /\ origin > 0 /\ Typed /\ Positions /\ past.background # "incomplete"
      /\ origin - 1 \in Nat /\ origin - 1 < origin
  BY Stack DEF OneAnswer, Typed, SingleAnswer
<1>2. UNCHANGED <<config, layers, origin, response, flight, gone, wire, conn>> /\ flight = <<>>
  BY DEF Background
<1>3. (phase' = "answered" /\ at' = at) \/ (phase' = "raising" /\ at' = origin - 1)
  BY DEF Background, Raise
<1>4. wire.complete
  BY <1>1 DEF Background, Positions, Sending, Between
<1>5. past' = past \/ past' = [past EXCEPT !.background = "complete"]
  BY <1>4 DEF Background
<1>6. past' \in [background : {"none", "complete", "incomplete"}, swallowed : BOOLEAN]
      /\ past'.background # "incomplete"
  BY <1>1, <1>5 DEF Typed
<1>7. Quiet
  BY <1>1, <1>2, <1>3, <1>6 DEF Quiet
<1>8. Typed'
  BY <1>1, <1>2, <1>3, <1>6, QuietTyped DEF Typed, Phases
<1> QED BY <1>7, <1>8

\* Types of what a layer remembers.
LEMMA LayerTyped ==
    ASSUME Typed, NEW i \in Layers, NEW b \in BOOLEAN, NEW m \in Messages,
           \/ layers' = [layers EXCEPT ![i].started = b] \/ layers' = [layers EXCEPT ![i].held = m]
    PROVE  layers' \in [Layers -> [started : BOOLEAN, held : Messages \cup {NoStart}]]
<1> DEFINE L == [started : BOOLEAN, held : Messages \cup {NoStart}]
<1>1. layers \in [Layers -> L] /\ layers[i] \in L
  BY DEF Typed
<1>2. [layers[i] EXCEPT !.started = b] \in L /\ [layers[i] EXCEPT !.held = m] \in L
  BY <1>1
<1>3. \/ layers' = [layers EXCEPT ![i] = [layers[i] EXCEPT !.started = b]]
      \/ layers' = [layers EXCEPT ![i] = [layers[i] EXCEPT !.held = m]]
  BY <1>1
<1> HIDE DEF L
<1>4. layers' \in [Layers -> L]
  BY <1>1, <1>2, <1>3
<1> QED BY <1>4 DEF L

\* Types of what a failure leaves.
LEMMA FailTyped ==
    ASSUME OneAnswer, NEW e, Fail(e), UNCHANGED <<config, origin, response, gone, wire, conn>>,
           layers' \in [Layers -> [started : BOOLEAN, held : Messages \cup {NoStart}]]
    PROVE  /\ Typed' /\ flight' = <<>> /\ past'.background = past.background
           /\ phase' = "answered" \/ (phase' = "raising" /\ at' = origin - 1)
<1>1. Typed /\ origin - 1 \in Nat
  BY Stack DEF OneAnswer, Typed
<1>2. flight' = <<>> /\ ((phase' = "answered" /\ at' = at) \/ (phase' = "raising" /\ at' = origin - 1))
  BY DEF Fail, Raise
<1>3. past' = past \/ past' = [past EXCEPT !.swallowed = @ \/ e = "oserror"]
  BY DEF Fail
<1>4. past' \in [background : {"none", "complete", "incomplete"}, swallowed : BOOLEAN]
      /\ past'.background = past.background
  BY <1>1, <1>3 DEF Typed
<1>5. flight' \in Seq([message : Messages, at : 0..(origin - 1)])
  BY <1>2
<1>6. Layers' = Layers /\ Inner' = Inner
  BY DEF Layers, Inner
<1>7. Typed'
  BY <1>1, <1>2, <1>4, <1>5, <1>6 DEF Typed, Phases
<1> QED BY <1>2, <1>4, <1>7

\* A failure of the content, of a hook's after() or of the server's send.
LEMMA FailuresKept ==
    ASSUME OneAnswer, ContentFails \/ (\E i \in Layers : AfterRaises(i)) \/ (Deliver /\ gone)
    PROVE  Typed' /\ Guarded' /\ Positions' /\ SingleAnswer'
<1>1. CASE ContentFails
  <2>1. PICK e \in {"handled", "unhandled", "oserror"} : Fail(e)
    BY <1>1 DEF ContentFails
  <2>2. phase = "sending" /\ UNCHANGED <<config, layers, origin, response, gone, wire, conn>>
    BY <1>1 DEF ContentFails
  <2>3. layers' \in [Layers -> [started : BOOLEAN, held : Messages \cup {NoStart}]]
    BY <2>2 DEF OneAnswer, Typed
  <2> QED BY <2>1, <2>2, <2>3, FailTyped, FailKeeps
<1>2. ASSUME NEW i \in Layers, AfterRaises(i)
      PROVE  Typed' /\ Guarded' /\ Positions' /\ SingleAnswer'
  <2>1. /\ phase = "sending" /\ Arrives(i) /\ layers' = [layers EXCEPT ![i].started = TRUE] /\ Fail("unhandled")
        /\ UNCHANGED <<config, origin, response, gone, wire, conn>>
    BY <1>2 DEF AfterRaises, Arrives
  <2>2. layers' \in [Layers -> [started : BOOLEAN, held : Messages \cup {NoStart}]]
    <3>1. flight[1].message \in Messages
      BY <2>1, UnderWayIs DEF Arrives
    <3> QED BY <2>1, <3>1, LayerTyped DEF OneAnswer
  <2> QED BY <2>1, <2>2, FailTyped, FailKeeps
<1>3. CASE Deliver /\ gone
  <2>1. phase = "sending" /\ Fail("closed") /\ UNCHANGED <<config, layers, origin, response, gone, wire, conn>>
    BY <1>3 DEF Deliver, Arrives
  <2>2. layers' \in [Layers -> [started : BOOLEAN, held : Messages \cup {NoStart}]]
    BY <2>1 DEF OneAnswer, Typed
  <2> QED BY <2>1, <2>2, FailTyped, FailKeeps
<1> QED BY <1>1, <1>2, <1>3

\* Types of what moves.
LEMMA MovesTyped ==
    ASSUME OneAnswer, UNCHANGED <<config, phase, at, origin, gone, conn, past>>,
           layers' \in [Layers -> [started : BOOLEAN, held : Messages \cup {NoStart}]],
           response' \in Responses,
           flight' \in Seq([message : Messages, at : 0..(origin - 1)]),
           wire' \in [starts : Nat, coding : {"identity", "app", "codec"},
                      codings : SUBSET {"identity", "app", "codec"},
                      complete : BOOLEAN, late : BOOLEAN, closes : Nat]
    PROVE  Typed'
<1>1. Layers' = Layers /\ Inner' = Inner
  BY DEF Layers, Inner
<1> QED BY <1>1 DEF OneAnswer, Typed

\* A message moves one layer outwards.
LEMMA PassTyped ==
    ASSUME OneAnswer, NEW i \in Layers, Pass(i)
    PROVE  Typed'
<1> DEFINE m == flight[1].message
           x == [message |-> m, at |-> i - 1]
<1>1. flight # <<>> /\ Head(flight) = flight[1] /\ m \in Messages /\ flight[1].at = i /\ i \in 0..(origin - 1)
  BY UnderWayIs DEF Pass, Arrives
<1>2. Layers = 1..(Inner - 1) /\ Inner \in Nat /\ origin \in Nat
  BY Stack DEF OneAnswer, Typed
<1>3. x \in [message : Messages, at : 0..(origin - 1)]
  BY <1>1, <1>2
<1>4. flight' = <<x>> \o Tail(flight)
  BY <1>1 DEF Pass, Outward
<1>5. flight' \in Seq([message : Messages, at : 0..(origin - 1)])
  BY <1>1, <1>3, <1>4, Goes
<1>6. layers' \in [Layers -> [started : BOOLEAN, held : Messages \cup {NoStart}]]
  <2> DEFINE b == layers[i].started \/ (m.kind = "start" /\ Kind(i) \in {"server", "exception", "hook"})
  <2>1. layers' = [layers EXCEPT ![i].started = b] /\ b \in BOOLEAN
    BY <1>1 DEF Pass, OneAnswer, Typed
  <2> HIDE DEF b
  <2> QED BY <1>1, <2>1, LayerTyped DEF OneAnswer
<1>7. UNCHANGED <<config, phase, at, origin, response, gone, wire, conn, past>>
  BY DEF Pass
<1> QED BY <1>5, <1>6, <1>7, MovesTyped DEF OneAnswer, Typed

\* Compression holds a start back, releases it with the first chunk, or lets both pass.
LEMMA CompressTyped ==
    ASSUME OneAnswer, NEW i \in Layers, Compress(i)
    PROVE  Typed'
<1> DEFINE m == flight[1].message
           coded == [m EXCEPT !.coding = "codec"]
           held == layers[i].held
           out(s) == [message |-> s, at |-> i - 1]
           T == [message : Messages, at : 0..(origin - 1)]
<1>1. /\ flight # <<>> /\ Head(flight) = flight[1] /\ m \in Messages /\ flight[1].at = i /\ i \in 0..(origin - 1)
      /\ Kind(i) = "compression" /\ config.accepts
      /\ UNCHANGED <<config, phase, at, origin, response, gone, wire, conn, past>>
  BY UnderWayIs DEF Compress, Arrives
<1>2. Layers = 1..(Inner - 1) /\ Inner \in Nat /\ origin \in Nat
  BY Stack DEF OneAnswer, Typed
<1>3. coded \in Messages
  BY <1>1 DEF Messages
<1>4. \A s \in Messages : out(s) \in T
  BY <1>1, <1>2
<1>5. layers' \in [Layers -> [started : BOOLEAN, held : Messages \cup {NoStart}]]
  <2>1. \/ layers' = layers \/ layers' = [layers EXCEPT ![i].started = TRUE]
        \/ layers' = [layers EXCEPT ![i].held = m]
    BY <1>1 DEF Compress
  <2> HIDE DEF m
  <2>2. CASE layers' = layers
    BY <2>2 DEF OneAnswer, Typed
  <2> QED BY <1>1, <2>1, <2>2, LayerTyped DEF OneAnswer
<1>6. flight' \in Seq(T)
  <2>1. CASE flight' = Tail(flight)
    BY <1>1, <2>1, UnderWayIs
  <2>2. CASE flight' = <<out(coded)>> \o Tail(flight)
    <3>1. out(coded) \in T
      BY <1>3, <1>4
    <3> HIDE DEF out, coded
    <3> QED BY <1>1, <2>2, <3>1, Goes
  <2>3. CASE m.kind = "body" /\ ~layers[i].started
    <3>1. Holds(i) /\ Len(flight) = 1
      BY <1>1, <2>3, BodyFollows DEF Tracks
    <3>2. held \in Messages
      BY <3>1 DEF Holds, OneAnswer, Typed, NoStart
    <3>3. [held EXCEPT !.coding = "codec"] \in Messages
      BY <3>2 DEF Messages
    <3>4. \E s, b \in Messages : flight' = <<out(s), out(b)>> \o Tail(flight)
      BY <1>1, <1>3, <2>3, <3>2, <3>3 DEF Compress, Outward
    <3>5. PICK s \in Messages, b \in Messages : flight' = <<out(s), out(b)>> \o Tail(flight)
      BY <3>4
    <3>6. out(s) \in T /\ out(b) \in T
      BY <1>4
    <3> HIDE DEF out
    <3>7. flight' = <<out(s), out(b)>>
      BY <1>1, <3>1, <3>5, <3>6, Goes
    <3> HIDE DEF T
    <3> QED BY <3>6, <3>7
  <2> QED BY <1>1, <2>1, <2>2, <2>3 DEF Compress, Outward, Messages
<1> QED BY <1>1, <1>5, <1>6, MovesTyped DEF OneAnswer, Typed

\* The server takes the message that left the outermost layer.
LEMMA DeliverTyped ==
    ASSUME OneAnswer, Deliver, ~gone
    PROVE  Typed'
<1> DEFINE m == flight[1].message
<1>1. flight # <<>> /\ Head(flight) = flight[1] /\ m \in Messages
  BY UnderWayIs DEF Deliver, Arrives
<1>2. /\ UNCHANGED <<config, phase, at, origin, layers, response, gone, conn, past>>
      /\ flight' = Tail(flight)
      /\ \/ wire' = [wire EXCEPT !.starts = @ + 1, !.coding = m.coding, !.late = @ \/ wire.complete]
         \/ wire' = [wire EXCEPT !.codings = @ \cup {m.coding}, !.complete = ~m.more,
                                 !.late = @ \/ wire.complete \/ wire.starts = 0]
  BY <1>1 DEF Deliver
<1>3. m.coding \in {"identity", "app", "codec"} /\ m.more \in BOOLEAN
  BY <1>1 DEF Messages
<1>4. wire' \in [starts : Nat, coding : {"identity", "app", "codec"},
                 codings : SUBSET {"identity", "app", "codec"},
                 complete : BOOLEAN, late : BOOLEAN, closes : Nat]
  <2> DEFINE WireT == [starts : Nat, coding : {"identity", "app", "codec"},
                       codings : SUBSET {"identity", "app", "codec"},
                       complete : BOOLEAN, late : BOOLEAN, closes : Nat]
  <2>1. wire \in WireT
    BY DEF OneAnswer, Typed
  <2> DEFINE n == wire.starts + 1
             late == wire.late \/ wire.complete
             later == wire.late \/ wire.complete \/ wire.starts = 0
             more == ~m.more
             c == wire.codings \cup {m.coding}
  <2>2. /\ n \in Nat /\ late \in BOOLEAN /\ later \in BOOLEAN /\ more \in BOOLEAN
        /\ c \in SUBSET {"identity", "app", "codec"}
    BY <1>3, <2>1
  <2>3. \/ wire' = [wire EXCEPT !.starts = n, !.coding = m.coding, !.late = late]
        \/ wire' = [wire EXCEPT !.codings = c, !.complete = more, !.late = later]
    BY <1>2
  <2> HIDE DEF m, n, late, later, more, c
  <2>4. CASE wire' = [wire EXCEPT !.starts = n, !.coding = m.coding, !.late = late]
    BY <1>3, <2>1, <2>2, <2>4
  <2>5. CASE wire' = [wire EXCEPT !.codings = c, !.complete = more, !.late = later]
    BY <2>1, <2>2, <2>5
  <2> QED BY <2>3, <2>4, <2>5
<1>5. flight' \in Seq([message : Messages, at : 0..(origin - 1)])
  BY <1>1, <1>2, UnderWayIs
<1> QED BY <1>2, <1>4, <1>5, MovesTyped DEF OneAnswer, Typed

\* A response puts one message on its way.
LEMMA SendTyped ==
    ASSUME OneAnswer, Send
    PROVE  Typed'
<1>1. /\ response \in Responses /\ flight' = <<[message |-> Message(response), at |-> origin - 1]>>
      /\ response' = AfterMessage(response)
      /\ UNCHANGED <<config, phase, at, layers, origin, gone, wire, conn, past>>
  BY DEF Send, OneAnswer, Typed
<1>2. Message(response) \in Messages
  BY <1>1 DEF Message, Messages, Responses, Coding, Forms
<1>3. origin - 1 \in 0..(origin - 1)
  BY Stack DEF OneAnswer, Typed
<1>4. flight' \in Seq([message : Messages, at : 0..(origin - 1)])
  BY <1>1, <1>2, <1>3
<1>5. response' \in Responses
  <2>1. CASE response.left > 0 /\ response' = [response EXCEPT !.left = @ - 1]
    <3>1. response.left - 1 \in Nat
      BY <1>1, <2>1 DEF Responses
    <3> QED BY <1>1, <2>1, <3>1 DEF Responses
  <2>2. CASE response' = [response EXCEPT !.sent = "start"] \/ response' = [response EXCEPT !.sent = "all"]
    BY <1>1, <2>2 DEF Responses
  <2> QED BY <1>1, <2>1, <2>2 DEF AfterMessage
<1> QED BY <1>1, <1>4, <1>5, MovesTyped DEF OneAnswer, Typed

-----------------------------------------------------------------------------
(* Theorems *)

\* Every step keeps the account of the answer.
LEMMA StepKeeps ==
    ASSUME OneAnswer, Next
    PROVE  OneAnswer'
<1>1. CASE \/ Enter \/ EnterRaise \/ HandleRaise \/ ClientGoes \/ Return \/ ReturnRaises
           \/ Escape \/ Through \/ ThroughTelemetry
  BY <1>1, ControlQuiet, QuietKeeps DEF OneAnswer
<1>2. CASE \/ OnConnect \/ OnConnectRaises \/ ReceiveMessage \/ ReceiveDisconnect \/ OnReceive
           \/ OnReceiveCloses \/ OnDisconnect \/ CloseSocket
  BY <1>2, SocketQuiet, QuietKeeps DEF OneAnswer
<1>3. CASE EnterAnswer \/ Handle
  BY <1>3, AnswersKept DEF OneAnswer
<1>4. CASE ErrorHook \/ HandleException \/ ServerError
  BY <1>4, AnswersKept, ErrorsQuiet, QuietKeeps DEF OneAnswer
<1>5. CASE Send
  BY <1>5, SendKeeps, SendTyped DEF OneAnswer
<1>6. CASE ContentFails \/ (Deliver /\ gone) \/ \E i \in Layers : AfterRaises(i)
  BY <1>6, FailuresKept DEF OneAnswer
<1>7. CASE Deliver /\ ~gone
  BY <1>7, DeliverKeeps, DeliverTyped DEF OneAnswer, Deliver
<1>8. CASE Background
  BY <1>8, BackgroundQuiet, QuietKeeps DEF OneAnswer
<1>9. CASE \E i \in Layers : Pass(i)
  BY <1>9, PassKeeps, PassTyped DEF OneAnswer
<1>10. CASE \E i \in Layers : Compress(i)
  BY <1>10, CompressKeeps, CompressTyped DEF OneAnswer
<1> QED BY <1>1, <1>2, <1>3, <1>4, <1>5, <1>6, <1>7, <1>8, <1>9, <1>10 DEF Next

\* What every layer remembers agrees with what has gone past it, in every reachable state.
THEOREM Accounted == Spec => []OneAnswer
<1>1. Init => OneAnswer
  <2> SUFFICES ASSUME Init PROVE OneAnswer
    OBVIOUS
  <2>1. config \in [type : {"http", "websocket"}, accepts : BOOLEAN, stack : Stacks]
    BY DEF Init
  <2>2. Layers = 1..(Inner - 1) /\ Inner \in Nat /\ Inner > 2
    BY <2>1, Stack
  <2>3. \A i \in Layers : layers[i] = Untouched
    BY DEF Init, Untouched
  <2>4. Clear(Inner - 1)
    BY <2>2, <2>3 DEF Init, Clear
  <2>5. Typed
    <3>1. response \in Responses
      BY DEF Init, NoResponse, Responses, Forms
    <3>2. flight \in Seq([message : Messages, at : 0..(origin - 1)])
      BY DEF Init
    <3>3. layers \in [Layers -> [started : BOOLEAN, held : Messages \cup {NoStart}]]
      BY DEF Init
    <3>4. /\ wire \in [starts : Nat, coding : {"identity", "app", "codec"},
                       codings : SUBSET {"identity", "app", "codec"},
                       complete : BOOLEAN, late : BOOLEAN, closes : Nat]
          /\ conn \in [client : {"connecting", "connected", "disconnected"},
                       application : {"connecting", "connected", "disconnected"},
                       messages : Nat, hooks : Nat, connected : BOOLEAN]
          /\ past \in [background : {"none", "complete", "incomplete"}, swallowed : BOOLEAN]
      BY DEF Init
    <3>5. phase \in Phases /\ at \in Nat /\ origin \in 1..Inner /\ gone \in BOOLEAN
      <4>1. phase = "entering" /\ at = 1 /\ origin = Inner /\ gone = FALSE
        BY DEF Init
      <4>2. Inner \in 1..Inner
        BY <2>2
      <4> QED BY <4>1, <4>2 DEF Phases
    <3> QED BY <2>1, <3>1, <3>2, <3>3, <3>4, <3>5 DEF Typed
  <2>6. Guarded
    <3> SUFFICES ASSUME NEW i \in 1..(Inner - 1)
                 PROVE  Clear(i - 1) /\ \A n \in DOMAIN flight : flight[n].at >= i
      BY DEF Init, Guarded
    <3>1. Clear(i - 1)
      BY <2>2, <2>4 DEF Clear
    <3>2. DOMAIN flight = {}
      BY DEF Init
    <3> QED BY <3>1, <3>2
  <2>7. Positions
    BY <2>2, <2>4 DEF Init, Positions
  <2>8. SingleAnswer
    BY DEF Init, SingleAnswer
  <2> QED BY <2>5, <2>6, <2>7, <2>8 DEF OneAnswer
<1>2. OneAnswer /\ [Next]_vars => OneAnswer'
  <2> SUFFICES ASSUME OneAnswer, [Next]_vars PROVE OneAnswer'
    OBVIOUS
  <2>1. CASE Next
    BY <2>1, StepKeeps
  <2>2. CASE UNCHANGED vars
    <3>1. Quiet
      BY <2>2 DEF vars, Quiet, OneAnswer, Positions, SingleAnswer, Typed
    <3>2. Typed'
      BY <2>2 DEF vars, OneAnswer, Typed, Layers, Inner
    <3> QED BY <3>1, <3>2, QuietKeeps DEF OneAnswer
  <2> QED BY <2>1, <2>2
<1> QED BY <1>1, <1>2, PTL DEF Spec

\* Whatever the stack, and whatever raises and wherever, the server is sent at most one
\* start, no body before it and nothing after the last of them, and a background task runs
\* after the whole answer (the response_started flags of ServerErrorMiddleware,
\* ExceptionMiddleware and BaseHTTPMiddleware, CompressionMiddleware's held start).
THEOREM OneAnswerOnly == Spec => []SingleAnswer
BY Accounted, PTL DEF OneAnswer

-----------------------------------------------------------------------------
(* Both kinds of connection settle *)

\* A response ends when it has arrived whole, or on an OSError: of the client that has gone,
\* or of something else.
LEMMA ResponseSettles ==
    ASSUME OneAnswer, Settling,
           \/ Send \/ ContentFails \/ Deliver \/ Background
           \/ \E i \in Layers : Pass(i) \/ AfterRaises(i) \/ Compress(i)
    PROVE  Settling'
<1>1. /\ phase = "sending" /\ config' = config /\ conn' = conn /\ gone' = gone
      /\ Sending /\ IsHTTP /\ IsHTTP' /\ Typed
  BY DEF Send, ContentFails, Deliver, Background, Pass, AfterRaises, Compress, Arrives, OneAnswer,
         Positions, Settling, IsHTTP
<1>2. phase' \in {"sending", "answered", "raising"}
  BY <1>1 DEF Send, ContentFails, Deliver, Background, Pass, AfterRaises, Compress, Fail, Raise
<1>3. phase' = "answered" => wire'.complete \/ gone' \/ past'.swallowed
  <2>1. CASE Background
    BY <1>1, <2>1 DEF Background, Sending, Between
  <2>2. ASSUME NEW e \in {"handled", "unhandled", "oserror"}, Fail(e), phase' = "answered"
        PROVE  past'.swallowed
    <3>1. e = "oserror" /\ past' = [past EXCEPT !.swallowed = @ \/ e = "oserror"]
      BY <2>2 DEF Fail, Raise
    <3> QED BY <1>1, <3>1 DEF Typed
  <2>3. CASE ContentFails
    BY <2>2, <2>3 DEF ContentFails
  <2>4. CASE \E i \in Layers : AfterRaises(i)
    BY <2>2, <2>4 DEF AfterRaises
  <2>5. CASE Deliver
    BY <1>1, <2>5 DEF Deliver
  <2>6. CASE Send \/ \E i \in Layers : Pass(i) \/ Compress(i)
    BY <1>1, <2>6 DEF Send, Pass, Compress
  <2> QED BY <2>1, <2>3, <2>4, <2>5, <2>6
<1> QED BY <1>1, <1>2, <1>3 DEF Settling

\* On a WebSocket the endpoint is told of the end exactly when its on_connect succeeded.
LEMMA SocketSettles ==
    ASSUME OneAnswer, Settling,
           \/ OnConnect \/ OnConnectRaises \/ ReceiveMessage \/ ReceiveDisconnect \/ OnReceive
           \/ OnReceiveCloses \/ OnDisconnect \/ CloseSocket
    PROVE  Settling'
<1>1. ~IsHTTP /\ (~IsHTTP)' /\ config' = config /\ Typed
  BY DEF OnConnect, OnConnectRaises, ReceiveMessage, ReceiveDisconnect, OnReceive, OnReceiveCloses,
         OnDisconnect, CloseSocket, socketless, Settling, IsHTTP, OneAnswer
<1>2. CASE OnConnect
  <2>1. phase' = "receive" /\ conn'.connected = TRUE /\ conn'.hooks = conn.hooks
    BY <1>1, <1>2 DEF OnConnect, Socket, Typed
  <2>2. conn.hooks = 0
    BY <1>2 DEF OnConnect, Settling
  <2> QED BY <1>1, <2>1, <2>2 DEF Settling
<1>3. CASE OnConnectRaises
  <2>1. phase = "entering" /\ phase' = "raising" /\ conn' = conn
    BY <1>3 DEF OnConnectRaises, Raise
  <2> QED BY <1>1, <2>1 DEF Settling
<1>4. CASE ReceiveMessage \/ ReceiveDisconnect \/ OnReceive \/ OnReceiveCloses
  <2>1. /\ phase \in {"receive", "on_receive"} /\ phase' \in {"receive", "on_receive", "on_disconnect"}
        /\ conn'.connected = conn.connected /\ conn'.hooks = conn.hooks
    BY <1>1, <1>4 DEF ReceiveMessage, ReceiveDisconnect, OnReceive, OnReceiveCloses, Socket, Typed
  <2> QED BY <1>1, <2>1 DEF Settling
<1>5. CASE OnDisconnect
  <2>1. /\ phase = "on_disconnect" /\ phase' = "raising"
        /\ conn'.connected = conn.connected /\ conn'.hooks = conn.hooks + 1
    BY <1>1, <1>5 DEF OnDisconnect, Typed
  <2> QED BY <1>1, <2>1 DEF Settling
<1>6. CASE CloseSocket
  <2>1. phase = "raising" /\ phase' \in {"raising", "returned"} /\ conn' = conn
    BY <1>6 DEF CloseSocket, socketless
  <2> QED BY <1>1, <2>1 DEF Settling
<1> QED BY <1>2, <1>3, <1>4, <1>5, <1>6

\* The steps that send nothing keep the connection as settled as it was.
LEMMA ControlSettles ==
    ASSUME OneAnswer, Settling,
           \/ Enter \/ EnterAnswer \/ EnterRaise \/ HandleRaise \/ Handle \/ ClientGoes \/ Return
           \/ ReturnRaises \/ Escape \/ Through \/ ThroughTelemetry \/ ErrorHook \/ HandleException
           \/ ServerError
    PROVE  Settling'
<1>1. /\ UNCHANGED <<config, wire, conn, past>> /\ IsHTTP' = IsHTTP
  BY DEF Enter, EnterAnswer, EnterRaise, HandleRaise, Handle, ClientGoes, Return, ReturnRaises, Escape,
         Through, ThroughTelemetry, ErrorHook, HandleException, ServerError, IsHTTP
<1>2. CASE ClientGoes
  BY <1>1, <1>2 DEF ClientGoes, Settling
<1>3. CASE Return
  <2>1. phase = "answered" /\ phase' \in {"raised", "returned"} /\ gone' = gone
    BY <1>3 DEF Return
  <2> QED BY <1>1, <2>1 DEF Settling
<1>4. CASE ReturnRaises
  <2>1. phase = "answered" /\ phase' = "raising" /\ gone' = gone
    BY <1>4 DEF ReturnRaises, Raise
  <2> QED BY <1>1, <2>1 DEF Settling
<1>5. CASE Enter
  BY <1>1, <1>5 DEF Enter, Settling
<1>6. CASE EnterRaise \/ HandleRaise
  <2>1. phase = "entering" /\ phase' = "raising" /\ gone' = gone
    BY <1>6 DEF EnterRaise, HandleRaise, Raise
  <2> QED BY <1>1, <2>1 DEF Settling
<1>7. CASE EnterAnswer \/ Handle
  <2>1. phase = "entering" /\ phase' = "sending" /\ gone' = gone /\ IsHTTP
    BY <1>7 DEF EnterAnswer, Handle, Respond
  <2> QED BY <1>1, <2>1 DEF Settling
<1>8. CASE Escape \/ Through \/ ThroughTelemetry
  <2>1. phase = "raising" /\ phase' \in {"raising", "raised"} /\ gone' = gone
    BY <1>8 DEF Escape, Through, ThroughTelemetry, Outwards
  <2> QED BY <1>1, <2>1 DEF Settling
<1>9. CASE ErrorHook \/ HandleException \/ ServerError
  <2>1. phase = "raising" /\ phase' \in {"raising", "sending"} /\ gone' = gone /\ (phase' = "sending" => IsHTTP)
    BY <1>9 DEF ErrorHook, HandleException, ServerError, Outwards, Respond
  <2> QED BY <1>1, <2>1 DEF Settling
<1> QED BY <1>2, <1>3, <1>4, <1>5, <1>6, <1>7, <1>8, <1>9

\* A request that comes back without an exception was answered in full, unless its client
\* had gone or an OSError ended its response; an endpoint is told once, and only if its
\* on_connect succeeded, that its connection has ended (Response.__call__,
\* WebSocketEndpoint.dispatch).
THEOREM Settled == Spec => []ConnectionsSettle
<1>1. Init => Settling
  BY DEF Init, Settling
<1>2. OneAnswer /\ Settling /\ [Next]_vars => Settling'
  <2> SUFFICES ASSUME OneAnswer, Settling, [Next]_vars PROVE Settling'
    OBVIOUS
  <2>1. CASE Next
    BY <2>1, ResponseSettles, SocketSettles, ControlSettles DEF Next
  <2>2. CASE UNCHANGED vars
    BY <2>2 DEF vars, Settling, IsHTTP
  <2> QED BY <2>1, <2>2
<1>3. Settling => ConnectionsSettle
  BY DEF Settling, ConnectionsSettle, AnsweredOrRaised, DisconnectHookOnce, Ended
<1> QED BY <1>1, <1>2, <1>3, Accounted, PTL DEF Spec
=============================================================================
