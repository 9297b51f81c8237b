----------------------------- MODULE Requests -----------------------------
(* One connection through an application: the middleware stack (flama/middleware/, flama/debug/), the       *)
(* handler, the response it returns (flama/http/responses/) or the WebSocket endpoint it drives              *)
(* (flama/endpoints/, flama/http/requests/websocket.py). Every layer is a coroutine that awaits the next one *)
(* and wraps its send, so a message goes outwards layer by layer and an exception does the same.             *)
EXTENDS Naturals, Sequences, FiniteSets, SequencesExt

CONSTANTS
    Stacks,          \* the stacks of layers, outermost first, that may be configured
    MaxChunks,       \* chunks of a streamed body
    MaxMessages      \* messages a WebSocket client sends

ASSUME StacksAssumption ==
    \A s \in Stacks : /\ s \in Seq({"server", "exception", "hook", "compression", "cors", "telemetry"})
                      /\ Len(s) > 1 /\ s[1] = "server" /\ s[Len(s)] = "exception"
                      /\ \A i \in 2..(Len(s) - 1) : s[i] \in {"hook", "compression", "cors", "telemetry"}
ASSUME BoundsAssumption == MaxChunks \in Nat /\ MaxMessages \in Nat

VARIABLES
    config,          \* [type, accepts, stack]: the connection, whether compression is accepted, the layers
    phase,
    at,              \* the layer that control or an exception reaches next; the handler is one past the last
    layers,          \* what each layer's send wrapper remembers: response_started, the start it holds back
    origin,          \* the layer whose response is being sent
    response,
    flight,          \* the messages on their way out, each with the layer it reaches next
    exc,             \* the exception on its way out
    gone,            \* the client has gone: the server's send raises an OSError
    wire,            \* what the server was sent
    conn,            \* the WebSocket of the endpoint
    past             \* [background, swallowed]: how far the answer was when a background task ran,
                     \* and whether an OSError that was not the client's has ended a response

vars == <<config, phase, at, layers, origin, response, flight, exc, gone, wire, conn, past>>

Layers == DOMAIN config.stack
Inner == Len(config.stack) + 1
IsHTTP == config.type = "http"
Kind(i) == config.stack[i]

NoStart == [kind |-> "none"]
NoResponse == [stream |-> FALSE, left |-> 0, form |-> "plain", small |-> TRUE, background |-> FALSE, sent |-> "all"]
Plain == [NoResponse EXCEPT !.left = 1, !.sent = "nothing"]
Returned == [stream : {TRUE}, left : 0..MaxChunks, form : {"plain", "events", "encoded"}, small : {TRUE},
             background : BOOLEAN, sent : {"nothing"}]
            \cup [stream : {FALSE}, left : {1}, form : {"plain"}, small : BOOLEAN,
                  background : BOOLEAN, sent : {"nothing"}]

Init ==
    /\ config \in [type : {"http", "websocket"}, accepts : BOOLEAN, stack : Stacks]
    /\ phase = "entering"
    /\ at = 1
    /\ layers = [i \in Layers |-> [started |-> FALSE, held |-> NoStart]]
    /\ origin = Inner
    /\ response = NoResponse
    /\ flight = <<>>
    /\ exc = "none"
    /\ gone = FALSE
    /\ wire = [starts |-> 0, coding |-> "identity", codings |-> {}, complete |-> FALSE, late |-> FALSE, closes |-> 0]
    /\ conn = [client |-> "connecting", application |-> "connecting", messages |-> 0, hooks |-> 0, connected |-> FALSE]
    /\ past = [background |-> "none", swallowed |-> FALSE]
----------------------------------------------------------------------------
(* Control goes in. *)

Raise(e, layer) == exc' = e /\ phase' = "raising" /\ at' = layer

Respond(layer, r) == origin' = layer /\ response' = r /\ phase' = "sending"

Enter ==
    /\ phase = "entering" /\ at \in Layers
    /\ at' = at + 1
    /\ UNCHANGED <<config, phase, layers, origin, response, flight, exc, gone, wire, conn, past>>

(* A hook's before(), or a preflight request, is answered without going further in. *)
EnterAnswer ==
    /\ phase = "entering" /\ at \in Layers
    /\ IsHTTP /\ Kind(at) \in {"hook", "cors"}
    /\ Respond(at, Plain)
    /\ UNCHANGED <<config, at, layers, flight, exc, gone, wire, conn, past>>

EnterRaise ==
    /\ phase = "entering" /\ at \in Layers
    /\ (IsHTTP /\ Kind(at) = "hook") \/ Kind(at) = "telemetry"
    /\ Raise("unhandled", at - 1)
    /\ UNCHANGED <<config, layers, origin, response, flight, gone, wire, conn, past>>

(* The router finds no route, or the handler raises. *)
HandleRaise ==
    /\ phase = "entering" /\ at = Inner /\ IsHTTP
    /\ \E e \in {"handled", "unhandled", "oserror"} : Raise(e, at - 1)
    /\ UNCHANGED <<config, layers, origin, response, flight, gone, wire, conn, past>>

Handle ==
    /\ phase = "entering" /\ at = Inner /\ IsHTTP
    /\ \E r \in Returned : Respond(Inner, r)
    /\ UNCHANGED <<config, at, layers, flight, exc, gone, wire, conn, past>>
----------------------------------------------------------------------------
(* A response is sent. *)

Coding(r) == IF r.form = "encoded" THEN "app" ELSE "identity"

Message(r) ==
    [kind |-> IF r.sent = "nothing" THEN "start" ELSE "body", form |-> r.form, coding |-> Coding(r),
     small |-> r.small, more |-> r.stream /\ r.left > 0]

(* A buffered body is one message; a streamed one ends with an empty message. *)
AfterMessage(r) ==
    CASE r.sent = "nothing" -> [r EXCEPT !.sent = "start"]
      [] r.sent = "start" /\ r.stream /\ r.left > 0 -> [r EXCEPT !.left = @ - 1]
      [] OTHER -> [r EXCEPT !.sent = "all"]

Send ==
    /\ phase = "sending" /\ flight = <<>> /\ response.sent # "all"
    /\ flight' = <<[message |-> Message(response), at |-> origin - 1]>>
    /\ response' = AfterMessage(response)
    /\ UNCHANGED <<config, phase, at, layers, origin, exc, gone, wire, conn, past>>

(* Response.__call__: an OSError ends the response and its background, anything else is raised. *)
Fail(e) ==
    /\ flight' = <<>>
    /\ IF e \in {"oserror", "closed"}
       THEN /\ phase' = "answered"
            /\ past' = [past EXCEPT !.swallowed = @ \/ e = "oserror"]
            /\ UNCHANGED <<at, exc>>
       ELSE Raise(e, origin - 1) /\ UNCHANGED past

ContentFails ==
    /\ phase = "sending" /\ flight = <<>> /\ response.sent = "start" /\ response.stream /\ origin = Inner
    /\ \E e \in {"handled", "unhandled", "oserror"} : Fail(e)
    /\ UNCHANGED <<config, layers, origin, response, gone, wire, conn>>

Outward(message) == [message |-> message, at |-> Head(flight).at - 1]

Arrives(i) == phase = "sending" /\ flight # <<>> /\ Head(flight).at = i

(* The error middlewares note the start; BaseHTTPMiddleware notes it and then lets after() change it. *)
Pass(i) ==
    LET m == Head(flight).message
    IN  /\ Arrives(i)
        /\ Kind(i) # "compression" \/ ~config.accepts
        /\ layers' = [layers EXCEPT ![i].started = @ \/ (m.kind = "start" /\ Kind(i) \in {"server", "exception", "hook"})]
        /\ flight' = <<Outward(m)>> \o Tail(flight)
        /\ UNCHANGED <<config, phase, at, origin, response, exc, gone, wire, conn, past>>

AfterRaises(i) ==
    /\ Arrives(i)
    /\ Kind(i) = "hook" /\ Head(flight).message.kind = "start"
    /\ layers' = [layers EXCEPT ![i].started = TRUE]
    /\ Fail("unhandled")
    /\ UNCHANGED <<config, origin, response, gone, wire, conn>>

(* CompressionMiddleware._should_skip *)
Skips(start, body) == start.form \in {"encoded", "events"} \/ (body.small /\ ~body.more)

(* CompressionMiddleware holds the start until the first body, decides on it whether to compress, and codes *)
(* every body after the first.                                                                               *)
Compress(i) ==
    LET m == Head(flight).message
        held == layers[i].held
        coded == [m EXCEPT !.coding = "codec"]
        Release(start, body) == flight' = <<Outward(start), Outward(body)>> \o Tail(flight)
    IN  /\ Arrives(i)
        /\ Kind(i) = "compression" /\ config.accepts
        /\ \/ /\ m.kind = "start"
              /\ layers' = [layers EXCEPT ![i].held = m]
              /\ flight' = Tail(flight)
           \/ /\ m.kind = "body" /\ ~layers[i].started
              /\ layers' = [layers EXCEPT ![i].started = TRUE]
              /\ IF Skips(held, m) THEN Release(held, m) ELSE Release([held EXCEPT !.coding = "codec"], coded)
           \/ /\ m.kind = "body" /\ layers[i].started
              /\ layers' = layers
              /\ flight' = <<Outward(coded)>> \o Tail(flight)
        /\ UNCHANGED <<config, phase, at, origin, response, exc, gone, wire, conn, past>>

(* The server takes the message, or raises because its client has gone. *)
Deliver ==
    LET m == Head(flight).message
    IN  /\ Arrives(0)
        /\ IF gone THEN Fail("closed") /\ UNCHANGED wire
           ELSE /\ wire' = IF m.kind = "start"
                           THEN [wire EXCEPT !.starts = @ + 1, !.coding = m.coding, !.late = @ \/ wire.complete]
                           ELSE [wire EXCEPT !.codings = @ \cup {m.coding}, !.complete = ~m.more,
                                             !.late = @ \/ wire.complete \/ wire.starts = 0]
                /\ flight' = Tail(flight)
                /\ UNCHANGED <<phase, at, exc, past>>
        /\ UNCHANGED <<config, layers, origin, response, gone, conn>>

ClientGoes ==
    /\ ~gone /\ phase # "returned" /\ phase # "raised"
    /\ gone' = TRUE
    /\ UNCHANGED <<config, phase, at, layers, origin, response, flight, exc, wire, conn, past>>

(* The response is sent: its background runs, and may raise. *)
Background ==
    /\ phase = "sending" /\ flight = <<>> /\ response.sent = "all"
    /\ IF response.background
       THEN /\ past' = [past EXCEPT !.background = IF wire.complete THEN "complete" ELSE "incomplete"]
            /\ \/ phase' = "answered" /\ UNCHANGED <<at, exc>>
               \/ \E e \in {"handled", "unhandled"} : Raise(e, origin - 1)
       ELSE phase' = "answered" /\ UNCHANGED <<at, exc, past>>
    /\ UNCHANGED <<config, layers, origin, response, flight, gone, wire, conn>>

(* Control returns; ServerErrorMiddleware raises again what it answered. *)
Return ==
    /\ phase = "answered"
    /\ phase' = IF origin = 1 THEN "raised" ELSE "returned"
    /\ UNCHANGED <<config, at, layers, origin, response, flight, exc, gone, wire, conn, past>>

(* The after hook of the telemetry raises. *)
ReturnRaises ==
    /\ phase = "answered"
    /\ \E i \in 2..(origin - 1) : i \in Layers /\ Kind(i) = "telemetry" /\ Raise("unhandled", i - 1)
    /\ UNCHANGED <<config, layers, origin, response, flight, gone, wire, conn, past>>
----------------------------------------------------------------------------
(* An exception goes out: it has reached layer at. *)

Outwards == phase' = "raising" /\ at' = at - 1 /\ UNCHANGED <<origin, response>>

Escape ==
    /\ phase = "raising" /\ at = 0
    /\ phase' = "raised"
    /\ UNCHANGED <<config, at, layers, origin, response, flight, exc, gone, wire, conn, past>>

Through ==
    /\ phase = "raising" /\ at \in Layers
    /\ Kind(at) \in {"compression", "cors"} \/ (Kind(at) = "hook" /\ ~IsHTTP)
    /\ Outwards
    /\ UNCHANGED <<config, layers, flight, exc, gone, wire, conn, past>>

(* The telemetry's after hook runs in a finally: what it raises takes the exception's place. *)
ThroughTelemetry ==
    /\ phase = "raising" /\ at \in Layers /\ Kind(at) = "telemetry"
    /\ exc' \in {exc, "unhandled"}
    /\ Outwards
    /\ UNCHANGED <<config, layers, flight, gone, wire, conn, past>>

ErrorHook ==
    /\ phase = "raising" /\ at \in Layers /\ Kind(at) = "hook" /\ IsHTTP
    /\ \/ ~layers[at].started /\ Respond(at, Plain) /\ exc' = "none" /\ UNCHANGED at
       \/ exc' \in {exc, "unhandled"} /\ Outwards
    /\ UNCHANGED <<config, layers, flight, gone, wire, conn, past>>

(* Mutant of HandleException: it answers also when a response has started. *)
HandleAnyException ==
    /\ phase = "raising" /\ at \in Layers /\ Kind(at) = "exception" /\ IsHTTP
    /\ \/ exc = "handled" /\ Respond(at, Plain) /\ exc' = "none" /\ UNCHANGED at
       \/ exc = "handled" /\ exc' = "unhandled" /\ Outwards
       \/ exc # "handled" /\ UNCHANGED exc /\ Outwards
    /\ UNCHANGED <<config, layers, flight, gone, wire, conn, past>>

(* ExceptionMiddleware: an exception with a handler is answered by it unless a response has started, which  *)
(* makes it a RuntimeError; one without goes on.                                                             *)
HandleException ==
    /\ phase = "raising" /\ at \in Layers /\ Kind(at) = "exception" /\ IsHTTP
    /\ \/ /\ exc = "handled" /\ ~layers[at].started
          /\ \/ Respond(at, Plain) /\ exc' = "none" /\ UNCHANGED at
             \/ exc' = "unhandled" /\ Outwards
       \/ /\ exc = "handled" /\ layers[at].started
          /\ exc' = "unhandled" /\ Outwards
       \/ exc # "handled" /\ UNCHANGED exc /\ Outwards
    /\ UNCHANGED <<config, layers, flight, gone, wire, conn, past>>

(* ServerErrorMiddleware: 500 unless a response has started, and the exception in any case. *)
ServerError ==
    /\ phase = "raising" /\ at \in Layers /\ Kind(at) = "server"
    /\ IF IsHTTP /\ ~layers[at].started
       THEN Respond(at, Plain) /\ UNCHANGED at
       ELSE Outwards
    /\ UNCHANGED <<config, layers, flight, exc, gone, wire, conn, past>>
----------------------------------------------------------------------------
(* The WebSocket endpoint: on_connect, then receive and on_receive until something is raised, on_disconnect. *)

Socket(phaseAfter) == phase' = phaseAfter /\ UNCHANGED at
socketless == <<config, layers, origin, response, flight, gone, past>>

(* WebSocket.accept takes the client's connect message first; a handler that rejects leaves it unread. *)
OnConnect ==
    /\ phase = "entering" /\ at = Inner /\ ~IsHTTP
    /\ \/ conn' = [conn EXCEPT !.client = "connected", !.application = "connected", !.connected = TRUE] /\ UNCHANGED wire
       \/ /\ conn' = [conn EXCEPT !.application = "disconnected", !.connected = TRUE]
          /\ wire' = [wire EXCEPT !.closes = @ + 1]
    /\ Socket("receive")
    /\ UNCHANGED <<exc, socketless>>

(* No route, or the hook raises: what follows it in dispatch, on_disconnect included, is not reached. *)
OnConnectRaises ==
    /\ phase = "entering" /\ at = Inner /\ ~IsHTTP
    /\ \E e \in {"handled", "unhandled", "websocket"} : Raise(e, at - 1)
    /\ UNCHANGED <<conn, wire, socketless>>

ReceiveMessage ==
    /\ phase = "receive" /\ conn.client # "disconnected" /\ conn.messages < MaxMessages
    /\ conn' = [conn EXCEPT !.client = "connected", !.messages = @ + 1]
    /\ Socket("on_receive")
    /\ UNCHANGED <<exc, wire, socketless>>

ReceiveDisconnect ==
    /\ phase = "receive" /\ conn.client = "connected"
    /\ conn' = [conn EXCEPT !.client = "disconnected"]
    /\ exc' = "websocket"
    /\ Socket("on_disconnect")
    /\ UNCHANGED <<wire, socketless>>

(* Mutant of OnReceive: what the handler raises skips on_disconnect. *)
OnReceiveUnguarded ==
    /\ phase = "on_receive"
    /\ \/ UNCHANGED <<conn, exc>> /\ Socket("receive")
       \/ /\ exc' \in {"handled", "unhandled", "websocket"}
          /\ UNCHANGED conn /\ phase' = "raising" /\ at' = Inner - 1
    /\ UNCHANGED <<wire, socketless>>

(* What the hook sends is sent while the socket is connected: a lost client is a disconnect, a socket that   *)
(* was closed or never accepted raises.                                                                      *)
OnReceive ==
    /\ phase = "on_receive"
    /\ \/ UNCHANGED <<conn, exc>> /\ Socket("receive")
       \/ /\ conn.application = "connected" /\ gone
          /\ conn' = [conn EXCEPT !.application = "disconnected"]
          /\ exc' = "websocket" /\ Socket("on_disconnect")
       \/ /\ conn.application = "disconnected"
          /\ exc' = "unhandled" /\ UNCHANGED conn /\ Socket("on_disconnect")
       \/ /\ exc' \in {"handled", "unhandled", "websocket"}
          /\ UNCHANGED conn /\ Socket("on_disconnect")
    /\ UNCHANGED <<wire, socketless>>

OnReceiveCloses ==
    /\ phase = "on_receive" /\ conn.application = "connected" /\ ~gone
    /\ conn' = [conn EXCEPT !.application = "disconnected"]
    /\ wire' = [wire EXCEPT !.closes = @ + 1]
    /\ Socket("receive")
    /\ UNCHANGED <<exc, socketless>>

(* The hook runs in a finally: by default it closes, and what it raises takes the exception's place. *)
OnDisconnect ==
    /\ phase = "on_disconnect"
    /\ \/ UNCHANGED <<wire, exc>> /\ conn' = [conn EXCEPT !.hooks = @ + 1]
       \/ /\ conn.application = "connected" /\ ~gone
          /\ conn' = [conn EXCEPT !.hooks = @ + 1, !.application = "disconnected"]
          /\ wire' = [wire EXCEPT !.closes = @ + 1]
          /\ UNCHANGED exc
       \/ /\ conn.application = "disconnected" \/ gone
          /\ conn' = [conn EXCEPT !.hooks = @ + 1, !.application = "disconnected"]
          /\ exc' = IF conn.application = "disconnected" THEN "unhandled" ELSE "websocket"
          /\ UNCHANGED wire
    /\ phase' = "raising" /\ at' = Inner - 1
    /\ UNCHANGED socketless

(* ExceptionMiddleware closes with a socket of its own, which knows nothing of the endpoint's. *)
CloseSocket ==
    /\ phase = "raising" /\ at \in Layers /\ Kind(at) = "exception" /\ ~IsHTTP
    /\ IF exc = "websocket" /\ ~gone
       THEN wire' = [wire EXCEPT !.closes = @ + 1] /\ exc' = "none" /\ phase' = "returned" /\ UNCHANGED at
       ELSE exc' = "unhandled" /\ at' = at - 1 /\ UNCHANGED <<phase, wire>>
    /\ UNCHANGED <<conn, socketless>>
----------------------------------------------------------------------------
Next ==
    \/ Enter \/ EnterAnswer \/ EnterRaise \/ HandleRaise \/ Handle
    \/ Send \/ ContentFails \/ Deliver \/ Background \/ Return \/ ReturnRaises
    \/ \E i \in Layers : Pass(i) \/ AfterRaises(i) \/ Compress(i)
    \/ ClientGoes
    \/ Escape \/ Through \/ ThroughTelemetry \/ ErrorHook \/ HandleException \/ ServerError
    \/ OnConnect \/ OnConnectRaises \/ ReceiveMessage \/ ReceiveDisconnect \/ OnReceive \/ OnReceiveCloses
    \/ OnDisconnect \/ CloseSocket

Spec == Init /\ [][Next]_vars
----------------------------------------------------------------------------
Ended == phase \in {"returned", "raised"}

(* Whatever raises and wherever, the server is given one answer: one start, bodies after it, nothing after   *)
(* the last of them; and a background task runs once the answer it belongs to has reached the server whole.  *)
SingleAnswer == wire.starts <= 1 /\ ~wire.late /\ past.background # "incomplete"

(* A request that comes back without an exception has been answered in full, or its client has gone, or an  *)
(* OSError of the content or of a hook was taken for the client's.                                           *)
AnsweredOrRaised == IsHTTP /\ phase = "returned" => wire.complete \/ gone \/ past.swallowed

(* An endpoint whose on_connect succeeded is told of the end of the connection, once, whatever ends it. *)
DisconnectHookOnce == ~IsHTTP /\ Ended => conn.hooks = (IF conn.connected THEN 1 ELSE 0)

(* Both kinds of connection are brought to their end: a request by its answer, a websocket by its hook. *)
ConnectionsSettle == AnsweredOrRaised /\ DisconnectHookOnce

(* Every body is coded the way the start announced it. *)
CodedAsAnnounced == wire.codings \subseteq {wire.coding}
=============================================================================
