--------------------------- MODULE LifespanProofs ---------------------------
(***************************************************************************)
(* Theorems about Lifespan for any number of modules and any mounts, two   *)
(* mounts of one application included. IndInv: a call in its phases holds  *)
(* the lock of an application that has not failed; the lock excludes and   *)
(* failure is final. Life, on top of it: what is up in an application at   *)
(* each stage of the call that works on it (Staged), what its status says  *)
(* when none does (Settled), and where the mounts stand relative to the    *)
(* root (Family), whether a TaskGroup or asyncio.wait joins them; the      *)
(* status tells the truth and lifetimes nest.                              *)
(***************************************************************************)
EXTENDS Lifespan, TLAPS

Busy(c) == pc[c] \in Phases

Shape ==
    /\ status \in [Apps -> Status]
    /\ lock \in [Apps -> Calls \cup {Free}]
    /\ pc \in [Calls -> Phases \cup {"idle", "locking", "returned"}]
    /\ message \in {"startup", "shutdown"}
    /\ mounted \subseteq Mounts

Held == \A c \in Calls : Busy(c) => lock[AppOf(c)] = c /\ status[AppOf(c)] # "FAILED"

IndInv == Shape /\ Held

\* What a step of a call may do to the calls and to the applications: others
\* than its own are untouched, but for the idle calls a propagation starts.
Local(c) ==
    /\ \A a \in Apps \ {AppOf(c)} : lock'[a] = lock[a] /\ status'[a] = status[a]
    /\ \A d \in Calls \ {c} : pc'[d] = pc[d] \/ pc'[d] = "locking"
    /\ message' = message

-----------------------------------------------------------------------------
(* Lemmas about the steps of a call *)

\* The phase after a phase.
LEMMA AfterIsPhase ==
    ASSUME NEW phase \in Phases \cup {"begin"}
    PROVE  /\ After(phase) \in Phases \cup {"complete"}
           /\ After("begin") \in Phases
BY DEF After, AfterStartup, AfterShutdown, Phases, Hooks

\* An advance keeps the lock and the status, or completes and releases.
LEMMA AdvanceIsLocal ==
    ASSUME Shape, NEW c \in Calls, NEW phase \in Phases, Advance(c, phase), message' = message,
           mounted' = mounted
    PROVE  /\ Shape' /\ Local(c)
           /\ \/ lock' = lock /\ status' = status
              \/ pc'[c] = "returned" /\ status'[AppOf(c)] # "FAILED"
<1>1. AppOf(c) \in Apps /\ Free \in Calls \cup {Free}
  BY DEF Apps
<1>2. CASE After(phase) # "complete"
  <2>1. pc' = [pc EXCEPT ![c] = After(phase)] /\ UNCHANGED <<status, lock>>
    BY <1>2 DEF Advance
  <2>2. After(phase) \in Phases
    BY <1>2, AfterIsPhase
  <2> QED BY <2>1, <2>2 DEF Shape, Local
<1>3. CASE After(phase) = "complete"
  <2> DEFINE done == IF message = "startup" THEN "READY" ELSE "SHUT_DOWN"
  <2>1. /\ pc' = [pc EXCEPT ![c] = "returned"]
        /\ status' = [status EXCEPT ![AppOf(c)] = done]
        /\ lock' = [lock EXCEPT ![AppOf(c)] = Free]
    BY <1>3 DEF Advance
  <2>2. done \in Status /\ done # "FAILED"
    BY DEF Status
  <2> HIDE DEF done
  <2> QED BY <1>1, <2>1, <2>2 DEF Shape, Local
<1> QED BY <1>2, <1>3

\* A failing call returns, and its application has failed.
LEMMA FailIsLocal ==
    ASSUME Shape, NEW c \in Calls, Fail(c)
    PROVE  /\ Shape' /\ Local(c)
           /\ pc'[c] = "returned" /\ status'[AppOf(c)] = "FAILED"
<1>1. AppOf(c) \in Apps
  BY DEF Apps
<1>2. /\ pc' = [pc EXCEPT ![c] = "returned"]
      /\ lock' = [lock EXCEPT ![AppOf(c)] = IF @ = c THEN Free ELSE @]
      /\ status' = [status EXCEPT ![AppOf(c)] = "FAILED"]
      /\ message' = message /\ mounted' = mounted
  BY DEF Fail, Return, server, site
<1>3. lock' \in [Apps -> Calls \cup {Free}]
  BY <1>1, <1>2 DEF Shape
<1> QED BY <1>1, <1>2, <1>3 DEF Shape, Local, Status

\* A call whose step is local and keeps Held for itself keeps it for all, if it
\* held the lock before or nobody did.
LEMMA LocalKeepsHeld ==
    ASSUME IndInv, NEW c \in Calls, Shape', Local(c),
           \/ lock' = lock /\ status' = status /\ (Busy(c)' => Busy(c))
           \/ Busy(c) /\ pc'[c] = "returned"
           \/ lock[AppOf(c)] = Free /\ lock'[AppOf(c)] = c /\ status'[AppOf(c)] # "FAILED"
    PROVE  Held'
<1> SUFFICES ASSUME NEW d \in Calls, Busy(d)'
             PROVE  lock'[AppOf(d)] = d /\ status'[AppOf(d)] # "FAILED"
  BY DEF Held, Busy
<1>1. AppOf(d) \in Apps /\ AppOf(c) \in Apps
  BY DEF Apps
<1>2. ASSUME d # c
      PROVE  Busy(d) /\ lock[AppOf(d)] = d /\ status[AppOf(d)] # "FAILED"
  BY <1>2 DEF Local, Busy, IndInv, Held, Phases, Hooks
<1>3. Free \notin Calls
  BY FreeAssumption DEF Free
<1>4. CASE lock' = lock /\ status' = status /\ (Busy(c)' => Busy(c))
  BY <1>2, <1>4 DEF IndInv, Held
<1>5. CASE Busy(c) /\ pc'[c] = "returned"
  <2>1. d # c
    BY <1>5 DEF Busy, Phases, Hooks
  <2>2. AppOf(d) # AppOf(c)
    BY <1>2, <1>5, <2>1 DEF IndInv, Held
  <2> QED BY <1>1, <1>2, <2>1, <2>2 DEF Local
<1>6. CASE lock[AppOf(c)] = Free /\ lock'[AppOf(c)] = c /\ status'[AppOf(c)] # "FAILED"
  <2>1. CASE d = c
    BY <1>6, <2>1
  <2>2. CASE d # c
    <3>1. AppOf(d) # AppOf(c)
      BY <1>2, <1>3, <1>6, <2>2
    <3> QED BY <1>1, <1>2, <2>2, <3>1 DEF Local
  <2> QED BY <2>1, <2>2
<1> QED BY <1>4, <1>5, <1>6

\* An action that only advances its call through a phase.
LEMMA AdvanceKeeps ==
    ASSUME IndInv, NEW c \in Calls, NEW phase \in Phases, pc[c] = phase,
           Advance(c, phase), message' = message,
           mounted' = mounted
    PROVE  IndInv'
<1>1. Shape' /\ Local(c) /\ ((lock' = lock /\ status' = status) \/ pc'[c] = "returned")
  BY AdvanceIsLocal DEF IndInv
<1>2. Busy(c)
  BY DEF Busy
<1>3. Held'
  BY <1>1, <1>2, LocalKeepsHeld
<1> QED BY <1>1, <1>3 DEF IndInv

\* A failure ends its call and releases its lock.
LEMMA FailKeeps ==
    ASSUME IndInv, NEW c \in Calls, Busy(c), Fail(c)
    PROVE  IndInv'
<1>1. Shape' /\ Local(c) /\ pc'[c] = "returned"
  BY FailIsLocal DEF IndInv
<1> QED BY <1>1, LocalKeepsHeld DEF IndInv

-----------------------------------------------------------------------------

\* Taking the lock and looking at the status.
LEMMA BeginKeeps ==
    ASSUME IndInv, NEW c \in Calls, Begin(c)
    PROVE  IndInv' /\ \A a \in Apps : status[a] = "FAILED" => status'[a] = "FAILED"
<1> DEFINE a == AppOf(c)
<1>1. a \in Apps /\ pc[c] = "locking" /\ lock[a] = Free /\ message' = message /\ mounted' = mounted
  BY DEF Apps, Begin, server, site
<1>2. CASE Accepts(status[a])
  <2> DEFINE going == IF message = "startup" THEN "STARTING" ELSE "SHUTTING_DOWN"
  <2>1. /\ pc' = [pc EXCEPT ![c] = After("begin")]
        /\ lock' = [lock EXCEPT ![a] = c]
        /\ status' = [status EXCEPT ![a] = going]
    BY <1>2 DEF Begin
  <2>2. After("begin") \in Phases /\ going \in Status /\ going # "FAILED"
    BY AfterIsPhase DEF Status
  <2>3. status[a] # "FAILED"
    BY <1>2 DEF Accepts
  <2> HIDE DEF going, a
  <2>4. Shape'
    BY <1>1, <2>1, <2>2 DEF Shape, IndInv
  <2>5. lock'[a] = c /\ status'[a] = going
        /\ \A b \in Apps \ {a} : lock'[b] = lock[b] /\ status'[b] = status[b]
    BY <1>1, <2>1 DEF Shape, IndInv
  <2>6. Local(c)
    BY <1>1, <2>1, <2>5 DEF Local, a, Shape, IndInv
  <2>7. Held'
    BY <1>1, <2>2, <2>4, <2>5, <2>6, LocalKeepsHeld DEF a
  <2> QED BY <2>3, <2>4, <2>5, <2>7 DEF IndInv
<1>3. CASE ~Accepts(status[a])
  <2>1. /\ pc' = [pc EXCEPT ![c] = "returned"]
        /\ lock' = [lock EXCEPT ![a] = IF @ = c THEN Free ELSE @]
        /\ status' = status
    BY <1>3 DEF Begin, Return
  <2>2. lock' = lock
    BY <1>1, <2>1 DEF IndInv, Shape
  <2>3. Shape' /\ Local(c) /\ ~Busy(c)'
    BY <1>1, <2>1, <2>2 DEF IndInv, Shape, Local, Busy, Phases, Hooks
  <2>4. Held'
    BY <2>1, <2>2, <2>3, LocalKeepsHeld
  <2> QED BY <2>1, <2>3, <2>4 DEF IndInv
<1> QED BY <1>2, <1>3

\* A step that is neither a beginning nor a failure leaves a failed application
\* as it is.
FinalHere == \A a \in Apps : status[a] = "FAILED" => status'[a] = "FAILED"

\* An advance of another call leaves a failed application failed, and no call
\* of a failed application advances.
LEMMA AdvanceIsFinal ==
    ASSUME IndInv, NEW c \in Calls, NEW phase \in Phases, pc[c] = phase,
           Advance(c, phase), message' = message,
           mounted' = mounted
    PROVE  FinalHere
<1>1. Busy(c) /\ status[AppOf(c)] # "FAILED"
  BY DEF Busy, IndInv, Held
<1>2. \A a \in Apps \ {AppOf(c)} : status'[a] = status[a]
  BY AdvanceIsLocal DEF IndInv, Local
<1> QED BY <1>1, <1>2 DEF FinalHere

\* A failure can only add to the failed applications.
LEMMA FailIsFinal ==
    ASSUME IndInv, NEW c \in Calls, Fail(c)
    PROVE  FinalHere
<1>1. /\ status'[AppOf(c)] = "FAILED"
      /\ \A a \in Apps \ {AppOf(c)} : status'[a] = status[a]
  BY FailIsLocal DEF IndInv, Local
<1> QED BY <1>1 DEF FinalHere

\* Every step keeps the inductive invariant and every failure.
LEMMA StepKeeps ==
    ASSUME IndInv, [Next]_vars
    PROVE  IndInv' /\ FinalHere
<1>1. ASSUME NEW c \in Calls, Step(c)
      PROVE  IndInv' /\ FinalHere
  <2>1. CASE Begin(c)
    BY <2>1, BeginKeeps DEF FinalHere
  <2>2. CASE ModuleHook(c)
    <3>1. message' = message /\ mounted' = mounted /\ pc[c] = "modules" /\ pc[c] \in Phases
      BY <2>2 DEF ModuleHook, server, site, Phases, Hooks
    <3>2. CASE UNCHANGED <<status, lock, pc, outcome>>
      BY <3>1, <3>2 DEF IndInv, Shape, Held, Busy, FinalHere
    <3>3. CASE Advance(c, "modules")
      BY <3>1, <3>3, AdvanceKeeps, AdvanceIsFinal
    <3> QED BY <2>2, <3>2, <3>3 DEF ModuleHook
  <2>3. CASE MiddlewareHook(c)
    <3>1. message' = message /\ mounted' = mounted /\ pc[c] = "middleware" /\ pc[c] \in Phases
          /\ Advance(c, "middleware")
      BY <2>3 DEF MiddlewareHook, server, site, Phases, Hooks
    <3> QED BY <3>1, AdvanceKeeps, AdvanceIsFinal
  <2>4. CASE Handlers(c)
    <3>1. message' = message /\ mounted' = mounted /\ pc[c] = "handlers" /\ pc[c] \in Phases
          /\ Advance(c, "handlers")
      BY <2>4 DEF Handlers, server, site, Phases, Hooks
    <3> QED BY <3>1, AdvanceKeeps, AdvanceIsFinal
  <2>5. CASE Context(c)
    <3>1. message' = message /\ mounted' = mounted /\ pc[c] = "context" /\ pc[c] \in Phases
          /\ Advance(c, "context")
      BY <2>5 DEF Context, server, site, Phases, Hooks
    <3> QED BY <3>1, AdvanceKeeps, AdvanceIsFinal
  <2>6. CASE HookFails(c)
    <3>1. Busy(c) /\ Fail(c)
      BY <2>6 DEF HookFails, Busy, Phases
    <3> QED BY <3>1, FailKeeps, FailIsFinal
  <2>7. CASE Propagate(c)
    <3>1. /\ pc' = [x \in Calls |-> IF x \in Spawned(c) THEN "locking" ELSE pc[x]]
          /\ UNCHANGED <<status, lock, message, mounted>>
      BY <2>7 DEF Propagate, server, site
    <3>2. Shape'
      BY <3>1 DEF IndInv, Shape
    <3>3. \A d \in Calls : Busy(d)' => Busy(d)
      BY <3>1 DEF Busy, Phases, Hooks
    <3> QED BY <3>1, <3>2, <3>3 DEF IndInv, Held, FinalHere
  <2>8. CASE Join(c)
    <3>1. pc[c] = "children" /\ pc[c] \in Phases
      BY <2>8 DEF Join, Phases
    <3>2. CASE Fail(c)
      BY <3>1, <3>2, FailKeeps, FailIsFinal DEF Busy
    <3>3. CASE Advance(c, "children") /\ UNCHANGED <<world, server>>
      BY <3>1, <3>3, AdvanceKeeps, AdvanceIsFinal DEF server, site
    <3> QED BY <2>8, <3>2, <3>3 DEF Join
  <2> QED BY <1>1, <2>1, <2>2, <2>3, <2>4, <2>5, <2>6, <2>7, <2>8 DEF Step
<1>2. ASSUME NEW m \in mounted, Cancel(m)
      PROVE  IndInv' /\ FinalHere
  <2>1. m \in Calls
    BY DEF Calls, IndInv, Shape
  <2>2. CASE pc[m] = "locking" /\ Return(m) /\ UNCHANGED <<status, world, server>>
    <3>1. AppOf(m) \in Apps /\ ~Busy(m)
      BY <2>1, <2>2 DEF Apps, Busy, Phases, Hooks
    <3>2. /\ pc' = [pc EXCEPT ![m] = "returned"]
          /\ lock' = [lock EXCEPT ![AppOf(m)] = IF @ = m THEN Free ELSE @]
          /\ UNCHANGED <<status, message, mounted>>
      BY <2>2 DEF Return, server, site
    <3>3. Shape'
      BY <2>1, <3>1, <3>2 DEF IndInv, Shape
    <3>4. \A d \in Calls : Busy(d)' => Busy(d) /\ d # m
      BY <2>1, <3>2 DEF Busy, Phases, Hooks, IndInv, Shape
    <3>5. \A d \in Calls : Busy(d) => lock[AppOf(d)] = d /\ status[AppOf(d)] # "FAILED"
      BY DEF IndInv, Held
    <3>6. ASSUME NEW d \in Calls, Busy(d)'
          PROVE  lock'[AppOf(d)] = d /\ status'[AppOf(d)] # "FAILED"
      <4>1. AppOf(d) \in Apps /\ d # m /\ lock[AppOf(d)] = d /\ status[AppOf(d)] # "FAILED"
        BY <3>4, <3>5, <3>6 DEF Apps
      <4> QED BY <3>1, <3>2, <4>1 DEF IndInv, Shape
    <3>7. Held'
      BY <3>6 DEF Held, Busy
    <3> QED BY <3>2, <3>3, <3>7 DEF IndInv, FinalHere
  <2>3. CASE pc[m] \in Phases /\ Fail(m)
    BY <2>1, <2>3, FailKeeps, FailIsFinal DEF Busy
  <2> QED BY <1>2, <2>2, <2>3 DEF Cancel
<1>3. ASSUME NEW kind \in {"startup", "shutdown"}, Send(kind)
      PROVE  IndInv' /\ FinalHere
  <2>1. /\ pc' = [c \in Calls |-> IF c = Root THEN "locking" ELSE "idle"]
        /\ message' = kind /\ UNCHANGED <<status, lock, mounted>>
    BY <1>3 DEF Send, site
  <2>2. Shape'
    BY <2>1 DEF IndInv, Shape
  <2>3. \A d \in Calls : ~Busy(d)'
    BY <2>1 DEF Busy, Phases, Hooks
  <2> QED BY <2>1, <2>2, <2>3 DEF IndInv, Held, FinalHere
<1>4. CASE UNCHANGED vars
  BY <1>4 DEF vars, server, site, IndInv, Shape, Held, Busy, FinalHere
<1> QED BY <1>1, <1>2, <1>3, <1>4 DEF Next

\* Every reachable state satisfies the inductive invariant.
THEOREM Inductive == Spec => []IndInv
<1>1. Init => IndInv
  BY TreesAssumption DEF Init, IndInv, Shape, Held, Busy, Status, Phases, Hooks
<1>2. IndInv /\ [Next]_vars => IndInv'
  BY StepKeeps
<1> QED BY <1>1, <1>2, PTL DEF Spec

\* Two calls about one application never run its hooks at the same time, even
\* when it is mounted twice (Lifespan.lock).
THEOREM LockExcludes == Spec => []OneAtATime
<1>1. IndInv => OneAtATime
  BY DEF IndInv, Held, Busy, OneAtATime
<1> QED BY <1>1, Inductive, PTL

\* No message, hook, child or cancellation brings a failed application back.
THEOREM FailureIsFinal == Spec => FailedIsFinal
<1>1. IndInv /\ [Next]_vars => [\A a \in Apps : status[a] = "FAILED" => status'[a] = "FAILED"]_vars
  BY StepKeeps DEF FinalHere
<1> QED BY <1>1, Inductive, PTL DEF Spec, FailedIsFinal
-----------------------------------------------------------------------------
(***************************************************************************)
(* What is up in each phase. A call in a phase knows what the phases before *)
(* it left (Staged); an application nobody works on is as its status says   *)
(* (Settled); the calls of the mounts run while the root's waits for them,  *)
(* and what they completed stays completed (Family).                        *)
(***************************************************************************)

Framework(a) == modules[a] = 1..Modules /\ middleware[a]
Bare(a) == ~middleware[a] /\ context[a] = 0
Passing == IF message = "startup" THEN "STARTING" ELSE "SHUTTING_DOWN"
Goal == IF message = "startup" THEN "READY" ELSE "SHUT_DOWN"
Active(c) == Busy(c) \/ pc[c] = "locking"

\* What is up when a call about an application is in a phase.
At(a, phase) ==
    /\ phase = "modules" => Bare(a)
    /\ phase = "middleware" =>
          modules[a] = 1..Modules /\ context[a] = 0 /\ middleware[a] = (message = "shutdown")
    /\ phase = "handlers" => Framework(a) /\ context[a] = 0
    /\ phase = "context" => Framework(a) /\ context[a] = (IF message = "startup" THEN 0 ELSE 1)
    /\ phase = "children" => Up(a)

Staged == \A c \in Calls : Busy(c) => status[AppOf(c)] = Passing /\ At(AppOf(c), pc[c])

Settled ==
    \A a \in Apps :
        /\ status[a] = "READY" => Up(a)
        /\ status[a] \in {"NOT_STARTED", "SHUT_DOWN"} => Down(a)
        /\ status[a] \in {"STARTING", "SHUTTING_DOWN"} => lock[a] # Free
        /\ lock[a] # Free => Busy(lock[a]) /\ AppOf(lock[a]) = a
        /\ context[a] > 0 => Framework(a)

\* The mounts have not begun to handle the message.
Ahead == pc[Root] = "locking" \/ (message = "startup" /\ pc[Root] \in Hooks)

Family ==
    /\ \A m \in Mounts \ mounted : pc[m] = "idle"
    /\ \A m \in Mounts : Active(m) => pc[Root] = "children"
    /\ Ahead => \A m \in Mounts : pc[m] = "idle"
    /\ \A m \in Mounts : pc[m] = "returned" => outcome[m] # "none"
    /\ \A m \in Mounts :
          pc[Root] = "children" /\ pc[m] = "returned" /\ (grouped => outcome[m] = "complete") =>
              Follows(m, Goal)
    /\ message = "shutdown" /\ pc[Root] = "children" =>
          \A m \in mounted : status[AppOf(m)] # "NOT_STARTED"
    /\ status[Root] \in {"READY", "SHUT_DOWN"} => \A m \in mounted : Follows(m, status[Root])
    /\ message = "shutdown" /\ pc[Root] \in Hooks => \A m \in mounted : Follows(m, "SHUT_DOWN")

Life == TypeOK /\ Staged /\ Settled /\ Family

-----------------------------------------------------------------------------
(* Lemmas about one call *)

StagedFor(c) == Busy(c) => status[AppOf(c)] = Passing /\ At(AppOf(c), pc[c])

SettledFor(a) ==
    /\ status[a] = "READY" => Up(a)
    /\ status[a] \in {"NOT_STARTED", "SHUT_DOWN"} => Down(a)
    /\ status[a] \in {"STARTING", "SHUTTING_DOWN"} => lock[a] # Free
    /\ lock[a] # Free => Busy(lock[a]) /\ AppOf(lock[a]) = a
    /\ context[a] > 0 => Framework(a)

\* An application is not touched.
Same(a) ==
    /\ status'[a] = status[a] /\ lock'[a] = lock[a]
    /\ modules'[a] = modules[a] /\ middleware'[a] = middleware[a] /\ context'[a] = context[a]

\* A step of a call touches that call and its application.
Frame(c) ==
    /\ message' = message /\ grouped' = grouped /\ mounted' = mounted
    /\ \A b \in Apps \ {AppOf(c)} : Same(b)
    /\ \A d \in Calls \ {c} : pc'[d] = pc[d] /\ outcome'[d] = outcome[d]

\* The other calls and applications stay as they are staged and settled.
LEMMA FrameKeeps ==
    ASSUME IndInv, Life, NEW c \in Calls, Frame(c),
           Busy(c) \/ lock[AppOf(c)] = Free \/ Same(AppOf(c)),
           StagedFor(c)', SettledFor(AppOf(c))'
    PROVE  Staged' /\ Settled'
<1>1. \A d \in Calls : AppOf(d) \in Apps
  BY DEF Apps
<1>2. ASSUME NEW d \in Calls \ {c} PROVE StagedFor(d)'
  <2> SUFFICES ASSUME Busy(d)' PROVE status'[AppOf(d)] = Passing' /\ At(AppOf(d), pc[d])'
    BY DEF StagedFor
  <2>1. Busy(d) /\ pc'[d] = pc[d]
    BY DEF Frame, Busy
  <2>2. status[AppOf(d)] = Passing /\ At(AppOf(d), pc[d]) /\ lock[AppOf(d)] = d
    BY <2>1 DEF Life, Staged, IndInv, Held
  <2>3. d # Free
    BY FreeAssumption DEF Free
  <2>4. Same(AppOf(d))
    <3>1. CASE AppOf(d) = AppOf(c)
      BY <2>2, <2>3, <3>1 DEF IndInv, Held
    <3>2. CASE AppOf(d) # AppOf(c)
      BY <1>1, <3>2 DEF Frame
    <3> QED BY <3>1, <3>2
  <2> QED BY <2>1, <2>2, <2>4 DEF Frame, Same, Passing, At, Bare, Framework, Up
<1>3. ASSUME NEW b \in Apps \ {AppOf(c)} PROVE SettledFor(b)'
  <2>1. Same(b) /\ SettledFor(b)
    BY DEF Frame, Life, Settled, SettledFor
  <2>2. lock[b] # Free => lock[b] \in Calls \ {c}
    BY <2>1 DEF Life, TypeOK, SettledFor
  <2> QED BY <2>1, <2>2 DEF SettledFor, Same, Frame, Up, Down, Framework, Busy
<1> QED BY <1>2, <1>3 DEF Staged, StagedFor, Settled, SettledFor

\* An advance, seen from the call.
LEMMA AdvanceEffect ==
    ASSUME TypeOK, NEW c \in Calls, NEW phase \in Phases, Advance(c, phase)
    PROVE  LET a == AppOf(c) IN
           /\ status' \in [Apps -> Status]
           /\ lock' \in [Apps -> Calls \cup {Free}]
           /\ pc' \in [Calls -> Phases \cup {"idle", "locking", "returned"}]
           /\ outcome' \in [Calls -> {"none", "complete", "failed"}]
           /\ \A d \in Calls \ {c} : pc'[d] = pc[d] /\ outcome'[d] = outcome[d]
           /\ \A b \in Apps \ {a} : status'[b] = status[b] /\ lock'[b] = lock[b]
           /\ IF After(phase) # "complete"
              THEN pc'[c] = After(phase) /\ UNCHANGED <<status, lock, outcome>>
              ELSE /\ pc'[c] = "returned" /\ outcome'[c] = "complete"
                   /\ status'[a] = Goal /\ lock'[a] = Free
<1>1. AppOf(c) \in Apps /\ Goal \in Status
  BY DEF Apps, Goal, Status
<1>2. CASE After(phase) # "complete"
  <2>1. pc' = [pc EXCEPT ![c] = After(phase)] /\ UNCHANGED <<status, lock, outcome>>
    BY <1>2 DEF Advance
  <2>2. After(phase) \in Phases
    BY <1>2, AfterIsPhase
  <2> QED BY <1>2, <2>1, <2>2 DEF TypeOK
<1>3. CASE After(phase) = "complete"
  <2>1. /\ pc' = [pc EXCEPT ![c] = "returned"]
        /\ outcome' = [outcome EXCEPT ![c] = "complete"]
        /\ status' = [status EXCEPT ![AppOf(c)] = Goal]
        /\ lock' = [lock EXCEPT ![AppOf(c)] = Free]
    BY <1>3 DEF Advance, Goal
  <2> HIDE DEF Goal
  <2> QED BY <1>1, <1>3, <2>1 DEF TypeOK
<1> QED BY <1>2, <1>3

\* A failure, seen from the call.
LEMMA FailEffect ==
    ASSUME TypeOK, NEW c \in Calls, Fail(c)
    PROVE  /\ TypeOK' /\ Frame(c)
           /\ pc'[c] = "returned" /\ outcome'[c] = "failed" /\ status'[AppOf(c)] = "FAILED"
           /\ lock'[AppOf(c)] = IF lock[AppOf(c)] = c THEN Free ELSE lock[AppOf(c)]
           /\ context' = context /\ modules' = modules /\ middleware' = middleware
<1>1. AppOf(c) \in Apps /\ "FAILED" \in Status
  BY DEF Apps, Status
<1>2. /\ pc' = [pc EXCEPT ![c] = "returned"]
      /\ outcome' = [outcome EXCEPT ![c] = "failed"]
      /\ lock' = [lock EXCEPT ![AppOf(c)] = IF @ = c THEN Free ELSE @]
      /\ status' = [status EXCEPT ![AppOf(c)] = "FAILED"]
      /\ UNCHANGED <<modules, middleware, context, message, messages, grouped, mounted>>
  BY DEF Fail, Return, world, server, site
<1>3. lock' \in [Apps -> Calls \cup {Free}]
  BY <1>1, <1>2 DEF TypeOK
<1> QED BY <1>1, <1>2, <1>3 DEF TypeOK, Frame, Same

\* What becomes of a call in a phase and of the status of its application: it
\* stays, goes on, completes or fails.
Moves(c) ==
    LET a == AppOf(c) IN
    \/ pc'[c] = pc[c] /\ status'[a] = status[a] /\ outcome'[c] = outcome[c]
    \/ /\ After(pc[c]) # "complete" /\ pc'[c] = After(pc[c])
       /\ status'[a] = status[a] /\ outcome'[c] = outcome[c]
    \/ /\ After(pc[c]) = "complete" /\ pc'[c] = "returned"
       /\ outcome'[c] = "complete" /\ status'[a] = Goal
    \/ pc'[c] = "returned" /\ outcome'[c] = "failed" /\ status'[a] = "FAILED"

\* Children that let the root's call go on: they all returned and, where a
\* TaskGroup joins them, completed.
Completed(c) ==
    \A m \in Spawned(c) : pc[m] = "returned" /\ (grouped => outcome[m] = "complete")

\* The mounts are mounts, and their applications are not the root.
LEMMA MountsAre ==
    ASSUME TypeOK
    PROVE  /\ mounted \subseteq Mounts /\ grouped \in BOOLEAN
           /\ Root \in Calls /\ AppOf(Root) = Root /\ Root \in Apps
           /\ \A m \in Mounts : m \in Calls \ {Root} /\ AppOf(m) \in Apps \ {Root}
BY TreesAssumption, RootAssumption, AppOfAssumption DEF TypeOK, Calls, Apps

\* A mount's call that moves is in the family's order: the root waits for it.
LEMMA MountMoves ==
    ASSUME IndInv, Life, NEW m \in Mounts, Frame(m), Moves(m), Busy(m)
    PROVE  Family'
<1>1. /\ m \in Calls \ {Root} /\ Root \in Calls /\ AppOf(m) # Root /\ AppOf(Root) = Root /\ Root \in Apps
      /\ \A n \in Mounts : n \in Calls \ {Root} /\ AppOf(n) \in Apps \ {Root}
      /\ mounted \subseteq Mounts
  BY MountsAre DEF Life
<1>2. /\ pc[Root] = "children" /\ pc'[Root] = "children"
      /\ message' = message /\ grouped' = grouped /\ mounted' = mounted
  BY <1>1 DEF Life, Family, Active, Frame
<1>3. status[AppOf(m)] = Passing /\ status'[Root] = status[Root] /\ status[Root] = Passing
  BY <1>1, <1>2 DEF Life, Staged, Frame, Same, Busy, Phases
<1>4. \A n \in Mounts \ {m} : pc'[n] = pc[n] /\ outcome'[n] = outcome[n]
  BY <1>1 DEF Frame
<1>5. /\ Passing \notin {"READY", "SHUT_DOWN", "FAILED", "NOT_STARTED"} /\ Goal' = Goal
      /\ Goal \in {"READY", "SHUT_DOWN"}
  BY <1>2 DEF Passing, Goal
<1>6. /\ pc'[m] = "returned" =>
            \/ outcome'[m] = "complete" /\ status'[AppOf(m)] = Goal
            \/ outcome'[m] = "failed" /\ status'[AppOf(m)] = "FAILED"
      /\ status'[AppOf(m)] # "NOT_STARTED"
  BY <1>3, <1>5, AfterIsPhase DEF Moves, Busy, Phases, Hooks
<1>7. ASSUME NEW n \in Mounts, pc'[n] = "returned", grouped' => outcome'[n] = "complete"
      PROVE  Follows(n, Goal)'
  <2>1. CASE n = m
    BY <1>2, <1>5, <1>6, <1>7, <2>1 DEF Follows
  <2>2. CASE n # m
    <3>1. Follows(n, Goal)
      BY <1>2, <1>4, <1>7, <2>2 DEF Life, Family
    <3>2. AppOf(n) # AppOf(m)
      BY <1>3, <1>5, <3>1 DEF Follows
    <3>3. status'[AppOf(n)] = status[AppOf(n)]
      BY <1>1, <3>2 DEF Frame, Same
    <3> QED BY <1>2, <1>5, <3>1, <3>3 DEF Follows
  <2> QED BY <2>1, <2>2
<1>8. \A n \in Mounts : pc'[n] = "returned" => outcome'[n] # "none"
  BY <1>4, <1>6 DEF Life, Family
<1>9. message = "shutdown" => \A n \in mounted : status'[AppOf(n)] # "NOT_STARTED"
  <2> SUFFICES ASSUME message = "shutdown", NEW n \in mounted PROVE status'[AppOf(n)] # "NOT_STARTED"
    OBVIOUS
  <2>1. CASE AppOf(n) = AppOf(m)
    BY <1>6, <2>1
  <2>2. CASE AppOf(n) # AppOf(m)
    <3>1. status'[AppOf(n)] = status[AppOf(n)]
      BY <1>1, <2>2 DEF Frame, Same
    <3> QED BY <1>2, <3>1 DEF Life, Family
  <2> QED BY <2>1, <2>2
<1>10. \A n \in Mounts \ mounted : pc'[n] = "idle"
  <2>1. m \in mounted
    BY DEF Life, Family, Busy, Phases, Hooks
  <2> QED BY <1>4, <2>1 DEF Life, Family
<1> QED BY <1>2, <1>3, <1>5, <1>7, <1>8, <1>9, <1>10 DEF Family, Ahead, Hooks

\* The root's call that moves leaves the mounts as they are, and leaves them
\* behind only when they have completed, as far as it looks.
LEMMA RootMoves ==
    ASSUME IndInv, Life, Frame(Root), Moves(Root), Busy(Root),
           pc[Root] = "children" =>
               /\ \A m \in mounted : pc[m] = "returned"
               /\ Completed(Root) \/ (pc'[Root] = "returned" /\ outcome'[Root] = "failed")
    PROVE  Family'
<1>1. /\ Root \in Calls /\ AppOf(Root) = Root
      /\ \A m \in Mounts : m \in Calls \ {Root} /\ AppOf(m) \in Apps \ {Root}
      /\ mounted \subseteq Mounts
  BY MountsAre DEF Life
<1>2. /\ \A m \in Mounts : pc'[m] = pc[m] /\ outcome'[m] = outcome[m] /\ status'[AppOf(m)] = status[AppOf(m)]
      /\ message' = message /\ Goal' = Goal /\ grouped' = grouped /\ mounted' = mounted
  BY <1>1 DEF Frame, Same, Goal
<1>3. \A m \in Mounts : ~Active(m)
  BY DEF Life, Family, Active, Busy, Phases, Hooks
<1>4. status[Root] = Passing /\ message \in {"startup", "shutdown"}
  BY <1>1 DEF Life, Staged, TypeOK
<1>5. \A m \in mounted : \A reached \in {"READY", "SHUT_DOWN"} :
          Follows(m, reached) => Follows(m, reached)'
  BY <1>1, <1>2 DEF Follows
<1>6. /\ \A m \in Mounts \ mounted : pc'[m] = "idle"
      /\ \A m \in Mounts : pc'[m] = "returned" => outcome'[m] # "none"
      /\ \A m \in Mounts : ~Active(m)'
  BY <1>2, <1>3 DEF Life, Family, Active, Busy
<1>7. Goal \in {"READY", "SHUT_DOWN"}
  BY DEF Goal
<1>8. Completed(Root) /\ pc[Root] = "children" => \A m \in mounted : Follows(m, Goal)
  BY <1>1 DEF Completed, Spawned, Life, Family
<1>9. CASE message = "startup"
  <2>1. pc[Root] \in Hooks => \A m \in Mounts : pc[m] = "idle"
    BY <1>9 DEF Life, Family, Ahead
  <2>2. pc'[Root] \in Hooks => pc[Root] \in Hooks
    BY <1>1, <1>9 DEF Moves, After, AfterStartup, Busy, Phases, Hooks
  <2>3. /\ pc'[Root] # "locking"
        /\ pc'[Root] = "children" => pc[Root] # "children" \/ pc'[Root] = pc[Root]
    BY <1>1, <1>9 DEF Moves, After, AfterStartup, Busy, Phases, Hooks
  <2>4. status'[Root] \in {"READY", "SHUT_DOWN"} =>
          status'[Root] = Goal /\ pc[Root] = "children" /\ outcome'[Root] = "complete"
    BY <1>1, <1>4, <1>9 DEF Moves, After, AfterStartup, Busy, Phases, Hooks, Passing
  <2>5. status'[Root] \in {"READY", "SHUT_DOWN"} => \A m \in mounted : Follows(m, status[Root])'
    BY <1>1, <1>2, <1>8, <2>4 DEF Follows
  <2>6. ASSUME pc'[Root] = "children", NEW m \in Mounts, pc'[m] = "returned", grouped' => outcome'[m] = "complete"
        PROVE  Follows(m, Goal)'
    <3>1. pc[Root] = "children"
      BY <1>1, <1>2, <2>1, <2>6 DEF Life, Family, Busy, Phases
    <3>2. Follows(m, Goal)
      BY <1>2, <2>6, <3>1 DEF Life, Family
    <3> QED BY <1>2, <3>2 DEF Follows
  <2>7. Ahead' => \A m \in Mounts : pc'[m] = "idle"
    BY <1>2, <2>1, <2>2, <2>3 DEF Ahead
  <2> QED BY <1>2, <1>6, <1>9, <2>5, <2>6, <2>7 DEF Family
<1>10. CASE message = "shutdown"
  <2>1. /\ pc'[Root] # "locking"
        /\ pc'[Root] = "children" => pc[Root] = "children" /\ pc'[Root] = pc[Root]
    BY <1>1, <1>10 DEF Moves, After, AfterShutdown, Busy, Phases, Hooks
  <2>2. status'[Root] \in {"READY", "SHUT_DOWN"} => status'[Root] = "SHUT_DOWN" /\ pc[Root] \in Hooks
    BY <1>1, <1>4, <1>10 DEF Moves, After, AfterShutdown, Busy, Phases, Hooks, Passing, Goal
  <2>3. pc'[Root] \in Hooks /\ pc[Root] = "children" => Completed(Root)
    BY <1>1, <1>10 DEF Moves, After, AfterShutdown, Hooks
  <2>4. pc'[Root] \in Hooks => \A m \in mounted : Follows(m, "SHUT_DOWN")
    BY <1>8, <1>10, <2>3 DEF Life, Family, Busy, Phases, Goal
  <2>5. status'[Root] \in {"READY", "SHUT_DOWN"} => \A m \in mounted : Follows(m, status[Root])'
    BY <1>1, <1>2, <1>10, <2>2 DEF Life, Family, Follows
  <2>6. pc'[Root] \in Hooks => \A m \in mounted : Follows(m, "SHUT_DOWN")'
    BY <1>5, <2>4
  <2>7. ASSUME pc'[Root] = "children", NEW m \in Mounts, pc'[m] = "returned", grouped' => outcome'[m] = "complete"
        PROVE  Follows(m, Goal)'
    <3>1. Follows(m, Goal)
      BY <1>2, <2>1, <2>7 DEF Life, Family
    <3> QED BY <1>2, <3>1 DEF Follows
  <2>8. pc'[Root] = "children" => \A m \in mounted : status'[AppOf(m)] # "NOT_STARTED"
    BY <1>1, <1>2, <1>10, <2>1 DEF Life, Family
  <2>9. ~Ahead'
    BY <1>2, <1>10, <2>1 DEF Ahead
  <2> QED BY <1>2, <1>6, <1>10, <2>5, <2>6, <2>7, <2>8, <2>9 DEF Family
<1> QED BY <1>4, <1>9, <1>10

-----------------------------------------------------------------------------
(* The steps keep Life *)

\* A busy call that moves, is staged and settled afterwards and leaves no child
\* behind keeps everything.
LEMMA WorkKeeps ==
    ASSUME IndInv, Life, NEW c \in Calls, Busy(c), TypeOK', Frame(c), Moves(c),
           StagedFor(c)', SettledFor(AppOf(c))',
           c = Root /\ pc[c] = "children" =>
               /\ \A m \in mounted : pc[m] = "returned"
               /\ Completed(c) \/ (pc'[c] = "returned" /\ outcome'[c] = "failed")
    PROVE  Life'
<1>1. Staged' /\ Settled'
  BY FrameKeeps
<1>2. Family'
  <2>1. CASE c = Root
    BY <2>1, RootMoves
  <2>2. CASE c # Root
    BY <2>2, MountMoves DEF Calls
  <2> QED BY <2>1, <2>2
<1> QED BY <1>1, <1>2 DEF Life

\* What a call knows while it works.
LEMMA Working ==
    ASSUME IndInv, Life, NEW c \in Calls, Busy(c)
    PROVE  /\ AppOf(c) \in Apps /\ lock[AppOf(c)] = c /\ c # Free
           /\ status[AppOf(c)] = Passing /\ At(AppOf(c), pc[c])
           /\ message \in {"startup", "shutdown"}
BY FreeAssumption DEF IndInv, Held, Life, Staged, TypeOK, Apps, Free

\* An advance keeps everything if its application is up as the next phase, or
\* the status it completes with, says.
LEMMA AdvanceKeepsLife ==
    ASSUME IndInv, Life, NEW c \in Calls, NEW phase \in Phases, pc[c] = phase, Advance(c, phase),
           UNCHANGED server,
           modules' \in [Apps -> SUBSET (1..Modules)], middleware' \in [Apps -> BOOLEAN],
           context' \in [Apps -> {0, 1}],
           \A b \in Apps \ {AppOf(c)} :
               modules'[b] = modules[b] /\ middleware'[b] = middleware[b] /\ context'[b] = context[b],
           After(phase) # "complete" => At(AppOf(c), After(phase))',
           After(phase) = "complete" => (IF message = "startup" THEN Up(AppOf(c))' ELSE Down(AppOf(c))'),
           context'[AppOf(c)] > 0 => Framework(AppOf(c))',
           phase = "children" => Completed(c) /\ \A m \in Spawned(c) : pc[m] = "returned"
    PROVE  Life'
<1> DEFINE a == AppOf(c)
<1>1. /\ Busy(c) /\ message' = message /\ messages' = messages /\ grouped' = grouped /\ mounted' = mounted
      /\ Passing' = Passing /\ After(phase) \in Phases \cup {"complete"} /\ After(phase)' = After(phase)
  BY AfterIsPhase DEF Busy, server, site, Passing, After
<1>2. a \in Apps /\ lock[a] = c /\ c # Free /\ status[a] = Passing /\ message \in {"startup", "shutdown"}
  BY <1>1, Working
<1>3. TypeOK
  BY DEF Life
<1>4. TypeOK' /\ Frame(c) /\ Moves(c)
  BY <1>1, <1>2, <1>3, AdvanceEffect DEF TypeOK, Frame, Same, Moves
<1>5. StagedFor(c)' /\ SettledFor(a)'
  <2>1. CASE After(phase) # "complete"
    <3>1. pc'[c] = After(phase) /\ status'[a] = Passing /\ lock'[a] = c
      BY <1>2, <1>3, <2>1, AdvanceEffect
    <3> QED BY <1>1, <1>2, <2>1, <3>1 DEF StagedFor, SettledFor, Busy, Passing
  <2>2. CASE After(phase) = "complete"
    <3>1. pc'[c] = "returned" /\ status'[a] = Goal /\ lock'[a] = Free
      BY <1>2, <1>3, <2>2, AdvanceEffect
    <3> QED BY <1>1, <1>2, <2>2, <3>1 DEF StagedFor, SettledFor, Busy, Phases, Hooks, Goal
  <2> QED BY <2>1, <2>2
<1> QED BY <1>1, <1>4, <1>5, WorkKeeps DEF Spawned

\* A failure in a phase.
LEMMA FailKeepsLife ==
    ASSUME IndInv, Life, NEW c \in Calls, Busy(c), Fail(c),
           c = Root /\ pc[c] = "children" => \A m \in mounted : pc[m] = "returned"
    PROVE  Life'
<1>1. TypeOK
  BY DEF Life
<1>2. /\ TypeOK' /\ Frame(c) /\ Moves(c)
      /\ pc'[c] = "returned" /\ outcome'[c] = "failed" /\ status'[AppOf(c)] = "FAILED"
      /\ lock'[AppOf(c)] = Free
      /\ context' = context /\ modules' = modules /\ middleware' = middleware
  BY <1>1, Working, FailEffect DEF Moves
<1>3. StagedFor(c)'
  BY <1>2 DEF StagedFor, Busy, Phases, Hooks
<1>4. SettledFor(AppOf(c))'
  BY <1>2, Working DEF SettledFor, Life, Settled, Framework
<1> QED BY <1>2, <1>3, <1>4, WorkKeeps

\* A module hook runs at a stage where its application has no other part up.
LEMMA ModuleHookKeeps == ASSUME IndInv, Life, NEW c \in Calls, ModuleHook(c) PROVE Life'
<1> DEFINE a == AppOf(c)
<1>1. /\ pc[c] = "modules" /\ "modules" \in Phases /\ Busy(c)
      /\ UNCHANGED <<middleware, context, server>> /\ message' = message /\ messages' = messages
      /\ grouped' = grouped /\ mounted' = mounted
  BY DEF ModuleHook, server, site, Busy, Phases, Hooks
<1>2. a \in Apps /\ lock[a] = c /\ c # Free /\ status[a] = Passing /\ Bare(a)
      /\ message \in {"startup", "shutdown"}
  BY <1>1, Working DEF At
<1>3. TypeOK
  BY DEF Life
<1>4. ASSUME NEW i \in Waiting(a), UNCHANGED <<status, lock, pc, outcome>>,
             modules' = [modules EXCEPT ![a] = IF message = "startup" THEN @ \cup {i} ELSE @ \ {i}]
      PROVE  Life'
  <2>1. i \in 1..Modules
    BY <1>2, <1>3 DEF Waiting, TypeOK
  <2>2. modules' \in [Apps -> SUBSET (1..Modules)] /\ \A b \in Apps \ {a} : modules'[b] = modules[b]
    BY <1>2, <1>3, <1>4, <2>1 DEF TypeOK
  <2>3. TypeOK' /\ Frame(c) /\ Moves(c)
    BY <1>1, <1>3, <1>4, <2>2 DEF TypeOK, Frame, Same, Moves
  <2>4. StagedFor(c)' /\ SettledFor(a)'
    BY <1>1, <1>2, <1>4 DEF StagedFor, SettledFor, Busy, At, Bare, Passing
  <2> QED BY <1>1, <2>3, <2>4, WorkKeeps
<1>5. CASE Waiting(a) = {} /\ Advance(c, "modules") /\ UNCHANGED modules
  <2>1. message = "startup" => modules[a] = 1..Modules
    BY <1>2, <1>3, <1>5 DEF Waiting, TypeOK
  <2>2. message = "shutdown" => modules[a] = {}
    BY <1>5 DEF Waiting
  <2>3. After("modules") # "complete" => At(a, After("modules"))'
    BY <1>1, <1>2, <1>3, <1>5, <2>1 DEF After, AfterStartup, AfterShutdown, At, Bare, TypeOK
  <2>4. After("modules") = "complete" => (IF message = "startup" THEN Up(a)' ELSE Down(a)')
    BY <1>1, <1>2, <1>5, <2>2 DEF After, AfterStartup, AfterShutdown, Down, Bare
  <2>5. ~(context'[a] > 0)
    BY <1>1, <1>2 DEF Bare
  <2> QED BY <1>1, <1>3, <1>5, <2>3, <2>4, <2>5, AdvanceKeepsLife DEF TypeOK
<1> QED BY <1>4, <1>5 DEF ModuleHook

\* The middleware goes up after the modules and comes down after the context.
LEMMA MiddlewareHookKeeps == ASSUME IndInv, Life, NEW c \in Calls, MiddlewareHook(c) PROVE Life'
<1> DEFINE a == AppOf(c)
<1>1. /\ pc[c] = "middleware" /\ "middleware" \in Phases /\ Busy(c)
      /\ UNCHANGED <<modules, context, server>> /\ message' = message
      /\ middleware' = [middleware EXCEPT ![a] = (message = "startup")] /\ Advance(c, "middleware")
  BY DEF MiddlewareHook, server, site, Busy, Phases, Hooks
<1>2. a \in Apps /\ modules[a] = 1..Modules /\ context[a] = 0 /\ message \in {"startup", "shutdown"}
  BY <1>1, Working DEF At
<1>3. TypeOK
  BY DEF Life
<1>4. /\ middleware' \in [Apps -> BOOLEAN] /\ middleware'[a] = (message = "startup")
      /\ \A b \in Apps \ {a} : middleware'[b] = middleware[b]
  BY <1>1, <1>2, <1>3 DEF TypeOK
<1>5. After("middleware") # "complete" /\ At(a, After("middleware"))'
  <2>1. CASE message = "startup"
    BY <1>1, <1>2, <1>4, <2>1 DEF After, AfterStartup, At, Framework
  <2>2. CASE message = "shutdown"
    BY <1>1, <1>2, <1>4, <2>2 DEF After, AfterShutdown, At, Bare
  <2> QED BY <1>2, <2>1, <2>2
<1>6. ~(context'[a] > 0)
  BY <1>1, <1>2
<1> QED BY <1>1, <1>3, <1>4, <1>5, <1>6, AdvanceKeepsLife DEF TypeOK

\* The handlers of the events change no part of the framework.
LEMMA HandlersKeeps == ASSUME IndInv, Life, NEW c \in Calls, Handlers(c) PROVE Life'
<1> DEFINE a == AppOf(c)
<1>1. /\ pc[c] = "handlers" /\ "handlers" \in Phases /\ Busy(c)
      /\ UNCHANGED <<modules, middleware, context, server>> /\ message' = message
      /\ Advance(c, "handlers")
  BY DEF Handlers, world, server, site, Busy, Phases, Hooks
<1>2. a \in Apps /\ Framework(a) /\ context[a] = 0 /\ message \in {"startup", "shutdown"}
  BY <1>1, Working DEF At
<1>3. TypeOK
  BY DEF Life
<1>4. After("handlers") # "complete" /\ At(a, After("handlers"))' /\ ~(context'[a] > 0)
  <2>1. CASE message = "startup"
    BY <1>1, <1>2, <2>1 DEF After, AfterStartup, At, Framework
  <2>2. CASE message = "shutdown"
    <3>1. After("handlers") = "middleware" /\ After("handlers")' = "middleware"
      BY <1>1, <2>2 DEF After, AfterShutdown
    <3>2. middleware[a] = TRUE
      BY <1>2, <1>3 DEF Framework, TypeOK
    <3>3. middleware'[a] = (message' = "shutdown") /\ modules'[a] = 1..Modules /\ context'[a] = 0
      BY <1>1, <1>2, <2>2, <3>2 DEF Framework
    <3> QED BY <3>1, <3>3 DEF At
  <2> QED BY <1>2, <2>1, <2>2
<1> QED BY <1>1, <1>3, <1>4, AdvanceKeepsLife DEF TypeOK

\* The user context is entered last and left first, with all of the framework up.
LEMMA ContextKeeps == ASSUME IndInv, Life, NEW c \in Calls, Context(c) PROVE Life'
<1> DEFINE a == AppOf(c)
<1>1. /\ pc[c] = "context" /\ "context" \in Phases /\ Busy(c)
      /\ UNCHANGED <<modules, middleware, server>> /\ message' = message
      /\ context' = [context EXCEPT ![a] = IF message = "startup" THEN @ + 1 ELSE 0]
      /\ Advance(c, "context")
  BY DEF Context, server, site, Busy, Phases, Hooks
<1>2. /\ a \in Apps /\ Framework(a) /\ message \in {"startup", "shutdown"}
      /\ message = "startup" => context[a] = 0
  BY <1>1, Working DEF At
<1>3. TypeOK
  BY DEF Life
<1>4. /\ context' \in [Apps -> {0, 1}] /\ context'[a] = (IF message = "startup" THEN 1 ELSE 0)
      /\ \A b \in Apps \ {a} : context'[b] = context[b]
  BY <1>1, <1>2, <1>3 DEF TypeOK
<1>5. After("context") # "complete" /\ At(a, After("context"))' /\ Framework(a)'
  <2>1. CASE message = "startup"
    BY <1>1, <1>2, <1>4, <2>1 DEF After, AfterStartup, At, Framework, Up
  <2>2. CASE message = "shutdown"
    BY <1>1, <1>2, <1>4, <2>2 DEF After, AfterShutdown, At, Framework
  <2> QED BY <1>2, <2>1, <2>2
<1> QED BY <1>1, <1>3, <1>4, <1>5, AdvanceKeepsLife DEF TypeOK

\* A call that waits for the lock leaves: its group was cancelled, or the status
\* was not what its message needs.
LEMMA LeaveKeeps ==
    ASSUME IndInv, Life, NEW c \in Calls, pc[c] = "locking", Return(c), lock' = lock,
           UNCHANGED <<status, modules, middleware, context, message, messages, grouped, mounted>>,
           ~grouped /\ c # Root => Follows(c, Goal)
    PROVE  Life'
<1>1. /\ pc' = [pc EXCEPT ![c] = "returned"] /\ outcome' = [outcome EXCEPT ![c] = "failed"]
      /\ \A d \in Calls : AppOf(d) \in Apps
  BY DEF Return, Apps
<1>2. TypeOK' /\ pc'[c] = "returned" /\ outcome'[c] = "failed"
      /\ \A d \in Calls \ {c} : pc'[d] = pc[d] /\ outcome'[d] = outcome[d]
  BY <1>1 DEF Life, TypeOK
<1>3. Frame(c) /\ Same(AppOf(c))
  BY <1>2 DEF Frame, Same
<1>4. StagedFor(c)'
  BY <1>2 DEF StagedFor, Busy, Phases, Hooks
<1>5. SettledFor(AppOf(c))'
  <2>1. SettledFor(AppOf(c)) /\ (lock[AppOf(c)] # Free => lock[AppOf(c)] \in Calls \ {c})
    BY <1>1 DEF Life, TypeOK, Settled, SettledFor, Busy, Phases, Hooks
  <2> QED BY <1>2, <2>1 DEF SettledFor, Up, Down, Framework, Busy
<1>6. Staged' /\ Settled'
  BY <1>3, <1>4, <1>5, FrameKeeps
<1>7. Family'
  <2>1. /\ Root \in Calls /\ \A m \in Mounts : m \in Calls /\ m # Root
        /\ Goal' = Goal /\ \A m \in Mounts, reached \in {"READY", "SHUT_DOWN"} :
                              Follows(m, reached)' = Follows(m, reached)
    BY RootAssumption DEF Calls, Goal, Follows
  <2>2. CASE c = Root
    <3>1. /\ \A m \in Mounts : pc[m] = "idle" /\ pc'[m] = "idle" /\ outcome'[m] = outcome[m]
          /\ pc'[Root] = "returned"
      BY <1>2, <2>1, <2>2 DEF Life, Family, Ahead
    <3>2. status[Root] \in {"READY", "SHUT_DOWN"} => \A m \in mounted : Follows(m, status[Root])'
      BY DEF Life, Family, Follows
    <3> QED BY <3>1, <3>2 DEF Family, Ahead, Active, Busy, Phases, Hooks
  <2>3. CASE c # Root
    <3>1. c \in Mounts /\ pc[Root] = "children" /\ pc'[Root] = "children" /\ c \in mounted
      BY <1>2, <2>1, <2>3 DEF Calls, Life, Family, Active
    <3>2. ASSUME NEW m \in Mounts, pc'[m] = "returned", grouped' => outcome'[m] = "complete"
          PROVE  Follows(m, Goal)'
      <4>1. CASE m = c
        BY <1>2, <2>3, <3>2, <4>1 DEF Follows, Goal
      <4>2. CASE m # c
        <5>1. Follows(m, Goal)
          BY <1>2, <2>1, <3>1, <3>2, <4>2 DEF Life, Family
        <5> QED BY <5>1 DEF Follows, Goal
      <4> QED BY <4>1, <4>2
    <3>3. status[Root] \in {"READY", "SHUT_DOWN"} => \A m \in mounted : Follows(m, status[Root])'
      BY DEF Life, Family, Follows
    <3>4. \A m \in Mounts : pc'[m] = "returned" => outcome'[m] # "none"
      BY <1>2, <2>1 DEF Life, Family
    <3>5. /\ \A m \in Mounts \ mounted : pc'[m] = "idle"
          /\ \A m \in mounted : message = "shutdown" => status'[AppOf(m)] # "NOT_STARTED"
      BY <1>2, <2>1, <3>1 DEF Life, Family
    <3> QED BY <3>1, <3>2, <3>3, <3>4, <3>5 DEF Family, Ahead, Hooks
  <2> QED BY <2>2, <2>3
<1> QED BY <1>2, <1>6, <1>7 DEF Life

\* A call that takes its lock finds the application as its status says, or returns.
LEMMA BeginKeepsLife == ASSUME IndInv, Life, NEW c \in Calls, Begin(c) PROVE Life'
<1> DEFINE a == AppOf(c)
<1>1. /\ pc[c] = "locking" /\ lock[a] = Free /\ message' = message /\ a \in Apps
      /\ UNCHANGED <<modules, middleware, context, messages, grouped, mounted>> /\ ~Busy(c)
  BY DEF Begin, world, server, site, Apps, Busy, Phases, Hooks
<1>2. TypeOK /\ message \in {"startup", "shutdown"} /\ c # Free
  BY FreeAssumption DEF Life, TypeOK, Free
<1>3. /\ Root \in Calls /\ AppOf(Root) = Root /\ mounted \subseteq Mounts
      /\ \A m \in Mounts : m # Root /\ m \in Calls /\ AppOf(m) # Root /\ AppOf(m) \in Apps
  BY <1>2, MountsAre
<1>4. CASE Accepts(status[a])
  <2>1. /\ pc' = [pc EXCEPT ![c] = After("begin")]
        /\ lock' = [lock EXCEPT ![a] = c]
        /\ status' = [status EXCEPT ![a] = Passing]
        /\ outcome' = outcome
    BY <1>4 DEF Begin, Passing
  <2>2. After("begin") \in Phases /\ Passing \in Status /\ Passing' = Passing
    BY <1>1, AfterIsPhase DEF Passing, Status
  <2>3. TypeOK' /\ Frame(c)
    BY <1>1, <1>2, <2>1, <2>2 DEF TypeOK, Frame, Same
  <2>4. pc'[c] = After("begin") /\ status'[a] = Passing /\ lock'[a] = c
    BY <1>1, <1>2, <2>1 DEF TypeOK
  <2>5. At(a, After("begin"))'
    <3>1. CASE message = "startup"
      <4>1. After("begin") = "modules" /\ Bare(a)
        BY <1>1, <1>4, <3>1 DEF After, AfterStartup, Accepts, Life, Settled, Down, Bare
      <4> QED BY <1>1, <3>1, <4>1 DEF After, AfterStartup, At, Bare
    <3>2. CASE message = "shutdown"
      <4>1. After("begin") = "children" /\ Up(a)
        BY <1>1, <1>4, <3>2 DEF After, AfterShutdown, Accepts, Life, Settled
      <4> QED BY <1>1, <3>2, <4>1 DEF After, AfterShutdown, At, Up
    <3> QED BY <1>2, <3>1, <3>2
  <2>6. StagedFor(c)' /\ SettledFor(a)'
    <3>1. After("begin")' = After("begin") /\ (context[a] > 0 => Framework(a))
      BY <1>1 DEF After, Life, Settled
    <3>2. Passing \in {"STARTING", "SHUTTING_DOWN"}
      BY DEF Passing
    <3> QED BY <1>1, <1>2, <2>2, <2>4, <2>5, <3>1, <3>2 DEF StagedFor, SettledFor, Busy, Framework
  <2>7. Staged' /\ Settled'
    BY <1>1, <2>3, <2>6, FrameKeeps
  <2>8. Family'
    <3>1. \A m \in Mounts \ {c} : pc'[m] = pc[m] /\ outcome'[m] = outcome[m]
      BY <1>3, <2>3 DEF Frame
    <3>2. CASE c = Root
      <4>1. \A m \in Mounts : pc'[m] = "idle" /\ status'[AppOf(m)] = status[AppOf(m)]
        BY <1>1, <1>3, <2>3, <3>1, <3>2 DEF Life, Family, Ahead, Frame, Same
      <4>2. status'[Root] = Passing /\ Passing \notin {"READY", "SHUT_DOWN"}
        BY <1>3, <2>4, <3>2 DEF Passing
      <4>3. message = "shutdown" => pc'[Root] = "children"
        BY <2>4, <3>2 DEF After, AfterShutdown
      <4>4. message = "shutdown" => \A m \in mounted : status[AppOf(m)] # "NOT_STARTED"
        BY <1>3, <1>4, <3>2 DEF Accepts, Follows, Life, Family
      <4> QED BY <1>1, <1>3, <4>1, <4>2, <4>3, <4>4 DEF Family, Active, Busy, Phases, Hooks
    <3>3. CASE c # Root
      <4>1. c \in Mounts /\ pc[Root] = "children" /\ pc'[Root] = "children" /\ c \in mounted
        BY <1>1, <1>3, <2>3, <3>3 DEF Calls, Life, Family, Active, Frame
      <4>2. status'[Root] = Passing /\ Passing \notin {"READY", "SHUT_DOWN", "FAILED", "NOT_STARTED"} /\ Goal' = Goal
        <5>1. status[Root] = Passing
          BY <1>3, <4>1 DEF Life, Staged, Busy, Phases
        <5>2. Root \in Apps \ {a}
          BY <1>3, <4>1 DEF Apps
        <5> QED BY <1>1, <2>3, <5>1, <5>2 DEF Frame, Same, Passing, Goal
      <4>3. pc'[c] # "returned"
        BY <2>2, <2>4 DEF Phases, Hooks
      <4>4. ASSUME NEW m \in Mounts, pc'[m] = "returned", grouped' => outcome'[m] = "complete"
            PROVE  Follows(m, Goal)'
        <5>1. m # c /\ pc[m] = "returned" /\ outcome'[m] = outcome[m] /\ AppOf(m) \in Apps
          BY <3>1, <4>3, <4>4, <1>3
        <5>2. Follows(m, Goal)
          BY <1>1, <4>1, <4>4, <5>1 DEF Life, Family
        <5>3. status[a] \notin {Goal, "FAILED"}
          BY <1>4 DEF Accepts, Goal
        <5>4. status'[AppOf(m)] = status[AppOf(m)]
          BY <2>3, <5>1, <5>2, <5>3 DEF Frame, Same, Follows
        <5> QED BY <1>1, <4>2, <5>2, <5>4 DEF Follows
      <4>5. \A m \in Mounts : pc'[m] = "returned" => outcome'[m] # "none"
        BY <3>1, <4>3 DEF Life, Family
      <4>6. message = "shutdown" => \A m \in mounted : status'[AppOf(m)] # "NOT_STARTED"
        <5> SUFFICES ASSUME message = "shutdown", NEW m \in mounted PROVE status'[AppOf(m)] # "NOT_STARTED"
          OBVIOUS
        <5>1. CASE AppOf(m) = a
          BY <2>4, <4>2, <5>1
        <5>2. CASE AppOf(m) # a
          <6>1. status'[AppOf(m)] = status[AppOf(m)]
            BY <1>3, <2>3, <5>2 DEF Frame, Same
          <6> QED BY <4>1, <6>1 DEF Life, Family
        <5> QED BY <5>1, <5>2
      <4>7. \A m \in Mounts \ mounted : pc'[m] = "idle"
        BY <3>1, <4>1 DEF Life, Family
      <4> QED BY <1>1, <4>1, <4>2, <4>4, <4>5, <4>6, <4>7 DEF Family, Ahead, Hooks
    <3> QED BY <3>2, <3>3
  <2> QED BY <2>3, <2>7, <2>8 DEF Life
<1>5. CASE ~Accepts(status[a])
  <2>1. /\ Return(c) /\ UNCHANGED status
    BY <1>5 DEF Begin
  <2>2. lock' = lock
    BY <1>1, <1>2, <2>1 DEF Return, TypeOK
  <2>3. ~grouped /\ c # Root => Follows(c, Goal)
    <3> SUFFICES ASSUME ~grouped, c # Root PROVE Follows(c, Goal)
      OBVIOUS
    <3>1. c \in mounted /\ pc[Root] = "children"
      BY <1>1 DEF Calls, Life, Family, Active
    <3>2. status[a] \in Status \ {"STARTING", "SHUTTING_DOWN"}
      BY <1>1, <1>2 DEF Life, Settled, TypeOK
    <3>3. message = "shutdown" => status[a] # "NOT_STARTED"
      BY <3>1 DEF Life, Family
    <3> QED BY <1>2, <1>5, <3>2, <3>3 DEF Accepts, Follows, Goal, Status
  <2> QED BY <1>1, <1>2, <2>1, <2>2, <2>3, LeaveKeeps
<1> QED BY <1>4, <1>5

\* The calls of the mounts begin.
LEMMA PropagateKeeps == ASSUME IndInv, Life, NEW c \in Calls, Propagate(c) PROVE Life'
<1>1. /\ c = Root /\ pc[Root] = "children" /\ \A m \in Mounts : pc[m] = "idle" /\ m # Root
      /\ pc' = [x \in Calls |-> IF x \in mounted THEN "locking" ELSE pc[x]]
      /\ UNCHANGED <<status, modules, middleware, context, lock, outcome, message, messages, grouped, mounted>>
      /\ mounted \subseteq Mounts
  BY RootAssumption, MountsAre DEF Propagate, Spawned, world, server, site, Life, Family
<1>2. /\ \A m \in Mounts : pc'[m] \in {"locking", "idle"} /\ pc[m] = "idle" /\ m \in Calls
      /\ pc'[Root] = "children" /\ Root \in Calls
      /\ \A d \in Calls : d \in Mounts \/ d = Root
      /\ \A m \in Mounts \ mounted : pc'[m] = "idle"
  BY <1>1 DEF Calls
<1>3. TypeOK'
  BY <1>1 DEF Life, TypeOK
<1>4. \A d \in Calls : Busy(d)' <=> Busy(d) /\ pc'[d] = pc[d]
  BY <1>1, <1>2 DEF Busy, Phases, Hooks
<1>5. ASSUME NEW d \in Calls, Busy(d)' PROVE status'[AppOf(d)] = Passing' /\ At(AppOf(d), pc[d])'
  <2>1. Busy(d) /\ pc'[d] = pc[d] /\ status[AppOf(d)] = Passing /\ At(AppOf(d), pc[d])
    BY <1>2, <1>4, <1>5 DEF Life, Staged, Busy, Phases, Hooks
  <2> QED BY <1>1, <2>1 DEF At, Passing, Bare, Framework, Up
<1>6. Settled'
  <2>1. \A d \in Calls : Busy(d) => Busy(d)'
    BY <1>1, <1>2 DEF Busy, Phases, Hooks
  <2>2. \A a \in Apps : lock[a] # Free => lock[a] \in Calls
    BY DEF Life, TypeOK
  <2> QED BY <1>1, <2>1, <2>2 DEF Life, Settled, Up, Down, Framework, Busy
<1>7. Family'
  <2>1. status[Root] \in {"READY", "SHUT_DOWN"} => \A m \in mounted : Follows(m, status[Root])'
    BY <1>1 DEF Life, Family, Follows
  <2>2. message = "shutdown" => \A m \in mounted : status'[AppOf(m)] # "NOT_STARTED"
    BY <1>1 DEF Life, Family
  <2> QED BY <1>1, <1>2, <2>1, <2>2 DEF Family, Ahead, Hooks
<1> QED BY <1>3, <1>5, <1>6, <1>7 DEF Life, Staged

\* The task group of the mounts ends.
LEMMA JoinKeeps == ASSUME IndInv, Life, NEW c \in Calls, Join(c) PROVE Life'
<1>1. /\ pc[c] = "children" /\ "children" \in Phases /\ Busy(c)
      /\ \A m \in Spawned(c) : pc[m] = "returned"
  BY DEF Join, Busy, Phases
<1>2. TypeOK /\ Up(AppOf(c)) /\ message \in {"startup", "shutdown"}
  BY <1>1, Working DEF Life, At
<1>3. CASE grouped /\ \E m \in Spawned(c) : outcome[m] = "failed"
  BY <1>1, <1>3, FailKeepsLife DEF Join, Spawned
<1>4. CASE ~(grouped /\ \E m \in Spawned(c) : outcome[m] = "failed")
  <2>1. /\ Advance(c, "children") /\ message' = message
        /\ UNCHANGED <<modules, middleware, context>> /\ UNCHANGED server
    BY <1>4 DEF Join, world, server
  <2>2. Completed(c)
    <3> SUFFICES ASSUME grouped, NEW m \in Spawned(c) PROVE outcome[m] = "complete"
      BY <1>1 DEF Completed
    <3>1. m \in Mounts /\ m \in Calls
      BY <1>2, MountsAre DEF Spawned
    <3> QED BY <1>1, <1>2, <1>4, <3>1 DEF Life, Family, TypeOK
  <2>3. After("children") # "complete" => At(AppOf(c), After("children"))'
    BY <1>2, <2>1 DEF After, AfterStartup, AfterShutdown, At, Up, Framework
  <2>4. After("children") = "complete" => message = "startup" /\ Up(AppOf(c))'
    BY <1>2, <2>1 DEF After, AfterShutdown, Up
  <2>5. Framework(AppOf(c))'
    BY <1>2, <2>1 DEF Framework, Up
  <2> QED BY <1>1, <1>2, <2>1, <2>2, <2>3, <2>4, <2>5, AdvanceKeepsLife DEF TypeOK
<1> QED BY <1>3, <1>4

\* A cancelled sibling either never began or fails its application.
LEMMA CancelKeeps == ASSUME IndInv, Life, NEW m \in mounted, Cancel(m) PROVE Life'
<1>1. m \in Calls /\ m # Root /\ grouped
  BY MountsAre DEF Life, Cancel
<1>2. CASE pc[m] = "locking" /\ Return(m) /\ UNCHANGED <<status, world, server>>
  <2>1. lock[AppOf(m)] # m /\ AppOf(m) \in Apps /\ TypeOK
    BY <1>1, <1>2, FreeAssumption DEF Life, Settled, Busy, Phases, Hooks, Free, Apps
  <2>2. lock' = lock
    BY <1>2, <2>1 DEF Return, TypeOK
  <2> QED BY <1>1, <1>2, <2>2, LeaveKeeps DEF world, server, site
<1>3. CASE pc[m] \in Phases /\ Fail(m)
  BY <1>1, <1>3, FailKeepsLife DEF Busy
<1> QED BY <1>2, <1>3 DEF Cancel

\* The server sends a message when every call of the previous one has returned.
LEMMA SendKeeps == ASSUME IndInv, Life, NEW kind \in {"startup", "shutdown"}, Send(kind) PROVE Life'
<1>1. /\ pc' = [c \in Calls |-> IF c = Root THEN "locking" ELSE "idle"]
      /\ outcome' = [c \in Calls |-> "none"]
      /\ message' = kind /\ messages' = messages + 1 /\ messages < MaxMessages
      /\ UNCHANGED <<status, modules, middleware, context, lock, grouped, mounted>>
      /\ pc[Root] \in {"idle", "returned"}
  BY DEF Send, world, site
<1>2. TypeOK'
  BY <1>1, MaxMessagesAssumption DEF Life, TypeOK
<1>3. /\ \A m \in Mounts : m \in Calls /\ m # Root /\ ~Busy(m)
      /\ Root \in Calls /\ ~Busy(Root) /\ \A d \in Calls : ~Busy(d)' /\ ~Busy(d)
  BY <1>1, RootAssumption DEF Calls, Life, Family, Active, Busy, Phases, Hooks
<1>4. Staged'
  BY <1>3 DEF Staged
<1>5. Settled'
  <2>1. \A a \in Apps : lock[a] = Free
    BY <1>3 DEF Life, TypeOK, Settled
  <2> QED BY <1>1, <2>1 DEF Life, Settled, Up, Down, Framework
<1>6. Family'
  <2>1. status[Root] \in {"READY", "SHUT_DOWN"} => \A m \in mounted : Follows(m, status[Root])'
    BY <1>1 DEF Life, Family, Follows
  <2>2. \A m \in Mounts : pc'[m] = "idle"
    BY <1>1, <1>3
  <2> QED BY <1>1, <1>3, <2>1, <2>2 DEF Family, Ahead, Active, Busy, Phases, Hooks
<1> QED BY <1>2, <1>4, <1>5, <1>6 DEF Life

\* Every step keeps the life cycle.
LEMMA LifeKept == ASSUME IndInv, Life, [Next]_vars PROVE Life'
<1>1. ASSUME NEW c \in Calls, Step(c) PROVE Life'
  <2>1. CASE HookFails(c)
    BY <2>1, FailKeepsLife DEF HookFails, Busy, Phases, Hooks
  <2> QED BY <1>1, <2>1, BeginKeepsLife, ModuleHookKeeps, MiddlewareHookKeeps, HandlersKeeps, ContextKeeps,
             PropagateKeeps, JoinKeeps DEF Step
<1>2. CASE UNCHANGED vars
  BY <1>2 DEF vars, world, server, site, Life, Follows, TypeOK, Staged, Settled, Family, Busy, Passing, At, Bare, Framework,
              Up, Down, Active, Ahead, Goal
<1> QED BY <1>1, <1>2, CancelKeeps, SendKeeps DEF Next

-----------------------------------------------------------------------------
(* What follows from Life *)

\* Every reachable state is staged, settled and in the family's order.
THEOREM Lives == Spec => []Life
<1>1. Init => Life
  <2> SUFFICES ASSUME Init PROVE Life
    OBVIOUS
  <2>1. TypeOK
    BY MaxMessagesAssumption DEF Init, TypeOK, Status, site
  <2>2. \A c \in Calls : pc[c] = "idle"
    BY DEF Init
  <2>3. Root \in Calls /\ \A m \in Mounts : m \in Calls
    BY DEF Calls
  <2>4. Root \in Apps
    BY <2>3, AppOfAssumption DEF Apps
  <2>5. Staged /\ Settled
    BY <2>2 DEF Init, Staged, Settled, Busy, Phases, Hooks, Down
  <2>6. Family
    BY <2>2, <2>3, <2>4 DEF Init, Family, Active, Ahead, Busy, Phases, Hooks
  <2> QED BY <2>1, <2>5, <2>6 DEF Life
<1>2. IndInv /\ Life /\ [Next]_vars => Life'
  BY LifeKept
<1> QED BY <1>1, <1>2, Inductive, PTL DEF Spec

\* The variables keep their types, the number of contexts entered included: no
\* context is entered twice (Lifespan._startup).
THEOREM TypeCorrect == Spec => []TypeOK
<1>1. Life => TypeOK
  BY DEF Life
<1> QED BY <1>1, Lives, PTL

\* READY and SHUT_DOWN tell the truth about an application and, at the root, about
\* what is mounted: every mount got there too, or failed where run_task_group does
\* not look at the outcomes (Lifespan.__call__, Lifespan._child_propagation).
THEOREM StatusIsTrue == Spec => []StatusTells
<1>1. Life => StatusTells
  BY DEF Life, Settled, Family, StatusTells, ReadyMeansUp, ShutDownMeansDown
<1> QED BY <1>1, Lives, PTL

\* Where a TaskGroup joins the mounts, a ready root has every mount ready.
THEOREM GroupedReady == Spec => [](grouped => ReadyMeansAllReady)
<1>1. Life => (grouped => ReadyMeansAllReady)
  BY DEF Life, Family, Follows, ReadyMeansAllReady
<1> QED BY <1>1, Lives, PTL

\* The user's context is entered above modules and middleware that are up, and a
\* mounted application starts and stops within its parent's life.
THEOREM Nesting == Spec => []LifetimesNest
<1>1. Life => ContextOnTop
  BY DEF Life, Settled, ContextOnTop, Framework
<1>2. Life => ChildInsideParent
  <2> SUFFICES ASSUME Life, NEW a \in Apps \ {Root}, status[a] \in {"STARTING", "SHUTTING_DOWN"}
               PROVE  Up(Root)
    BY DEF ChildInsideParent
  <2>1. lock[a] \in Calls /\ Busy(lock[a]) /\ AppOf(lock[a]) = a
    BY DEF Life, TypeOK, Settled
  <2>2. lock[a] \in Mounts /\ Root \in Calls
    BY <2>1, AppOfAssumption DEF Calls
  <2>3. pc[Root] = "children"
    BY <2>1, <2>2 DEF Life, Family, Active
  <2> QED BY <2>2, <2>3, AppOfAssumption DEF Life, Staged, Busy, Phases, At
<1> QED BY <1>1, <1>2, Lives, PTL DEF LifetimesNest
=============================================================================
