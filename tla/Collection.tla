----------------------------- MODULE Collection -----------------------------
(***************************************************************************)
(* What a resource promises its clients: every request takes effect on the *)
(* collection at one instant, as a whole, or not at all; the ones that are *)
(* answered well did, and the ones that are refused did not.               *)
(***************************************************************************)
EXTENDS Naturals

CONSTANTS Requests, Keys, Absent

VARIABLES
    rows,     \* the element under each key, named by the request that wrote it
    handler,  \* what each request asks for
    applied,  \* requests that took effect
    answer    \* what each request was answered

vars == <<rows, handler, applied, answer>>

\* The whole effect of a request: `writes` are the keys that have its element
\* afterwards, `clears` those that lose theirs.
Writes == {"create", "update", "partial_update", "replace", "partial_replace"}
Clears(h) ==
    IF h.verb \in {"replace", "drop"} THEN Keys
    ELSE IF h.verb = "delete" THEN h.keys ELSE {}

Effect(r) ==
    [k \in Keys |-> IF handler[r].verb \in Writes /\ k \in handler[r].keys THEN r
                    ELSE IF k \in Clears(handler[r]) THEN Absent
                    ELSE rows[k]]

Apply(r) ==
    /\ answer[r] = "none" /\ r \notin applied
    /\ handler[r].verb = "create" => \A k \in handler[r].keys : rows[k] = Absent
    /\ handler[r].verb = "partial_update" => \A k \in handler[r].keys : rows[k] # Absent
    /\ rows' = Effect(r)
    /\ applied' = applied \cup {r}
    /\ UNCHANGED <<handler, answer>>

Answer(r) ==
    /\ answer[r] = "none"
    /\ answer' = [answer EXCEPT ![r] = IF r \in applied THEN "ok" ELSE "refused"]
    /\ UNCHANGED <<rows, handler, applied>>

Init == applied = {} /\ answer = [r \in Requests |-> "none"]

Next == \E r \in Requests : Apply(r) \/ Answer(r)

Spec == Init /\ [][Next]_vars
=============================================================================
