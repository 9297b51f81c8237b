------------------------------- MODULE MC_Mcp -------------------------------
EXTENDS Mcp

MCEntries ==
    {[kind |-> "tool", key |-> "train", task |-> TRUE, stubborn |-> stubborn] : stubborn \in BOOLEAN}
    \cup {[kind |-> "template", key |-> "ui", task |-> FALSE, stubborn |-> FALSE]}

Date == "2026-07-28"
Plain(server, method, target) ==
    [server |-> server, method |-> method, target |-> target, envelope |-> "ok", id |-> TRUE, version |-> Date,
     tasks |-> FALSE, token |-> "none", headers |-> [method |-> method, name |-> target, version |-> ""]]
Sound ==
    {Plain("a", "server/discover", ""), Plain("a", "tools/call", "none"), Plain("b", "tasks/cancel", "")}
    \cup {Plain("a", m, "ui") : m \in {"resources/read", "prompts/get"}}
    \cup {Plain("a", m, "") : m \in {"tasks/get", "tasks/update", "tasks/cancel"}}
    \cup {[Plain("a", "tools/call", "train") EXCEPT !.tasks = task, !.token = token] :
             task \in BOOLEAN, token \in {"none", "held"}}
Faulty(r) ==
    {[r EXCEPT !.envelope = "no json"], [r EXCEPT !.envelope = "no object"], [r EXCEPT !.envelope = "incomplete"],
     [r EXCEPT !.headers.method = "ping"], [r EXCEPT !.headers.name = ""], [r EXCEPT !.headers.name = "other"],
     [r EXCEPT !.headers.version = "2025"], [r EXCEPT !.headers.version = "2025", !.version = "2025"],
     [r EXCEPT !.version = "2025"], [r EXCEPT !.id = FALSE]}
MCRequests ==
    Sound \cup {[Plain("a", "server/discover", "") EXCEPT !.headers.version = "2025"]}
    \cup Faulty(Plain("a", "tools/call", "train"))
    \cup {Plain("a", "initialize", ""), [Plain("a", "tools/call", "train") EXCEPT !.token = "garbage"],
          [Plain("a", "tasks/update", "") EXCEPT !.id = FALSE]}

MCReplies == {Stateless, [q \in {"city"} |-> 1], [q \in {"city"} |-> 2], [q \in {"day"} |-> 1]}
=============================================================================
