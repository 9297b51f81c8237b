------------------------------- MODULE Events -------------------------------
(***************************************************************************)
(* flama.models.transport.output.llm.event: what a generation is a         *)
(* sequence of. Tokens are -1, and a reason is "none", where the code has  *)
(* None; a channel is the sequence of symbols of its name.                 *)
(***************************************************************************)
EXTENDS Integers, Sequences

None == <<>>             \* an option without a value
Output == <<"output">>    \* ChannelPolicy.output

Start == [kind |-> "start"]
Text(channel, text) == [kind |-> "text", channel |-> channel, text |-> text]
ToolCall(name) == [kind |-> "tool", name |-> name]
Trace(tokens, reason) == [kind |-> "trace", tokens |-> tokens, reason |-> reason]
Stop(reason, tokens) == [kind |-> "stop", reason |-> reason, tokens |-> tokens]

=============================================================================
