------------------------------- MODULE StubLlm -------------------------------
(***************************************************************************)
(* The scripted stand-in for the model (syndicate/stub_llm.py), which the  *)
(* harness scripts put behind executor_node's one LLM call.  A script is a *)
(* sequence of turns; every conversation gets a client of its own, which   *)
(* starts the script from the beginning, repeats its last turn for ever,   *)
(* and records what it was sent.                                           *)
(*                                                                         *)
(* A recorded request is its number of messages; the tool results and the  *)
(* feedback that its messages carry are noted next to it, because that is  *)
(* what the scripts look up in the record.                                 *)
(***************************************************************************)
EXTENDS Integers, Sequences

VARIABLE clients   \* _client_history of the ticket, one client per conversation

tool_turn(calls) == [done |-> FALSE, tool_calls |-> calls]
complete_turn    == [done |-> TRUE,  tool_calls |-> <<>>]

\* set_stub_script forgets the clients of an earlier run.
set_stub_script == clients = <<>>

next_turn_Bug(script, call_index) ==  \* completes when the script is exhausted
  IF call_index < Len(script) THEN script[call_index + 1] ELSE complete_turn

next_turn(script, call_index) ==
  script[IF call_index < Len(script) THEN call_index + 1 ELSE Len(script)]

get_stub_client_Bug(informed) ==  \* one client for all conversations
  clients' = IF clients = <<>>
             THEN <<[calls_seen |-> <<>>, informed |-> informed, errors |-> 0]>>
             ELSE clients

get_stub_client(informed) ==
  clients' = Append(clients, [calls_seen |-> <<>>, informed |-> informed, errors |-> 0])

\* The client of the conversation going on, and how many requests it has had.
Current == clients[Len(clients)]
CallIndex == Len(Current.calls_seen)

\* messages.create records a copy of the list as it is now.
create(messages_len) ==
  clients' = [clients EXCEPT ![Len(clients)].calls_seen = Append(@, messages_len)]

\* The result of a tool goes into the next request.
ToolResult(is_error) ==
  clients' = [clients EXCEPT ![Len(clients)].errors = IF is_error THEN @ + 1 ELSE @]

-----------------------------------------------------------------------------
\* The context grows by the turn just taken and by nothing else: a conversation
\* starts from one message, whatever happened in the strikes before it, and the
\* record shows each request as it was when it was sent.
ContextCompact ==
  \A i \in DOMAIN clients :
    \A j \in DOMAIN clients[i].calls_seen : clients[i].calls_seen[j] = 2 * j - 1
=============================================================================
