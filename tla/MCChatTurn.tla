----------------------------- MODULE MCChatTurn -----------------------------
(***************************************************************************)
(* Instance of ChatTurn for TLC.  Payloads carry a text, a text with the   *)
(* usage, a text with the finish reason, a reason the provider does not    *)
(* know, malformed usage, malformed JSON and [DONE].  The conversations    *)
(* have messages older than the recent ones and a system message among     *)
(* them; one has no question.  The budgets are nearly sufficient, tight,   *)
(* too small for the newest but one message, and too small for the rest.   *)
(* The profiles follow the active preset, pin one, name a model, or a      *)
(* provider that exists or does not; the runtimes have two presets, one    *)
(* that is not valid, none, and none but a configured provider.            *)
(***************************************************************************)
EXTENDS ChatTurn

CONSTANTS a, b

MCTokens == {a, b}

Data(u, f, t) == [kind |-> "data", usage |-> u, finish |-> f, text |-> t]

MCPayloads ==
  {Data("none", "none", a), Data("ok", "none", b), Data("none", "stop", b),
   Data("none", "tool_calls", "none"), Data("bad", "none", "none"),
   Data("ok", "length", "bad"),
   [kind |-> "done", usage |-> "none", finish |-> "none", text |-> "none"],
   [kind |-> "junk", usage |-> "none", finish |-> "none", text |-> "none"]}

Message(role, tokens) == [role |-> role, tokens |-> tokens]

Entry(n, activation, matched, tokens, retention) ==
  [name |-> n, activation |-> activation, matched |-> matched, required |-> 2,
   all |-> n = 2, tokens |-> tokens, retention |-> retention,
   placement |-> n % 2]

Talk ==
  <<Message("user", 1), Message("assistant", 1), Message("system", 2),
    Message("user", 1), Message("assistant", 1)>>

Long == <<Message("user", 1), Message("user", 3), Message("user", 2)>>

Book1 == <<Entry(1, "always", 0, 2, 0), Entry(2, "keyword", 2, 1, 10)>>

Book2 == <<Entry(1, "keyword", 1, 1, 0), Entry(2, "regex", 2, 1, 0)>>

MCMemories ==
  {[name |-> 1, tokens |-> 1, importance |-> 100, confidence |-> 100],
   [name |-> 2, tokens |-> 2, importance |-> 10, confidence |-> 50]}

Case(messages, book, budget, retriever, on1, active1) ==
  [request |-> messages, book |-> book, budget |-> budget,
   retriever |-> retriever, enabled |-> on1, active |-> active1]

MCCases ==
  {Case(Talk, Book1, 7, r, {1, 2}, {1, 2}) : r \in BOOLEAN}
    \cup {Case(Talk, Book2, 5, TRUE, set, {1, 2}) : set \in {{1, 2}, {1}}}
    \cup {Case(Long, Book1, 4, TRUE, {1, 2}, set) : set \in {{1}, {2}}}
    \cup {Case(Long, Book2, 8, FALSE, {2}, {1, 2}),
          Case(<<Message("assistant", 2)>>, Book2, 3, TRUE, {1, 2}, {1, 2})}

-----------------------------------------------------------------------------
MCModels == {"fake-chat", "m1", "m2"}

Profile(model, p, id) == [model |-> model, preset |-> p, provider |-> id]

MCProfiles ==
  {Profile(None, None, None), Profile(None, "first", None),
   Profile("m2", "second", None), Profile(None, None, "openai-compatible"),
   Profile(None, None, "gone")}

Configuration(valid, model, lists) ==
  [sound |-> valid, enabled |-> TRUE, credential |-> TRUE, model |-> model,
   lists |-> lists]

First == Configuration(TRUE, None, {"m1"})
Second == Configuration(TRUE, "m2", {})
Invalid == Configuration(FALSE, "m1", {"m2"})

Both == [p \in {"first", "second"} |-> IF p = "first" THEN First ELSE Second]

Setup(presets, p, base) == [presets |-> presets, active |-> p, base |-> base]

MCSetups ==
  {Setup(Both, "first", First), Setup(Both, "second", Second),
   Setup([p \in {"first"} |-> Invalid], "first", Invalid),
   Setup(<<>>, None, None),
   Setup(<<>>, None, Configuration(TRUE, "m2", {"m1"}))}
=============================================================================
