----------------------- MODULE DesktopConversations -----------------------
(***************************************************************************)
(* The conversations of the desktop application: refreshRuntime of         *)
(* apps/desktop-ui/src/main.tsx starts a new foundation runtime whenever   *)
(* the provider presets change.  It hands the runtime the stores of the    *)
(* characters, the core book and the memory, but not the conversation      *)
(* store it has made, so that createFoundationRuntime                      *)
(* (runtime/bootstrap/src/index.ts) makes one that starts out empty.       *)
(***************************************************************************)
EXTENDS Conversations

\* The manager is a new one, too.  Calls in progress go on with the old one
\* and its store, which nobody looks at any more.
RefreshRuntime ==
  /\ store' = EmptyStore
  /\ calls' = [p \in Callers |-> Nobody]
  /\ before' = [p \in Callers |-> Nobody]

DesktopNext == Next \/ RefreshRuntime

DesktopSpec == Init /\ [][DesktopNext]_vars

\* "Chat ... persistent and scoped to {character.name}" (main.tsx:229) and
\* "UI still injects existing persistent conversation store into
\* FoundationRuntime" (tests/unit/conversation-ui-regression.test.ts:18): a
\* conversation that has been saved is there until it is deleted.
ConversationsPersist ==
  [][\A id \in Ids :
       Has(store, id) /\ ~Has(store', id) =>
         \E p \in Callers : At(p, "remove") /\ calls[p].id = id]_vars
=============================================================================
