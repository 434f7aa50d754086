# ai-companion-nova in TLA+

ai-companion-nova is the foundation of a desktop companion: a TypeScript core
(`src/core`), adapters to a Tauri host (`src/host`, `src/apps/desktop-host`), a
React user interface (`src/apps/desktop-ui`), providers and modules. This
directory holds TLA+ modules of the parts of it that keep state across awaits,
TLC configurations that check them on small instances, and TLAPS proofs of the
safety properties that matter most. `PROJECT.json` says, definition by
definition, which lines of the source a module models.

Contents: [the system](#the-system), [the modules](#the-modules),
[runs and bounds](#runs-and-bounds), [fairness](#fairness),
[proofs](#proofs), [disagreements found](#disagreements-found),
[what is not modelled](#what-is-not-modelled), [plan](#plan).

To check: `tlc -config MCMemory.cfg MCMemory` (and so on for the configurations
listed below), `tlapm CharactersProofs.tla` (and so on for the `*Proofs`
modules).

## The system

One thread runs the core. What makes it hard is that almost every operation
awaits something (a store behind IPC, a provider's stream, a module's hook,
the subscribers of an event), and that nothing in the core is locked
meanwhile: a second operation may begin while the first one waits, and the first
goes on with what it has read before. The stores on the Tauri host are
commands that take a lock or run one after the other.

| Component | State it keeps | Operations | Interacts with |
|---|---|---|---|
| chat session (`core/src/chat-session.ts`) | messages, the active run and its abort controller, status, profile | submit, stop, continue, regenerate, retry, clear, subscribe | context engine and AI runtime (awaited), provider events (callback), UI (listener) |
| conversation manager (`core/src/conversation-manager.ts`) | none; works on its store | list, get, create, rename, update, delete, setActive, getActive, ensureDefault | conversation store, event bus |
| conversation stores (`host/conversations`, `conversations.rs`) | conversations and the active one of every character | list, get, save, delete, getActive, setActive | file on the host |
| character manager (`core/src/character-manager.ts`) | characters, active character, initialized | initialize, create, update, delete, setActive | character store, event bus; the runtime starts with it |
| core book (`core/src/core-book-manager.ts`) | cache of the entries per character | list, get, create, update, delete, enable | core book store, event bus |
| memory broker (`core/src/memory-broker.ts`) | none; works on its store | get, search, create, update, supersede, archive | memory store, audit, event bus |
| retrieval indexer and index (`core/src/retrieval-indexer.ts`, `retrieval.rs`) | subscriptions; the full-text index | handlers of memory, core book and character events; rebuild, search | event bus, memory broker, host |
| context engine (`core/src/context-engine.ts`) | none | collect candidates, fit them into the token budget | memory, core book, retriever |
| AI runtime and provider (`core/src/ai-runtime.ts`, `providers/chat/openai-compatible`) | registered providers; per request a reader and a timeout | stream, generate, chat, listModels | chat session, HTTP |
| module manager (`core/src/module-manager.ts`) | registered modules, their lifecycle state and health | register, initialize, start, stop, restart, enable, disable, health, initializeAll, startAll, stopAll | hooks of modules, event bus |
| action broker and security (`core/src/action-broker.ts`, `security.ts`) | permission rules | execute: validate, resolve, check, confirm, drive, audit; add a rule | tools, drivers, confirmation |
| event bus, state store, audit, registries | subscriptions, values, entries | publish, subscribe, set, record | everything |
| composition root (`runtime/bootstrap`) | the runtime and its status | start, stop, rebuildRetrieval | everything |
| user interface (`apps/desktop-ui/src/main.tsx`) | the runtime, the selected character and conversation, controllers per conversation; provider presets and credential profiles | refreshRuntime, startup, selection, persistence of a chat, operations on presets and credentials | runtime, chat session, conversation manager, configuration stores |
| configuration stores | one value each, in a file | load, save | host |

What makes each of them correct, and what is hard about it:

* **Chat session.** One run at a time; the answer of a run goes into its own
  message whatever arrives late; stop wins over an answer that is on its way;
  a continuation only grows the text; a run that fails restores what it found
  or keeps a part and says so; every run ends. Hard: provider callbacks,
  context and response each resume a run at a moment when it may have been
  stopped.
* **Conversations.** The store can always be loaded again; a character keeps a
  conversation; none is lost but by its deletion; callers and subscribers are
  told the conversation that is really active. Hard: get and save are
  separate commands, and deletion consists of several.
* **Characters.** One existing, enabled character is active; the file never
  needs repair; memory and file agree in the end. Hard: memory is changed
  before the save, which may fail; up to three events follow.
* **Memory and its index.** A call changes what it is about; inactive items are
  history; policies hold; a superseded item has one successor; the index is a
  function of the memory. Hard: three of four operations are load, change, save;
  the index follows through events whose failures are swallowed.
* **Modules.** What is reported as running runs; a disabled module stays so; a
  sweep reaches every module; an optional module cannot stop the others. Hard:
  hooks answer late, diagnostics asks for health once a second meanwhile.
* **Core book.** The cache that every reader sees is the file; an entry whose
  creation was confirmed stays. Hard: the cache is changed before the save, two
  loads overtake each other, manager and host measure a title differently.
* **Files on the host.** A file is whole whenever the machine stops; what a
  command has confirmed is in it; a damaged one is kept aside; a deleted
  conversation does not return from the legacy file. Hard: four steps, any of which
  may fail or be the last.
* **Context engine.** The budget is kept, the recent messages come without a gap
  and the question last, and nothing withdrawn is used. Hard: three sources
  collect over several awaits, one of them through an index that may be stale.
* **AI runtime and provider.** The consumer gets the server's text once and in
  order; a call settles, and says truly how. Hard: timer, abort, end of body,
  malformed payloads and a slow consumer race.
* **Choice of model and provider.** A request names a model of the preset it is
  sent to. Hard: profile and preset are read on both sides of an await.
* **Presets and credentials.** What the user was told is saved is in the file;
  no secret goes that a preset uses; the runtime in use runs and serves the
  active preset. Hard: every operation computes a list, awaits its save and only
  then keeps it, a save removes the file before it puts the new one in its place, a
  renewal of the runtime awaits two more, the migration of an older version's
  configuration saves two files, and the settings can be used before the startup has
  loaded anything.
* **Action broker.** A driver runs only when everything required was granted,
  and inside the scope of a rule; the audit is true. Hard: each grant is
  awaited, and rules change meanwhile.

## The modules

**ChatSession** is `ConversationSession` with `ChatSessionController`. `messages`,
`status`, `sending` and `activeRun` are the fields of the same names; `runs`
holds, for every run started, the local variables of its `run()` and its `stage`,
the await it stands at (`context`, `request`, `stream`, or `done`). One action per
operation of the user (`Submit`, `Stop`, `Continue`, `Regenerate`, `Retry`,
`Clear`, `Reopen` for the controller the interface makes from a stored
conversation) and one per way a run is resumed (`ContextBuilt`,
`ContextBuiltAfterStop`, `ContextFails`, `RequestBuilt`, `Delta`,
`ProviderResponds`, `ProviderFails`, `ProviderAborts`), each with the catch and
finally blocks it runs into. A text is a sequence over a small alphabet, as the
removal of repeated text in a continuation is about texts.

**ConversationStore** holds the functions both conversation stores compute, from
state to state; **Conversations** is the manager upon it: a call is a record with
its program counter, cut at every await, and every await may reject.
**DesktopConversations** composes it with `refreshRuntime` of the interface,
which starts a new runtime.

**ModuleLifecycle** is the module manager. A call is one operation with the
modules it has still to reach; a step is the code between two awaits, whose
outcome (the hook fulfils or rejects) is chosen when it settles. What a module
really does (`live`) is kept beside what the manager reports, so that they can
be compared. Registration comes before all operations and is the constant
`Order`.

**Characters** is the character manager with the queue of its saves, the
store, restarts of the program and a subscriber who follows its events. An
operation changes `memory` and queues a save of all of it; `SaveSettles` ends
the save well or not; `Publish` publishes one event. The first store is anything
an earlier program, or an editor of the file, may have left that validates.

**Memory** is the memory of one character: broker, store, indexer, index. A call
that saves carries the state it has loaded and changed; `SaveState` puts it over
whatever is there. `SupersedeInStore` is the command of the store, which looks
at the present state. The call then carries the tasks of its event's handler:
`ReadItem` and `WriteIndex` are separate, `HandlerFails` leaves the rest undone.

Variables that are no state of the program (`alone`, `live`, `before`, `current`,
`heard`, `failed`, `told`, `sent`, `broken`, `altered`, `confirmed`, `lost`,
`promised`, `since`, `granted`, `drove` and some more) are named as such in the header of the module. They serve the
properties, never a guard of an action.

**ProviderStream** is one call of `AiRuntime.stream` or `generate` with the
provider behind it. `stage` is the await it stands at; a chunk of the body
(`ReadChunk`) brings payloads and may cut one off (`tail`), `TakePayload` turns a
payload into the events for the consumer (`todo`), `TellConsumer` hands one over
and waits. `TimerFires` and `Abort` come in between any two steps; `Throw` is the
pair of catch blocks that decides what a failure is called. **StreamContract**
says what a caller may rely on, in five variables: pieces, at most one final event,
and a promise that settles in accordance with it.

**ContextBuild** is `DeterministicContextEngine.build`. The sources collect step
by step (`ListEntries`, `RetrieveEntries`, `SearchMemories`, `ReadMemory`) while
entries are disabled and memories archived; `Build` is the pure part: `Candidates`
are what the sources make of their finds; `Offers` is the order in which the three
loops of `build` offer them a place, `Select` walks along it and takes what fits (a
recent message that does not fit ends its loop, which is `Resume`), and `Place` puts
what was taken in the order of the final sort. **ModelRouting** is `buildRequest` of
the session and the resolution of providers in the bootstrap: `Choose`, `Offered`
and `Send` are the code between its awaits, `SetModelProfile` and `RenewRuntime`
what the user does meanwhile. **ChatTurn** composes the two with ProviderStream
to the turn of `ChatSessionController.run`: context, then request, then call.

**CoreBook** is the manager of a core book, the queue of its commands and the file
on the host. A call waits for its load or its save (`calls`); the host takes one
command at a time and replaces the file in four steps (`HostCreates`,
`HostWrites`, `HostRemoves`, `HostRenames`), between which `Crash` and
`HostSaveFails` come. **ConversationFile** is the host's side of the
conversations: every command loads (`LoadCurrent` with its quarantine,
`LoadLegacy` with its migration), changes (`Apply`) and saves. **HostFiles** puts the
two side by side; a behaviour follows one of them.

**ProviderPresets** is the part of `App` that keeps provider presets and credential
profiles. `presetState` and `profileState` are the two refs, `presetFile`,
`profileFile`, `secrets` and `legacy` what the host has, `foundation` the runtime in
use among those `running`. A call carries what it is going to save. The host
takes one command at a time (`queue`) and performs it in steps of its own: a save of
either file removes the old one and renames the new one into its place
(`HostRemovesPresets`, `HostRenamesPresets`, and the same for profiles), every other command is
one step. `CommandFails` may come before each of them, so that a save refused at the
rename leaves no file, and `Crash` between any two. The answer is an action apart,
which comes any time later (`PresetsSaved`, `SecretSet`, `ProfilesSaved` and so on) and
does what the operation does until its next await; between the two the file holds what the
user has not been told. The effect that starts the application is a call of its own, with
the migration (`Migrates`, `ProfilesMigrated`, `PresetsMigrated`); the renewal of
the runtime is `Renewing`, `RuntimeStopped`, `RuntimeStarted` or `StartFails`.

**ActionBroker** is `execute`, cut at every await, for several calls, with the
permission service as a list of rules that grows meanwhile. **Scopes** has the
comparison of a scope with a target, and next to it (`Covers`, `Location`) what the
comparison should mean, defined without the stack of the code. **ScopedBroker**
composes them.

In the source's place of long values the models have small ones: dates are left
out, except where an order is visible through them (the listing of
conversations); titles, names, tags, scores and audit entries are left out.

## Runs and bounds

| Run | Instance | Distinct states | Shows |
|---|---|---|---|
| `chat` | 3 runs, texts of at most 2 of 2 symbols, deltas of one or two symbols | 13,731 | `OneRunAtATime`, `AnswerFollowsQuestion`, `BystandersUntouched`, `StopWins`, `FruitlessRunKeepsAnswer`, `ContinueOnlyExtends`, `EveryRunSettles` |
| `conversations` | 2 characters, 1 identifier besides the default ones, 2 texts, 2 callers, symmetry | 1,137,073 | `StoreLoadable`, `AloneCallsDeliver`, `KeptUntilDeleted`, `NeverLeftEmpty` |
| `lifecycle` | 1 required and 1 optional module, 2 callers | 205,067 | `RunningIsLive`, `SweepsReachAll`, `DisabledUntilEnabled` |
| `characters` | the default character and 2 others, 2 callers, symmetry | 2,213,946 | `ActiveIsEnabled`, `StoredNeedsNoRepair`, `SavedWhenQuiet`, `SubscribersFollow` |
| `memory` | 2 items, 2 contents, policies locked and auto, 2 callers, one the user and one a worker with `memory.write.auto`, symmetry | 800,990 | `IndexMirrorsMemory`, `OthersUntouched`, `PoliciesHold`, `SupersedesOnce` |
| `turn` | eight worlds of conversation, core book and memories; 5 profiles, 5 runtimes; 8 payloads, 4 of them sent in chunks of at most 2 | 255,064 | `CauseIsTrue`, `ConsumerSeesTheStream`, `SelectionFollowsRules`, `QuestionComesLast`, `NothingWithdrawn`, `ModelFitsDestination`, `TurnKeepsContract` |
| `host_files` | core book: 2 callers, 2 entries, 1 failure, 1 crash; conversations: 2 identifiers, 2 texts, 2 damages, 1 failure, 1 crash; symmetry | 2,621,870 | `FileIsWhole`, `Durable`, `QuietCacheIsFile`, `FileFollowsCommands`, `FirstDamageKept` |
| `action_broker` | 2 calls of 14 requests, 2 of 4 rules, 5 tools, symmetry | 1,453,108 | `RunsOnlyCleared`, `RecordedOnce`, `RunsInScope` |
| `presets` | 2 presets, 2 credentials, with and without a configuration of an older version, 3 operations (2 once they overlap), 2 failures, 1 crash, symmetry | 1,260,275 | `FileHoldsConfirmed`, `RuntimeServesActive`, `SecretsInUseStay` |
| `retry_last`, `conversations_persist`, `restart` | smaller ones | | the disagreements below |

Why these bounds are enough:

* Three runs of a chat are a run before, the live one and one after: a late
  event of the first can meet the second and the third, and a retry or
  continuation can follow a failure that followed a success. `MaxRuns` bounds
  the number of runs and `MaxText` the length of an answer; at the bound of runs
  no operation that starts one is enabled, which is why `chat` may end.
* Two callers are enough for one call between any two steps of another. Three
  calls add nothing new of the kind the code is exposed to (lost update,
  overtaken write); the proofs, where there are some, hold for any number.
* Two characters and three identifiers (a default one each, one created) let a
  conversation be the last of its character, be one of two, and belong to
  another character. Conversations and memories of different characters meet in
  the first module; the memory of different characters lies in different files,
  hence one is enough.
* Two memory items are one that supersedes and one superseded; two contents tell
  a stale document from a fresh one. The policy `suggest` differs from
  `auto` in the name of a capability only.

* The payloads of `turn` are one of each kind that the provider tells apart: a
  text, a text with usage, one with a finish reason, a reason it does not know,
  malformed usage, a malformed text, malformed JSON and `[DONE]`. Four of them in
  chunks of two give every cut inside and between payloads, with something before
  and after. `MaxSent` and `MaxChunk` bound them.
* The worlds of `turn` have budgets that are nearly sufficient, tight, too
  small for the newest message but one, and too small for the rest; books whose
  entries apply always, by keyword (one or all) or by pattern; with and without a
  retriever, a question, a withdrawn entry or memory. Profiles follow the
  active preset, pin one, name a model or a provider that exists or does not;
  runtimes have two presets, an invalid one, none, or only a configured provider.
* Two entries, two callers, one failure and one crash are an entry confirmed
  before, one on its way, a load overtaken by a save, and a failure after which
  something is still saved. For the conversations, two damages are what the
  quarantine tells apart (the first is kept aside, the second is not).
  `MaxEntries`, `MaxFaults`, `MaxCrashes` and `MaxHarms` are the bounds.
* Two calls of the broker share nothing but rules and audit; two rules are one that
  allows and one that forbids, in either order and at any moment. `MaxRules`
  bounds them; the proof does not. Paths of rules and canonical targets are
  absolute and stay within their root, as the canonicalization of the host gives
  them.
* Three operations on presets one after the other are a deletion that stops
  halfway, a preset that takes the credential again, and the deletion tried once
  more; one crash gives the startup a second turn over what the first has migrated, or
  over what a save has left of the files. Of two failures one may be a rename refused
  after the file was removed, which the next save repairs or another failure follows.
  Once operations overlap two are enough (`MaxOverlapping`), as the properties then
  speak of the runtime in use alone. `MaxRuntimes` bounds the runtimes there are at
  once: three are what a startup and two renewals leave.

`TurnKeepsContract` is a refinement: ChatTurn implements StreamContract, where the
phase of the turn is that of the call once there is one. That a turn settles is part
of it. Two things about it are worth knowing. A provider without a stream
has no timer, so that only its answer ends the call. And a consumer that
never returns is bounded by no timer: fairness has it return, as the session's
`onEvent` does, which awaits nothing.

Properties that hold only without company say so with `alone`: the code makes no
attempt to order overlapping operations, and with company they are false. What
holds with any company (`ActiveIsEnabled`, `RunningIsLive`, `StoreLoadable`,
`SupersedesOnce`, `KeptUntilDeleted` and others) is stated without it. For every
property of these runs, `PROJECT.json` names a mutation of the modelled code
which violates it.

`Durable`, `FileFollowsCommands` and `FileHoldsConfirmed` say what the code does not
guarantee by naming the exceptions. One is common to all: between the removal of the
old file and the renaming of the new one there is none, and an end of the program in between,
or a refused rename, loses everything in it (`conversations.rs:247`, `core_book.rs:143`,
`provider_presets.rs:73`, `credential_profiles.rs:86`). For the core book there is a
load that was under way while the cache changed, whose answer replaces the newer cache; for
the presets, operations that overlap or come before the startup has loaded. TLC reaches all
of them; the history variables `lost`, `promised`, `missing` and `overlapped` record
them, and the properties cover everything else. In `FileHoldsConfirmed` a file that a refused
rename has taken away is excepted until the next save, which puts all the presets
back as `App` has kept them; when the program ends before that, the promise
starts anew with nothing, and the migration is repeated.

Reading `OthersUntouched`, `PoliciesHold`, `IndexMirrorsMemory`
in the light of `alone`: an update that has loaded an item can bring it back after
another call has superseded it, and drop its replacement; an archive can be
applied under a policy that the user has changed meanwhile; a read of the
indexer can be overtaken by a removal, after which the index keeps what is no
longer active until the next rebuild. The candidates of a context are read from
the broker once more (`MemoryCandidateSource.collect`), so that a stale index
costs a candidate and leaks none: `NothingWithdrawn`.

## Fairness

Two properties need any. `EveryRunSettles` assumes weak fairness of three steps of
every run: the context settles, the request is built, and the provider
settles. The second is synchronous code. The provider has a timeout of its own
(`providers/chat/openai-compatible/src/index.ts`), so that a stream ends. The
first awaits IPC calls of the local host, which answer. Nothing is
assumed of the user or of late events. `FaultyEndRun`, whose finally block leaves
`sending` set, violates the property under the same fairness.

`TurnKeepsContract` assumes weak fairness of the steps that wait for no more than
the event loop, the stores and the retriever, the listing of models (which has
a timeout) and the consumer (`TurnOwnStep`), and of the timer once it is set
(`TimerFires`). The server owes nothing: it may stay silent at any point. With
`FaultyTimerFires`, which fires only before the response's headers, a call whose
body stalls never settles.

## Proofs

| Module | Theorems | For every |
|---|---|---|
| ChatSessionProofs | `TypeCorrect`, `OneRunAtATimeHolds`, `AnswerFollowsQuestionHolds`, `BystandersUntouchedHolds`, `StopWinsHolds`, `FruitlessRunKeepsAnswerHolds`, `ContinueOnlyExtendsHolds` | number of runs, alphabet, set of deltas, length of answers |
| ConversationsProofs | `StoreLoadableHolds`, `KeptUntilDeletedHolds`, `NeverLeftEmptyHolds`, `AloneCallsDeliverHolds` | characters, identifiers, texts, callers, over either host's store |
| CharactersProofs | `CharactersTypeCorrect`, `ActiveIsEnabledHolds`, `StoredNeedsNoRepairHolds`, `SavedWhenQuietHolds`, `SubscribersFollowHolds` | set of characters, set of callers |
| MemoryProofs | `IndexMirrorsMemoryHolds`, `OthersUntouchedHolds`, `PoliciesHoldHolds`, `SupersedesOnceHolds` | memories, contents, policies, callers and their authority |
| ModuleLifecycleProofs | `LifecycleTypeCorrect`, `RunningIsLiveHolds`, `DisabledUntilEnabledHolds`, `SweepsReachAllHolds` | set of modules, required or optional, order, set of callers |
| HostFilesProofs | `HostRunsBoth`, `CoreBookTypeCorrect`, `FileIsWholeHolds`, `DurableHolds`, `QuietCacheIsFileHolds`, `FileFollowsCommandsHolds`, `FirstDamageKeptHolds` | set of callers, conversations, texts, numbers of entries, damages, failures and crashes |
| SecurityProofs | `BrokerTypeCorrect`, `RunsOnlyClearedHolds`, `RecordedOnceHolds`, `RunsInScopeHolds` | set of calls, requests, identities, tools, rules, any number of rules; the last for domains, paths and roots of any length, the others for any comparison of scopes |
| | `PresetsTypeCorrect`, `FileHoldsConfirmedHolds`, `RuntimeServesActiveHolds`, `SecretsInUseStayHolds` | presets, credential profiles, callers, numbers of operations, failures and crashes |
| ChatTurnProofs | `StreamTypeCorrect`, `CauseIsTrueHolds`, `ConsumerSeesTheStreamHolds`, `StreamKeepsContract`, `TurnKeepsContractSafely`, `ModelFitsDestinationHolds` | texts, payloads, number of payloads and size of chunks; worlds, profiles, runtimes |
| | `SelectionFollowsRulesHolds`, `QuestionComesLastHolds`, `NothingWithdrawnHolds` | conversations, core books, memories, budgets, answers of listing, retriever and search |

Each module also has the theorem of its inductive invariant (`Invariance` and
the like), which the others rest on. The proofs of ChatTurn cover ProviderStream,
ModelRouting and ContextBuild, those of HostFiles cover CoreBook and ConversationFile, those of
Security cover ScopedBroker and ProviderPresets.

The assumptions are those of the modelled modules, and TLC evaluates them in the
runs: a model value that stands for "nothing" is none of the things there are
(`NobodyAssumption`, `NothingAssumption`, `NoneAssumption`), the default character
is a character, a policy is one of the three, `MaxRuns` is a natural number and
the like. `NoFileAssumption` says the same of a file that is not there, and
`ScopesAssumption` that the broker compares scopes by `Matches` and that scopes and
targets are of their types, with roots that do not lead out of the top directory (for which
`normalizeFilesystemPath` throws). `TalksAssumption` of HostFiles are the assumptions that ConversationFile
makes and that instantiating it does not bring along. `ContextAssumption` of ChatTurn
says what validation lets through: lengths and budgets are natural numbers, weights of
memories and priorities of entries lie between 0 and 100
(`contracts/schemas/memory-item.schema.json:14`, `core-book-manager.ts:91`), a keyword
entry has a keyword (`core-book-manager.ts:107`), the entries of a book have distinct
identifiers, and `recentMessageCount` is positive (`context-engine.ts:352`).

*Chat.* The inductive invariant is `TypeOK`, the two properties, `NumbersOK` and
`LiveOK`. `AnswerFollowsQuestion` is not inductive: `Rollback` puts back a message
that the closure of the run has kept, and `Placeholder` appends one. It takes
`LiveOK` to know that the live run's original, if it has one, is found
in the session, and otherwise that its question is last. The action properties
compare the answer before and after a step. They need `AnswerInv`: until its
stream begins a run finds the answer it keeps as its original as it was, so that
what a rollback puts back is what the reader has seen.

*Conversations.* `SafeInv` says of the store that it can be loaded (`Sound`) and
which identifiers the conversations of a character may have: those made by
`create` and the character's own default one. `StoreLoadable` alone is not inductive,
because the host replaces the last conversation by one with the default
identifier and never asks whether another character has it. That an active
conversation is owned as soon as there is any is what makes `save`, which leaves
the active one alone, harmless. `CallInv` follows a call that is alone with its
character (`AloneWith`) from command to command (`Progress`): what it
has done so far, relative to the snapshot of its beginning. `AloneCallsDeliver` is
the last line of it.

*Modules.* `TypeOK`, `RunningIsLive` and `HasTarget` (a call waits for a
module only while it has one). The step lemma that shows `RunningIsLive`
preserved also gives the action property `DisabledUntilEnabled`. `SweepsInv` adds
what `SweepsReachAll` needs: a sweep that is alone but for health checks
(`Sole`) has every module either behind it, with what it promises (`Done`), or
still ahead. A health check may turn a module's state under the sweep, but only
to `error` or between `running` and `degraded`, which is why `Done` stays.

*Characters.* `TypeOK`, the first three properties, and what ties memory to store:
every save on its way is sound (`SavesSound`), the last one in the queue is the
memory (`LastSaveIsMemory`), nothing is on its way before the manager is
initialized (`QuietBefore`), and what is stored validates (`StoredLoadable`).
Without `LastSaveIsMemory`, `SavedWhenQuiet` is not inductive: the queue's head
becomes the store, and nothing would say it is the memory when it is also the
last. For `SubscribersFollow`, `FollowInv` says where subscribers would be after the
events an operation has still to publish (`EventsTell`); there are three at most, so
that what a sequence of them does can be written down without recursion.

*Memory.* `MemoryInv` is about a call that nothing overlaps. Nobody else is in
progress (`Company`), what it has found in the store is still there, and what it
saves differs from the store in its own item only (`Intended`). Its handler, once
it is under way, removes only what is no longer active and holds a document
that is the item as it is (`Following`). While the index is excused from nothing
it is wrong at no item but those in the tasks of a handler (`Mirror`), and when no
call is in progress there are none: that is `IndexMirrorsMemory`. `Prepared` holds
with any company. `SupersedesOnce` needs no more than that, because the
store's command looks at the state as it is.

*Action broker.* `TypeOK` and, for every call, `Passed` (what the stage it has
reached says it has been granted), `Honest` (what its result says of the driver)
and `Recorded` (its entry in the audit). `RunsOnlyCleared` speaks of calls at the
driver and after; it is not inductive without what `Passed` says of the stages before.
That a rule added later takes nothing back rests on the permission being judged on
a prefix of the rules (`RuleStep`).

*Scopes.* `RunsInScope` says that what a driver is called with is covered by a
scope, and `Covers` knows no stack: a path leads to the directories that were entered and
never left again (`Location`). That the stack of the code holds just these is
`NormalizedIsLocation`, by induction over the parts of the path (`Holds`, `PushedHolds`):
a name puts one directory on the list, `..` takes the last off, because of all that are
open it is the one entered last (`Lists`, which also says how deep one is below each).
The library's induction theorems cannot be instantiated here; `Induct` takes its place,
for a set of numbers instead of an operator, from the minimum that a well-founded
relation gives every non-empty set (`WFMin`). `MatchesCovers` is then the case analysis, and
`RunsInScopeHolds` follows from `RunsOnlyClearedHolds`.

*Presets.* `PresetsSafe` holds whatever overlaps: types, what each operation may wait
for and what its record holds there (`Shaped`), that its command is in the queue exactly
once and leaves it with the answer (`Queued`), and that the runtime in use runs, or a
renewal is about to start one, or the last one failed (`Renewed`). `OneByOne` holds while
no two operations have overlapped. Then at most one is under way (`Alone`), and for
whichever that is, what `App` keeps is what the files hold (`Agree`), unless a save has
removed one of them or its answer is still on the way; no runtime but the one in use runs
(`Stopped`), and it serves the active preset (`Serving`) unless a renewal is on its way.
`FileHoldsConfirmed` is not inductive: that a save writes what is promised takes `Course`,
which says of every await of every operation how what it is going to save differs from what
`App` keeps (by the one preset it is about, or during the migration by all), and,
between the host's answer and the continuation, that the file is exactly that.
The removal of a file changes nothing but the file and `missing`, and everything that
`Agree` says of what `App` keeps must carry over it, because the next save
writes from there. `SecretsInUseStay` takes the line of `Course` about a deletion, whose
look at the presets came before the await.

*Core book.* What was confirmed must be followed from the cache through the queue
of saves to the file. `Kept` says that it is in all three (and in the answer to a
load while nothing is cached), `OnItsWay` that what a pending save creates is in
that save and in every later one, `Arrived` that after the save's answer it is in
the file, `Synced` that the last save in the queue is the cache or, without one,
the file is. They need the order of the commands: a call has one
command at most (`Orderly`), the file being written is that of the first save
(`Replacing`), nothing is saved before the cache is filled (`Blank`), no two
creations share an identifier (`Fresh`). `Durable` alone is not inductive: the step
that removes the old file is safe only because every later save still has the entry.

*Conversation file.* `TalksInv` has `FileFollowsCommands` and what the command
in hand has loaded: unless it migrates, the loaded state keeps all that is promised
and nothing that was deleted (`LoadedKeeps`), and once changed it has what the
command asks for (`TalksApplied`). What a command is about is not promised
otherwise while it runs (`Widened`), and something is known to be deleted only while
there is a file in use that can be decoded, or one about to be renamed to it
(`DeletedFromFile`), because otherwise the legacy file would be migrated. `Course` is
the order of the four steps. `DamageInv` says where the first damaged file is.
`HostRunsBoth` carries all of this, and the invariant of the core book, over to
behaviours of HostFiles.

*Turn.* Of the call: `TypeOK`, `CauseIsTrue`, and what ties the stage to what was
told: `LastTold` (while an error is reported it is the last event, and before that the
last is a completion exactly when the call is completed) and `InHand` (a
completion is the last step of the payload in hand). `StreamKeepsContract` is the
safety part of the refinement: under the mapping at the end of ProviderStream every
step is a step of StreamContract or leaves its variables alone. Without
`InHand`, a second final event could not be excluded.

`ConsumerSeesTheStream` relates the events told to the payloads the server has sent,
and says nothing of what lies between them: the buffer, the unterminated payload
kept across chunks and the steps of the payload in hand. `Sees` does. `Layout`:
buffer and unterminated payload are exactly the end of what was received, and
`Taken` is the number of payloads taken apart so far. `Upcoming`: between payloads
the text of everything taken has been told; within one, all but its own, which is the
last step in hand, and nothing follows a `[DONE]`. `Speech` and `FinalsLast` tie the
text collected to the deltas told; `Opened`, `Closed` and `Answered` carry that
through a failure, a completion and the answer. Texts at the positions of a
sequence are compared by rank (`Rank`, `Opening`, `Whole`), not by filtering the
sequence, so that `WholeExtends`, `WholeOpens` and `HeardOpens` need the cardinality
of finite sets and no induction. TLC has checked `Sees` on the bounds of the
run `turn`.

`TurnKeepsContractSafely` is the refinement of the whole turn, under the mapping at
the end of ChatTurn. It takes `InTurn`: a call does not begin before the request is
sent, and the context is done before the request is asked for. `TurnSees` carries
`Sees` over to the turn. `RouteInv` is the invariant of the choice of model
and provider: what was copied before an await is still what the profile and
runtime say, unless the user has altered them.

*Context.* `Build` is one step, so that the invariant is about what is there before it
(`Collected`: which entries and memories the sources may have; `FoundOnce`: no memory is
found or recalled twice) and after it (`WhatIsBuilt`). The work is in the step.
`Select` is a recursive function from the offers' positions and the tokens left to the
sets taken; that there is such a function at all is `TakenExist`, by well-founded
recursion, and `SelectTakes` unfolds it one offer at a time. `SelectKeeps` goes
backwards over the offers, for all amounts left at once: what is taken from there on
weighs no more than is left (`OneTaken`), and nothing is forgotten: whoever is refused
is too heavy for what all offered before leave, or stands behind a recent message
that was (`OneRefused`). `Size`, a sum along the placed messages, becomes a sum
over the chosen positions (`Total`, `SizeIsTotal`, `SizeOfPlaced`), which does not
depend on order. Both orders, that of the offers and that of the final sort, are
strict and total (`OffersAreOrdered`, `PlacesAreOrdered`); ranks in a finite set then
give lists without gap or repetition (`RankCounts`, `ListedByRank`). That an entry
which always applies yields to no memory and no older message is arithmetic about the
scores: at least 150 for the one, at most 140 for the others (`ScoresDecide`,
`MessagesAre`, `EntriesAre`, `MemoriesAre`). For `QuestionComesLast`, the newest
message is a recent one and thus the first to be offered a place after the system's
(`NewestIsRecent`), and its zone is placed last. `NothingWithdrawn` follows from
`Collected`, because what is placed is one of the candidates.

Model-checked only: liveness (`EveryRunSettles`, and of `TurnKeepsContract` that a turn
settles), which is out of the prover's reach, as ENABLED is. Every invariant and every
action property of the passing runs is a theorem, and so is the safety part of the
refinement.

## Disagreements found

* `retry_last` — a retry after a later question has failed takes the last answer,
  which belongs to an earlier question, and overwrites it
  (`core/src/chat-session.ts:241`).
* `conversations_persist` — a renewed runtime is started without the
  conversation store and therefore with no conversations
  (`apps/desktop-ui/src/main.tsx:1116`).
* `restart` — restarting a running module leaves it stopped
  (`core/src/module-manager.ts:76`).

Each is a run that TLC ends with a counterexample; `PROJECT.json` quotes the
line of the documentation, interface or test that promises otherwise. Of the
disagreements that no run shows: a retry after the very first question has failed
throws before the provider is asked, because without an answer to replace
`replaceMessage` is called with a fresh identifier (`core/src/chat-session.ts:309`;
`tests/unit/chat-session.test.ts:282` says "Retry succeeds"); `save_memory_state` of the Tauri host takes an
argument that `IpcMemoryStore` does not send (`main.rs:173`,
`host/memory/src/index.ts:50`); `docs/runtime.md` describes conversations
as not persistent; the deletion of the last character announces no
`ActiveCharacterChanged` (`core/src/character-manager.ts:174-181`), although
`docs/characters.md` says that switching the active character emits it;
`docs/provider-configuration.md:62` says that a valid, enabled configuration makes
the application select the OpenAI-compatible provider, which `chat` does
(`bootstrap/src/index.ts:308`) and `stream` does not when neither preset nor provider
is named (`core/src/ai-runtime.ts:314` takes the first provider registered, the
fake one); the interface always has an active preset, so that it is not seen there.

Other behaviour that a reader of the models should know, and which no document
speaks of:

* A title of at most 200 UTF-16 units may exceed the host's 200 bytes
  (`core-book-manager.ts:88`, `core_book.rs:107`). The entry stays in the cache, and
  every later save of that book is refused until it is changed or deleted.
* After a damaged `conversations-v2.json` has been set aside, the next load
  migrates the legacy file again, with conversations deleted since.
* A permission revoked while a confirmation is awaited does not stop the driver. An
  audit that fails makes `execute` reject after the driver has run
  (`action-broker.ts:139`).
* A question that does not fit beside the system messages is left out of the
  context without notice; a memory whose reading rejects fails the whole build
  (`context-engine.ts:80`).
* Stop during the choice of a model does not end the run: the request goes to
  `stream` with a raised signal.

* A preset saved while "+ Add new credential" is chosen names `__new__` as its
  credential profile (`main.tsx:598`) and goes without a credential. "Save as new
  preset" takes the credential of the draft, not the chosen one, and after the
  deletion of the last preset that draft may name a profile deleted since
  (`main.tsx:585-588`, `611`).
* Saving a new or an inactive preset does not reach the runtime in use until the next
  renewal (`main.tsx:1288`). Without an active preset the runtime takes the
  first one (`bootstrap/src/index.ts:114`).
* The settings can be used while the startup is loading, or after it has failed: a
  preset saved then replaces the stored list (`main.tsx:1166`, `1285`).
* A credential whose profile cannot be saved leaves its secret behind; a deletion
  that stops halfway leaves a profile without a secret.
* A save of the presets that is refused or cut off between the removal of the file and
  the renaming leaves no file (`provider_presets.rs:73`). The next save writes all
  presets again; after a restart without one they are gone, and the configuration of an
  older version is migrated once more.
* Of the hazards that `PROJECT.json` lists, some have no property, because the code
  does go wrong there and no document promises otherwise: the model of one preset sent
  to another when the settings change during a turn (`chat-session.ts:421`), calls on the
  same memory that overlap (`memory-broker.ts:209`), an index that falls behind
  (`retrieval-indexer.ts:37`), a load that overtakes a change of the core book
  (`core-book-manager.ts:281`), events of characters that cross (`character-manager.ts:198`).
  The properties next to them name these as exceptions.

## What is not modelled

* Listeners of the chat session and error texts.
* The files of memory and characters: the sequence of steps is the one of CoreBook,
  and their contents are one value in their models. Model profiles are left out.
* Of the files of presets and credential profiles, all but the steps that others can
  see, the removal and the renaming: what is left of a temporary file is never read.
  The quarantine of a damaged file is modelled for the conversations only.
* The file of the older version's configuration, which is only read. `config.rs:74`
  rewrites it when it has another format, with the same window (`config.rs:87`).
* Of the AI runtime: health, the 60 seconds for which a listing of models is
  remembered, the validation of a complete response (with this provider it cannot
  fail where it stands), the events that only inform.
* Of a context build: text itself. Lengths in tokens and whether a keyword or a
  pattern matches are given; entries and memories are withdrawn during a build
  but not added.
* The SQL of the index, validation of fields, schemas, HTTP, the credential store of
  the operating system: pure I/O or pure validation. State store, capabilities and diagnostics hold values
  nobody in the models reads.
* Views and effects of the user interface, except the renewal of the runtime, the
  startup, and the operations on presets and credentials; a runtime that fails to
  stop.
* Mock modules, generated catalogues.

## Plan

What there is: ChatSession; Conversations with ConversationStore and
DesktopConversations; ModuleLifecycle; Characters; Memory; ChatTurn, made of
ContextBuild, ModelRouting and ProviderStream; HostFiles, made of CoreBook and
ConversationFile; ProviderPresets; ScopedBroker, made of ActionBroker and Scopes, with
proofs about all of them.

What would come next, in this order:

1. ChatSession upon StreamContract instead of its own idea of how a call settles;
   the persistence of its conversation in the interface.
2. The events of the core book in the index, beside those of the memory.
