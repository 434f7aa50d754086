---------------------------- MODULE ContextBuild ----------------------------
(***************************************************************************)
(* DeterministicContextEngine.build with its three sources                 *)
(* (core/src/context-engine.ts): the messages of the conversation, the     *)
(* entries of the core book and the memories that the retriever, or the    *)
(* memory broker's own search, returns.  The sources collect at the same   *)
(* time, each over one or more awaits, while entries are disabled and      *)
(* memories archived; what is built is then handed to the model call.      *)
(*                                                                         *)
(* Texts are left out but for their length in tokens.  Whether a keyword   *)
(* or a pattern matches is part of the entry.  The index of the retriever  *)
(* may lag behind, so that it returns any of the entries and memories.     *)
(* The scores of system and recent messages decide nothing and are left    *)
(* out.                                                                    *)
(*                                                                         *)
(* Definitions whose name begins with Faulty are defective variants of the *)
(* definition that follows them.  No action uses them: they are there to   *)
(* show that the properties tell the two apart.                            *)
(***************************************************************************)
EXTENDS Integers, Sequences, FiniteSets, SequencesExt, FiniteSetsExt

CONSTANTS
  Cases,       \* what a build may start from: the request, a sequence of
               \* messages [role, tokens]; the book, a sequence of entries in
               \* the order of the listing; the budget
               \* (availableContextTokens); whether there is a retriever; and
               \* the names of the enabled entries and the active memories
  Memories,    \* memories: [name, tokens, importance, confidence]
  RecentCount, \* recentMessageCount
  MaxResults,  \* memoryCandidateLimit
  NoWorld      \* nothing is being built

VARIABLES
  world,    \* the case at hand
  enabled,  \* names of the entries that are enabled
  active,   \* names of the memories that are active
  phase,    \* "building", "built" or "failed"; then "given" to the call
  bookAt,   \* where collect of the core book awaits
  on,       \* names of the entries that were enabled in the listing
  hits,     \* names of the entries the retriever returned, or all
  memoryAt, \* where collect of the memories awaits
  found,    \* memories the search returned, not yet read
  recalled, \* memories that were read and are active
  context   \* the candidates chosen, in the order of the messages

entriesVars == <<bookAt, on, hits>>
memoryVars == <<memoryAt, found, recalled>>
vars == <<world, enabled, active, phase, entriesVars, memoryVars, context>>

Indexes(s) == 1..Len(s)
Names(book) == {book[i].name : i \in Indexes(book)}
EntryNames == UNION {Names(c.book) : c \in Cases}
MemoryNames == {m.name : m \in Memories}
MemoryOf(n) == CHOOSE m \in Memories : m.name = n

HasQuery == \E i \in Indexes(world.request) : world.request[i].role = "user"

-----------------------------------------------------------------------------
(* Candidates.                                                             *)

(* Math.round(x / d).                                                      *)
Round(x, d) == (2 * x + d) \div (2 * d)

NonSystem(request) == {i \in Indexes(request) : request[i].role # "system"}

Recent(request) ==
  {i \in NonSystem(request) :
     Cardinality({j \in NonSystem(request) : j >= i}) <= RecentCount}

MessageCandidates(request) ==
  [i \in Indexes(request) |->
     [source |-> "conversation", name |-> i, tokens |-> request[i].tokens,
      zone |-> IF request[i].role = "system" THEN "system"
               ELSE IF i \in Recent(request) THEN "recent_conversation"
               ELSE "conversation",
      eligible |-> TRUE, retention |-> 50, placement |-> 50,
      score |-> 60 + 0 + 50 + 10]]

Matches(e) ==
  CASE e.activation = "always" -> TRUE
    [] e.activation = "keyword" ->
         IF e.all THEN e.matched = e.required ELSE e.matched > 0
    [] e.activation = "regex" -> e.matched > 0
    [] e.activation = "reserved" -> FALSE

EntryScore(e) ==
  CASE e.activation = "always" -> 50 + 100 + e.retention
    [] e.activation = "keyword" ->
         Round(100 * e.matched, e.required) + 75 + e.retention
    [] e.activation = "regex" -> 100 + 80 + e.retention
    [] e.activation = "reserved" -> 0

EntryCandidates(book) ==
  [i \in Indexes(book) |->
     LET e == book[i] IN
     [source |-> "core_book", name |-> e.name, tokens |-> e.tokens,
      zone |-> IF e.activation = "always" THEN "character_core"
               ELSE "retrieved_core_book",
      eligible |-> /\ e.name \in on
                   /\ e.activation = "always" \/ e.name \in hits
                   /\ Matches(e),
      retention |-> e.retention, placement |-> e.placement,
      score |-> EntryScore(e)]]

Relevance(i) == IF 110 - 10 * i > 10 THEN 110 - 10 * i ELSE 10

MemoryCandidates(names) ==
  [i \in Indexes(names) |->
     LET m == MemoryOf(names[i]) IN
     [source |-> "memory", name |-> m.name, tokens |-> m.tokens,
      zone |-> "retrieved_memory", eligible |-> TRUE,
      retention |-> m.importance, placement |-> 0,
      score |-> 40 + Round(Relevance(i), 4) + Round(m.importance, 2)
                + Round(m.confidence, 4)]]

Candidates ==
  MessageCandidates(world.request) \o EntryCandidates(world.book)
    \o MemoryCandidates(recalled)

-----------------------------------------------------------------------------
(* Selection and placement.                                                *)

SourceRank(c) ==
  CASE c.source = "core_book" -> 0
    [] c.source = "memory" -> 1
    [] OTHER -> 2

(* stableCompare.                                                          *)
Preferred(cands, i, j) ==
  LET one == cands[i]
      two == cands[j] IN
  \/ one.score > two.score
  \/ /\ one.score = two.score
     /\ \/ one.retention > two.retention
        \/ /\ one.retention = two.retention
           /\ \/ SourceRank(one) < SourceRank(two)
              \/ SourceRank(one) = SourceRank(two) /\ i < j

(* build offers in three rounds: to the system messages, to the recent     *)
(* ones from the newest on, and to everything else by preference.          *)
RoundOf(c) ==
  CASE c.zone = "system" -> 1
    [] c.zone = "recent_conversation" -> 2
    [] OTHER -> 3

OfferedBefore(cands, i, j) ==
  LET round == RoundOf(cands[i]) IN
  \/ round < RoundOf(cands[j])
  \/ /\ round = RoundOf(cands[j])
     /\ CASE round = 1 -> i < j
          [] round = 2 -> i > j
          [] round = 3 -> Preferred(cands, i, j)

(* The members of a set in the order of a relation.                        *)
Ranked(set, Before(_, _)) ==
  [k \in 1..Cardinality(set) |->
     CHOOSE i \in set : Cardinality({j \in set : Before(j, i)}) = k - 1]

Offers(cands) ==
  Ranked(Indexes(cands), LAMBDA i, j : OfferedBefore(cands, i, j))

(* The offers before the last round.                                       *)
Early(cands) == Cardinality({i \in Indexes(cands) : RoundOf(cands[i]) # 3})

FaultyResume(cands, i, n) == n + 1

(* Where to go on when i was refused: a recent message ends its round.     *)
Resume(cands, i, n) == IF RoundOf(cands[i]) = 2 THEN Early(cands) + 1 ELSE n + 1

(* include: what is eligible and fits is in.                               *)
Select(cands, budget) ==
  LET offers == Offers(cands)
      taken[n \in 1..(Len(cands) + 1)] ==  \* from offer n on, with left tokens
        [left \in 0..budget |->
           IF n > Len(cands) THEN {}
           ELSE LET turn == [i \in Indexes(cands) |->
                               IF cands[i].eligible /\ cands[i].tokens <= left
                               THEN {i} \cup taken[n + 1][left - cands[i].tokens]
                               ELSE taken[Resume(cands, i, n)][left]]
                IN turn[offers[n]]]
  IN taken[1][budget]

Zones == {"system", "character_core", "retrieved_core_book", "retrieved_memory",
          "conversation", "recent_conversation"}

ZoneOrder(zone) ==
  CASE zone = "system" -> 0
    [] zone = "character_core" -> 10
    [] zone = "retrieved_core_book" -> 20
    [] zone = "retrieved_memory" -> 25
    [] zone = "conversation" -> 30
    [] zone = "recent_conversation" -> 40

FaultyPlacedBefore(cands, i, j) ==
  LET one == cands[i]
      two == cands[j] IN
  \/ ZoneOrder(one.zone) < ZoneOrder(two.zone)
  \/ one.zone = two.zone /\ i > j

PlacedBefore(cands, i, j) ==
  LET one == cands[i]
      two == cands[j] IN
  \/ ZoneOrder(one.zone) < ZoneOrder(two.zone)
  \/ /\ one.zone = two.zone
     /\ IF one.source = "core_book"
        THEN \/ one.placement > two.placement
             \/ one.placement = two.placement /\ one.name < two.name
        ELSE i < j

Place(cands, chosen) ==
  LET order == Ranked(chosen, LAMBDA i, j : PlacedBefore(cands, i, j))
  IN [k \in Indexes(order) |-> cands[order[k]]]

-----------------------------------------------------------------------------
(* The sources collect.                                                    *)

(* The listing answers.  Without a query or a retriever no entry is        *)
(* filtered.                                                               *)
ListEntries ==
  /\ phase = "building" /\ bookAt = "listing"
  /\ on' = enabled
  /\ IF world.retriever /\ HasQuery
     THEN bookAt' = "retrieving" /\ UNCHANGED hits
     ELSE bookAt' = "ready" /\ hits' = Names(world.book)
  /\ UNCHANGED <<world, enabled, active, phase, memoryVars, context>>

(* The retriever returns some entries; when it fails or says that it is    *)
(* degraded, no entry is filtered.                                         *)
RetrieveEntries(names) ==
  /\ phase = "building" /\ bookAt = "retrieving"
  /\ names \subseteq Names(world.book)
  /\ hits' = names
  /\ bookAt' = "ready"
  /\ UNCHANGED <<world, enabled, active, phase, on, memoryVars, context>>

(* search of the broker: active memories only, in an order that depends on *)
(* dates and may be any here.                                              *)
BrokerFinds(names) == ToSet(names) \subseteq active /\ Len(names) <= MaxResults

(* The retriever's index may be behind the memories.  A search that fails  *)
(* finds nothing.                                                          *)
SearchMemories(names) ==
  /\ phase = "building" /\ memoryAt = "searching"
  /\ names # <<>> => HasQuery
  /\ IF world.retriever
     THEN /\ found' = names /\ memoryAt' = "reading"
          /\ UNCHANGED recalled
     ELSE /\ BrokerFinds(names)
          /\ recalled' = names /\ memoryAt' = "ready"
          /\ UNCHANGED found
  /\ UNCHANGED <<world, enabled, active, phase, entriesVars, context>>

FaultyReadMemory ==
  /\ phase = "building" /\ memoryAt = "reading"
  /\ IF found = <<>>
     THEN memoryAt' = "ready" /\ UNCHANGED <<found, recalled>>
     ELSE /\ recalled' = Append(recalled, Head(found))
          /\ found' = Tail(found)
          /\ UNCHANGED memoryAt
  /\ UNCHANGED <<world, enabled, active, phase, entriesVars, context>>

(* Each memory the retriever returned is read from the broker and kept     *)
(* only if it is active there.                                             *)
ReadMemory ==
  /\ phase = "building" /\ memoryAt = "reading"
  /\ IF found = <<>>
     THEN memoryAt' = "ready" /\ UNCHANGED <<found, recalled>>
     ELSE /\ recalled' = IF Head(found) \in active
                         THEN Append(recalled, Head(found)) ELSE recalled
          /\ found' = Tail(found)
          /\ UNCHANGED memoryAt
  /\ UNCHANGED <<world, enabled, active, phase, entriesVars, context>>

(* The listing or the reading of a memory rejects, and with it build.      *)
CollectFails ==
  /\ phase = "building"
  /\ bookAt = "listing" \/ (memoryAt = "reading" /\ found # <<>>)
  /\ phase' = "failed"
  /\ UNCHANGED <<world, enabled, active, entriesVars, memoryVars, context>>

(* All sources have collected: choose and place.                           *)
Build ==
  /\ phase = "building" /\ bookAt = "ready" /\ memoryAt = "ready"
  /\ phase' = "built"
  /\ \E cands \in {Candidates} : \E chosen \in {Select(cands, world.budget)} :
       context' = Place(cands, chosen)
  /\ UNCHANGED <<world, enabled, active, entriesVars, memoryVars>>

(* The messages go to the model call, and nothing else is kept.            *)
HandOver ==
  /\ phase = "built"
  /\ phase' = "given"
  /\ world' = NoWorld /\ enabled' = {} /\ active' = {}
  /\ bookAt' = "ready" /\ on' = {} /\ hits' = {}
  /\ memoryAt' = "ready" /\ found' = <<>> /\ recalled' = <<>>
  /\ context' = <<>>

-----------------------------------------------------------------------------
(* Meanwhile.                                                              *)

Disable(n) ==
  /\ phase = "building" /\ n \in enabled
  /\ enabled' = enabled \ {n}
  /\ UNCHANGED <<world, active, phase, entriesVars, memoryVars, context>>

Archive(n) ==
  /\ phase = "building" /\ n \in active
  /\ active' = active \ {n}
  /\ UNCHANGED <<world, enabled, phase, entriesVars, memoryVars, context>>

-----------------------------------------------------------------------------
(* What the validation of requests, entries and memories lets through.     *)
WellFormed ==
  /\ RecentCount \in Nat \ {0}
  /\ \A c \in Cases :
       /\ c.budget \in Nat
       /\ c.request \in Seq([role : STRING, tokens : Nat])
       /\ c.book \in Seq([name : Nat, tokens : Nat, matched : Nat,
                          required : Nat \ {0}, all : BOOLEAN,
                          activation : {"always", "keyword", "regex", "reserved"},
                          retention : 0..100, placement : 0..100])
       /\ \A i, j \in Indexes(c.book) : c.book[i].name = c.book[j].name => i = j
  /\ \A m \in Memories :
       m.tokens \in Nat /\ m.importance \in 0..100 /\ m.confidence \in 0..100

-----------------------------------------------------------------------------
Init ==
  /\ world \in Cases
  /\ enabled = world.enabled /\ active = world.active
  /\ phase = "building"
  /\ bookAt = "listing" /\ on = {} /\ hits = {}
  /\ memoryAt = "searching" /\ found = <<>> /\ recalled = <<>>
  /\ context = <<>>

Results ==
  {names \in UNION {[1..n -> MemoryNames] : n \in 0..MaxResults} :
     IsInjective(names)}

(* What the stores and the retriever answer.                               *)
Collect ==
  /\ phase = "building"
  /\ \/ ListEntries
     \/ \E names \in SUBSET EntryNames : RetrieveEntries(names)
     \/ \E names \in Results : SearchMemories(names)
     \/ ReadMemory
     \/ Build

Next ==
  /\ phase = "building"
  /\ \/ Collect
     \/ CollectFails
     \/ \E n \in EntryNames : Disable(n)
     \/ \E n \in MemoryNames : Archive(n)

-----------------------------------------------------------------------------
(* Properties.                                                             *)

(* Type invariant of a build.                                              *)
TypeOK ==
  /\ world \in Cases \cup {NoWorld}
  /\ enabled \cup on \cup hits \subseteq EntryNames
  /\ active \subseteq MemoryNames
  /\ phase \in {"building", "built", "failed", "given"}
  /\ bookAt \in {"listing", "retrieving", "ready"}
  /\ memoryAt \in {"searching", "reading", "ready"}
  /\ found \in Results /\ recalled \in Results

(* The tokens of the messages in some zones.                               *)
Size(messages, zones) ==
  LET sum[n \in 0..Len(messages)] ==
        IF n = 0 THEN 0
        ELSE sum[n - 1] + (IF messages[n].zone \in zones
                           THEN messages[n].tokens ELSE 0)
  IN sum[Len(messages)]

Chosen == ToSet(context)
Omitted == {c \in ToSet(Candidates) : c.eligible /\ c \notin Chosen}

(* The messages keep to the budget and nothing is left out that would      *)
(* still fit, except a message older than a recent one that did not; the   *)
(* recent messages are the newest ones without a gap; and an entry that    *)
(* always applies yields to the system, to the recent messages and to      *)
(* other entries only, never to a memory or to an older message.  (The     *)
(* three rounds of build and the weights of its scores.)                   *)
SelectionFollowsRules ==
  phase = "built" =>
    /\ Size(context, Zones) <= world.budget
    /\ \A c \in Omitted :
         \/ Size(context, Zones) + c.tokens > world.budget
         \/ /\ c.zone = "recent_conversation"
            /\ \E d \in Omitted : d.zone = c.zone /\ d.name > c.name
    /\ \A c \in Chosen, d \in Omitted :
         c.zone = "recent_conversation" /\ d.zone = c.zone => c.name > d.name
    /\ \A c \in Omitted :
         c.zone = "character_core" =>
           Size(context, Zones \ {"retrieved_memory", "conversation"})
             + c.tokens > world.budget

(* The model reads the conversation in its order, and last the newest      *)
(* message, if that fits beside the system's messages that do; no message, *)
(* entry or memory comes twice.                                            *)
QuestionComesLast ==
  phase = "built" =>
    /\ \A i, j \in Indexes(context) :
         /\ context[i] = context[j] => i = j
         /\ (i < j /\ context[i].source = "conversation"
               /\ context[j].source = "conversation"
               /\ context[i].zone # "system" /\ context[j].zone # "system")
              => context[i].name < context[j].name
    /\ NonSystem(world.request) # {} =>
         LET newest == MessageCandidates(world.request)[Max(NonSystem(world.request))]
         IN Size(context, {"system"}) + newest.tokens <= world.budget =>
           Last(context) = newest

(* What was disabled or archived before the build began is not in it, even *)
(* while the index still returns it: an entry is taken from the listing    *)
(* and a memory is read again and looked at.                               *)
NothingWithdrawn ==
  phase = "built" =>
    \A c \in Chosen :
      /\ c.source = "core_book" => c.name \in world.enabled
      /\ c.source = "memory" => c.name \in world.active
=============================================================================
