--------------------------- MODULE HostFilesProofs ---------------------------
(***************************************************************************)
(* Proofs about the host's files: CoreBook for any callers and any numbers *)
(* of entries, failures and crashes, and ConversationFile for any          *)
(* conversations and texts, and any numbers of damages, failures and       *)
(* crashes.                                                                *)
(*                                                                         *)
(* The core book: the file is whole, what was confirmed stays, and cache   *)
(* and file agree when nothing is under way.  The invariant follows an     *)
(* entry from the cache through the queue of saves to the file: what is    *)
(* confirmed is in all of them, and what waits for its confirmation is in  *)
(* its own save and in every later one.                                    *)
(*                                                                         *)
(* The conversations: FileFollowsCommands and FirstDamageKept.  The        *)
(* invariant of the first follows what is promised from the file into the  *)
(* state that a command has loaded, through its change, into the draft and *)
(* back to the file; that of the second says where a damaged file may be   *)
(* at each step of a command.                                              *)
(***************************************************************************)
EXTENDS HostFiles, SequenceTheorems, TLAPS

Stored == IF host = "removed" THEN tmp ELSE file

Content == IF file = None THEN NoEntries ELSE file

Has(book, id) == book \notin {None, Torn} /\ id \in DOMAIN book

SavesIn(requests) == {i \in 1..Len(requests) : requests[i].type = "save"}

\* The stage of a call, and the entry it is about to create.
At(call) == IF call = None THEN "none" ELSE call.stage

NewOf(call) ==
  IF At(call) \in {"saving", "saved"} THEN call.new
  ELSE IF At(call) \in {"loading", "loaded"}
  THEN IF call.do.op = "create" THEN call.do.id ELSE 0
  ELSE 0

\* No two calls create the same entry.
Fresh ==
  /\ \A c \in Callers : NewOf(calls[c]) <= created
  /\ \A c, d \in Callers :
       NewOf(calls[c]) = NewOf(calls[d]) /\ NewOf(calls[c]) # 0 => c = d

\* Every command in the queue is awaited by its caller, who has no other.
Orderly ==
  /\ \A i \in 1..Len(queue) :
       At(calls[queue[i].by]) =
         IF queue[i].type = "load" THEN "loading" ELSE "saving"
  /\ \A i, j \in 1..Len(queue) : queue[i].by = queue[j].by => i = j

\* What is being written is the book of the first save.
Replacing ==
  /\ host # "idle" =>
       queue # <<>> /\ queue[1].type = "save" /\ Acceptable(queue[1].book)
  /\ host \in {"written", "removed"} => tmp = queue[1].book

\* Before the first load is answered nothing can be changed.
Blank ==
  cache = None =>
    /\ SavesIn(queue) = {}
    /\ \A c \in Callers : At(calls[c]) \notin {"saving", "saved"}

\* What is confirmed is in the file, in the cache, in every save and, as
\* long as nothing is cached, in every answer that may be.
Kept ==
  \A id \in confirmed :
    /\ Has(Stored, id)
    /\ cache # None => id \in DOMAIN cache
    /\ \A i \in SavesIn(queue) : id \in DOMAIN queue[i].book
    /\ cache = None =>
         \A c \in Callers :
           At(calls[c]) = "loaded" /\ calls[c].reply # None =>
             id \in DOMAIN calls[c].reply

\* What a save still in the queue creates is in it and in every later one.
OnItsWay ==
  \A c \in Callers :
    At(calls[c]) = "saving" /\ calls[c].new \in DOMAIN cache =>
      \E k \in 1..Len(queue) :
        /\ queue[k].by = c
        /\ \A i \in SavesIn(queue) : i >= k => calls[c].new \in DOMAIN queue[i].book

\* What was saved and is yet to be confirmed is in the file.
Arrived ==
  \A c \in Callers :
    At(calls[c]) = "saved" /\ calls[c].ok /\ calls[c].new \in DOMAIN cache =>
      /\ Has(Stored, calls[c].new)
      /\ \A i \in SavesIn(queue) : calls[c].new \in DOMAIN queue[i].book

\* The last save has the cache's entries; without one the file has them.
Synced ==
  /\ cache = None =>
       \A c \in Callers :
         At(calls[c]) = "loaded" /\ calls[c].reply # None => calls[c].reply = Content
  /\ cache # None /\ SavesIn(queue) = {} /\ ~unsaved => cache = Content
  /\ \A i \in SavesIn(queue) :
       (\A j \in SavesIn(queue) : j <= i) => queue[i].book = cache

Order == Fresh /\ Orderly /\ Replacing /\ Blank

Inv ==
  /\ TypeOK /\ FileIsWhole /\ Order
  /\ ~lost => Kept /\ OnItsWay /\ Arrived
  /\ ~overtaken => Synced

-----------------------------------------------------------------------------
(* Books.                                                                  *)

\* A book with no entries is one.
LEMMA EmptyBook == NoEntries \in Book
  <1>1. {} \in SUBSET Ids /\ NoEntries \in [{} -> Entry]
    BY DEF NoEntries, Entry
  <1> QED BY <1>1 DEF Book

\* The entries of a book are functions of some identifiers.
LEMMA BookIsFunction ==
  ASSUME NEW book
  PROVE  book \in Book <=> book \in [DOMAIN book -> Entry] /\ DOMAIN book \subseteq Ids
  BY DEF Book

\* An operation that applies makes a book of a book; a creation and a
\* deletion change which entries there are, and nothing else does.
LEMMA Applied ==
  ASSUME NEW do \in Operation, NEW book \in Book, Applies(do, book)
  PROVE  /\ Apply(do, book) \in Book
         /\ DOMAIN Apply(do, book) =
              CASE do.op = "create" -> DOMAIN book \cup {do.id}
                [] do.op = "delete" -> DOMAIN book \ {do.id}
                [] OTHER -> DOMAIN book
         /\ do.op # "list"
  <1> DEFINE next == Apply(do, book)
  <1>0. book \in [DOMAIN book -> Entry] /\ DOMAIN book \subseteq Ids
    BY BookIsFunction
  <1>1. CASE do.op = "create"
    <2>1. do.id \in Ids /\ do.wide \in BOOLEAN
      BY <1>1 DEF Operation
    <2>2. next = [id \in DOMAIN book \cup {do.id} |->
                    IF id = do.id THEN [enabled |-> TRUE, wide |-> do.wide]
                    ELSE book[id]]
      BY <1>1 DEF Apply
    <2>3. [enabled |-> TRUE, wide |-> do.wide] \in Entry
      BY <2>1 DEF Entry
    <2>4. next \in [DOMAIN book \cup {do.id} -> Entry]
      BY <1>0, <2>2, <2>3
    <2>5. DOMAIN next = DOMAIN book \cup {do.id} /\ DOMAIN next \subseteq Ids
      BY <1>0, <2>1, <2>2
    <2> QED BY <1>1, <2>4, <2>5, BookIsFunction
  <1>2. CASE do.op = "update"
    <2>1. do.id \in DOMAIN book /\ do.wide \in BOOLEAN
      BY <1>2 DEF Operation, Applies
    <2>2. next = [book EXCEPT ![do.id].wide = do.wide]
      BY <1>2 DEF Apply
    <2>3. next \in [DOMAIN book -> Entry]
      BY <1>0, <2>1, <2>2 DEF Entry
    <2> QED BY <1>0, <1>2, <2>2, <2>3, BookIsFunction
  <1>3. CASE do.op = "enable"
    <2>1. do.id \in DOMAIN book /\ do.enabled \in BOOLEAN
      BY <1>3 DEF Operation, Applies
    <2>2. next = [book EXCEPT ![do.id].enabled = do.enabled]
      BY <1>3 DEF Apply
    <2>3. next \in [DOMAIN book -> Entry]
      BY <1>0, <2>1, <2>2 DEF Entry
    <2> QED BY <1>0, <1>3, <2>2, <2>3, BookIsFunction
  <1>4. CASE do.op = "delete"
    <2>1. next = [id \in DOMAIN book \ {do.id} |-> book[id]]
      BY <1>4 DEF Apply
    <2>2. next \in [DOMAIN book \ {do.id} -> Entry] /\ DOMAIN next = DOMAIN book \ {do.id}
      BY <1>0, <2>1
    <2> QED BY <1>0, <1>4, <2>2, BookIsFunction
  <1>5. do.op \in {"create", "update", "enable", "delete", "list"}
    BY DEF Operation
  <1>6. do.op # "list"
    BY DEF Applies
  <1> QED BY <1>1, <1>2, <1>3, <1>4, <1>5, <1>6

-----------------------------------------------------------------------------
(* Calls and commands.                                                     *)

\* What the stage of a call says of it.
LEMMA CallShape ==
  ASSUME NEW call \in Call \cup {None}
  PROVE  /\ At(call) \in {"none", "loading", "loaded", "saving", "saved"}
         /\ At(call) = "none" <=> call = None
         /\ At(call) \in {"loading", "loaded"} => call.do \in Operation
         /\ At(call) = "loading" => call = [stage |-> "loading", do |-> call.do]
         /\ At(call) = "loaded" => call.reply \in Book \cup {None}
         /\ At(call) \in {"saving", "saved"} => call.new \in 0..MaxEntries
         /\ At(call) = "saved" => call.ok \in BOOLEAN
         /\ NewOf(call) \in Nat
  <1>1. ASSUME NEW do \in Operation, do.op = "create"
        PROVE  do.id \in Nat
    BY <1>1, BoundsAssumption DEF Operation, Ids
  <1>2. /\ At(call) \in {"none", "loading", "loaded", "saving", "saved"}
        /\ At(call) = "none" <=> call = None
        /\ At(call) \in {"loading", "loaded"} => call.do \in Operation
        /\ At(call) = "loading" => call = [stage |-> "loading", do |-> call.do]
        /\ At(call) = "loaded" => call.reply \in Book \cup {None}
        /\ At(call) \in {"saving", "saved"} => call.new \in 0..MaxEntries
        /\ At(call) = "saved" => call.ok \in BOOLEAN
    BY NoneAssumption DEF At, Call
  <1>3. NewOf(call) \in Nat
    BY <1>1, <1>2, BoundsAssumption DEF NewOf
  <1> QED BY <1>2, <1>3

\* A call awaits the answer to its load.
LEMMA LoadingCall ==
  ASSUME NEW do \in Operation
  PROVE  LET call == [stage |-> "loading", do |-> do] IN
         /\ call \in Call /\ call # None /\ At(call) = "loading"
         /\ NewOf(call) = IF do.op = "create" THEN do.id ELSE 0
  <1> DEFINE call == [stage |-> "loading", do |-> do]
  <1>1. call \in Call /\ call # None
    BY NoneAssumption DEF Call
  <1> QED BY <1>1 DEF At, NewOf

\* A call has the answer to its load.
LEMMA LoadedCall ==
  ASSUME NEW do \in Operation, NEW reply \in Book \cup {None}
  PROVE  LET call == [stage |-> "loaded", do |-> do, reply |-> reply] IN
         /\ call \in Call /\ call # None /\ At(call) = "loaded"
         /\ NewOf(call) = IF do.op = "create" THEN do.id ELSE 0
  <1> DEFINE call == [stage |-> "loaded", do |-> do, reply |-> reply]
  <1>1. call \in Call /\ call # None
    BY NoneAssumption DEF Call
  <1> QED BY <1>1 DEF At, NewOf

\* A call awaits its save.
LEMMA SavingCall ==
  ASSUME NEW new \in 0..MaxEntries
  PROVE  LET call == [stage |-> "saving", new |-> new] IN
         call \in Call /\ call # None /\ At(call) = "saving" /\ NewOf(call) = new
  <1> DEFINE call == [stage |-> "saving", new |-> new]
  <1>1. call \in Call /\ call # None
    BY NoneAssumption DEF Call
  <1> QED BY <1>1 DEF At, NewOf

\* The save of a call has settled.
LEMMA SavedCall ==
  ASSUME NEW new \in 0..MaxEntries, NEW ok \in BOOLEAN
  PROVE  LET call == [stage |-> "saved", new |-> new, ok |-> ok] IN
         call \in Call /\ call # None /\ At(call) = "saved" /\ NewOf(call) = new
  <1> DEFINE call == [stage |-> "saved", new |-> new, ok |-> ok]
  <1>1. call \in Call /\ call # None
    BY NoneAssumption DEF Call
  <1> QED BY <1>1 DEF At, NewOf

\* A command has a caller and, if it is a save, a book.
LEMMA CommandShape ==
  ASSUME NEW requests \in Seq(Command)
  PROVE  /\ Len(requests) \in Nat
         /\ \A i \in 1..Len(requests) :
              /\ requests[i].by \in Callers
              /\ requests[i].type \in {"load", "save"}
              /\ requests[i].type = "save" => requests[i].book \in Book
  <1>1. \A i \in 1..Len(requests) : requests[i] \in Command
    OBVIOUS
  <1> QED BY <1>1 DEF Command

\* A command is sent.
LEMMA Sent ==
  ASSUME NEW requests \in Seq(Command), NEW cmd \in Command
  PROVE  LET longer == Append(requests, cmd)
             n == Len(requests) IN
         /\ longer \in Seq(Command) /\ longer # <<>>
         /\ n \in Nat /\ Len(longer) = n + 1
         /\ longer[n + 1] = cmd
         /\ \A i \in 1..n : longer[i] = requests[i]
         /\ SavesIn(longer) =
              IF cmd.type = "save" THEN SavesIn(requests) \cup {n + 1}
              ELSE SavesIn(requests)
  <1> DEFINE longer == Append(requests, cmd)
             n == Len(requests)
  <1>1. /\ longer \in Seq(Command) /\ n \in Nat /\ Len(longer) = n + 1
        /\ longer[n + 1] = cmd /\ \A i \in 1..n : longer[i] = requests[i]
    OBVIOUS
  <1>2. 1..(n + 1) = (1..n) \cup {n + 1}
    BY <1>1
  <1>3. SavesIn(longer) =
          IF cmd.type = "save" THEN SavesIn(requests) \cup {n + 1}
          ELSE SavesIn(requests)
    BY <1>1, <1>2 DEF SavesIn
  <1>4. longer # <<>>
    BY <1>1
  <1> QED BY <1>1, <1>3, <1>4

\* The first command is answered.
LEMMA Answered ==
  ASSUME NEW requests \in Seq(Command), requests # <<>>
  PROVE  LET rest == Tail(requests)
             n == Len(requests) IN
         /\ rest \in Seq(Command) /\ n \in Nat /\ n >= 1 /\ Len(rest) = n - 1
         /\ Head(requests) = requests[1]
         /\ \A i \in 1..(n - 1) : rest[i] = requests[i + 1]
         /\ \A i \in SavesIn(rest) : i + 1 \in SavesIn(requests)
         /\ \A i \in SavesIn(requests) : i = 1 \/ i - 1 \in SavesIn(rest)
  <1> DEFINE rest == Tail(requests)
             n == Len(requests)
  <1>1. /\ rest \in Seq(Command) /\ n \in Nat /\ n >= 1 /\ Len(rest) = n - 1
        /\ Head(requests) = requests[1]
        /\ \A i \in 1..(n - 1) : rest[i] = requests[i + 1]
    OBVIOUS
  <1>2. \A i \in SavesIn(rest) : i + 1 \in SavesIn(requests)
    BY <1>1 DEF SavesIn
  <1>3. ASSUME NEW i \in SavesIn(requests), i # 1
        PROVE  i - 1 \in SavesIn(rest)
    <2>1. i \in 1..n /\ i - 1 \in 1..(n - 1) /\ requests[i].type = "save"
      BY <1>1, <1>3 DEF SavesIn
    <2>2. rest[i - 1] = requests[i]
      BY <1>1, <2>1
    <2> QED BY <1>1, <2>1, <2>2 DEF SavesIn
  <1> QED BY <1>1, <1>2, <1>3

\* A command in the queue is not that of a call which awaits nothing.
LEMMA NotInQueue ==
  ASSUME TypeOK, Orderly, NEW c \in Callers,
         At(calls[c]) \notin {"loading", "saving"}
  PROVE  \A i \in 1..Len(queue) : queue[i].by # c
  BY CommandShape DEF TypeOK, Orderly

-----------------------------------------------------------------------------
(* The entries are at hand.                                                *)

\* What Perform may rely on: the call is awaiting nothing, what it creates
\* is new, and unless something is lost or overtaken the entries are those
\* of the cache, or of the file if there is no cache.
Ready(c, do, book) ==
  /\ At(calls[c]) \in {"none", "loaded"}
  /\ created' \in 0..MaxEntries /\ created <= created'
  /\ do.op = "create" =>
       /\ do.id <= created'
       /\ \A d \in Callers \ {c} : NewOf(calls[d]) # do.id
  /\ lost' \in BOOLEAN /\ overtaken' \in BOOLEAN
  /\ ~lost' => ~lost /\ (cache # None => book = cache) /\ confirmed \subseteq DOMAIN book
  /\ ~overtaken' => ~overtaken /\ book = IF cache = None THEN Content ELSE cache
  /\ UNCHANGED <<host, disk, unsaved>>

\* The operation applies: its save is sent.
LEMMA Performed ==
  ASSUME Inv, NEW c \in Callers, NEW do \in Operation, NEW book \in Book,
         Ready(c, do, book), Perform(c, do, book, queue), Applies(do, book)
  PROVE  Inv'
  <1> DEFINE next == Apply(do, book)
             new == IF do.op = "create" THEN do.id ELSE 0
             save == [by |-> c, type |-> "save", book |-> next]
             n == Len(queue)
  <1>1. /\ cache' = next /\ queue' = Append(queue, save)
        /\ calls' = [calls EXCEPT ![c] = [stage |-> "saving", new |-> new]]
        /\ confirmed' = IF do.op = "delete" THEN confirmed \ {do.id} ELSE confirmed
    BY DEF Perform
  <1>2. /\ next \in Book /\ next # None /\ do.op # "list"
        /\ DOMAIN next \subseteq Ids
        /\ do.op = "create" => DOMAIN next = DOMAIN book \cup {do.id}
        /\ do.op = "delete" => DOMAIN next = DOMAIN book \ {do.id}
        /\ do.op \notin {"create", "delete"} => DOMAIN next = DOMAIN book
    BY Applied, BookIsFunction, NoneAssumption
  <1>3. new \in 0..MaxEntries
    BY BoundsAssumption DEF Operation, Ids
  <1> HIDE DEF next, new
  <1>4. save \in Command
    BY <1>2 DEF Command
  <1>5. TypeOK /\ queue \in Seq(Command) /\ calls \in [Callers -> Call \cup {None}]
    BY DEF Inv, TypeOK
  <1>6. /\ queue' \in Seq(Command) /\ queue' # <<>> /\ n \in Nat /\ Len(queue') = n + 1
        /\ queue'[n + 1] = save /\ \A i \in 1..n : queue'[i] = queue[i]
        /\ SavesIn(queue') = SavesIn(queue) \cup {n + 1}
    BY <1>1, <1>4, <1>5, Sent
  <1>7. /\ calls'[c] \in Call /\ calls'[c].new = new
        /\ At(calls'[c]) = "saving" /\ NewOf(calls'[c]) = new
        /\ \A d \in Callers : d # c => calls'[d] = calls[d]
    BY <1>1, <1>3, <1>5, SavingCall
  <1>8. /\ \A i \in SavesIn(queue) : i \in 1..n
        /\ \A i \in 1..n : queue[i].by \in Callers /\ queue[i].by # c
        /\ Orderly /\ Blank /\ Fresh /\ Replacing
    <2>1. At(calls[c]) \notin {"loading", "saving"}
      BY DEF Ready
    <2> QED BY <1>5, <2>1, NotInQueue, CommandShape DEF Inv, Order, SavesIn
  <1>9. TypeOK'
    <2>1. calls' \in [Callers -> Call \cup {None}]
      BY <1>1, <1>5, <1>7
    <2>2. confirmed' \subseteq Ids
      BY <1>1, <1>5 DEF TypeOK
    <2> QED BY <1>1, <1>2, <1>5, <1>6, <2>1, <2>2 DEF TypeOK, Ready, disk
  <1>10. FileIsWhole'
    BY DEF Inv, FileIsWhole, Ready, disk
  <1>11. Order'
    <2>1. Fresh'
      <3>1. \A d \in Callers : NewOf(calls[d]) \in Nat
        BY <1>5, CallShape
      <3>2. created \in Nat /\ created' \in Nat /\ created <= created'
        BY <1>5, BoundsAssumption DEF TypeOK, Ready
      <3>3. new # 0 => new <= created' /\ \A d \in Callers \ {c} : NewOf(calls[d]) # new
        BY DEF Ready, new
      <3> QED BY <1>3, <1>7, <1>8, <3>1, <3>2, <3>3 DEF Fresh
    <2>2. Orderly'
      BY <1>6, <1>7, <1>8 DEF Orderly
    <2>3. Replacing'
      <3>1. queue # <<>> => queue'[1] = queue[1]
        BY <1>5, <1>6
      <3> QED BY <1>6, <1>8, <3>1 DEF Replacing, Ready, disk, Acceptable
    <2>4. Blank'
      BY <1>1, <1>2 DEF Blank
    <2> QED BY <2>1, <2>2, <2>3, <2>4 DEF Order
  <1>12. ASSUME ~lost'
         PROVE  Kept' /\ OnItsWay' /\ Arrived'
    <2>1. /\ Kept /\ OnItsWay /\ Arrived
          /\ cache # None => book = cache
          /\ confirmed \subseteq DOMAIN book /\ Stored' = Stored
      BY <1>12 DEF Inv, Ready, Stored, disk
    <2>2. confirmed' \subseteq confirmed /\ confirmed' \subseteq DOMAIN next
      BY <1>1, <1>2, <2>1
    <2>3. Kept'
      <3>1. ASSUME NEW id \in confirmed'
            PROVE  Has(Stored', id) /\ \A i \in SavesIn(queue') : id \in DOMAIN queue'[i].book
        BY <1>6, <1>8, <2>1, <2>2, <3>1 DEF Kept
      <3> QED BY <1>1, <1>2, <2>2, <3>1 DEF Kept, Has
    \* What another call creates is in the cache already.
    <2>4. ASSUME NEW d \in Callers, d # c, At(calls[d]) \in {"saving", "saved"},
                 calls[d].new \in DOMAIN next
          PROVE  calls[d].new \in DOMAIN cache
      <3>1. cache # None /\ book = cache
        BY <1>8, <2>1, <2>4 DEF Blank
      <3>2. NewOf(calls[d]) = calls[d].new
        BY <2>4 DEF NewOf
      <3>3. do.op = "create" => calls[d].new # do.id
        BY <2>4, <3>2 DEF Ready
      <3> QED BY <1>2, <2>4, <3>1, <3>3
    <2>5. OnItsWay'
      <3> SUFFICES ASSUME NEW d \in Callers, At(calls'[d]) = "saving",
                          calls'[d].new \in DOMAIN next
                   PROVE  \E k \in 1..Len(queue') :
                            /\ queue'[k].by = d
                            /\ \A i \in SavesIn(queue') :
                                 i >= k => calls'[d].new \in DOMAIN queue'[i].book
        BY <1>1 DEF OnItsWay
      <3>1. CASE d = c
        <4>1. \A i \in SavesIn(queue') : i >= n + 1 => i = n + 1
          BY <1>6, <1>8
        <4>2. n + 1 \in 1..Len(queue') /\ queue'[n + 1].by = c /\ queue'[n + 1].book = next
          BY <1>6
        <4> QED BY <3>1, <4>1, <4>2
      <3>2. CASE d # c
        <4>1. calls'[d] = calls[d] /\ calls[d].new \in DOMAIN cache
          BY <1>7, <2>4, <3>2
        <4>2. PICK k \in 1..n :
                /\ queue[k].by = d
                /\ \A i \in SavesIn(queue) : i >= k => calls[d].new \in DOMAIN queue[i].book
          BY <2>1, <4>1 DEF OnItsWay
        <4>3. k \in 1..Len(queue') /\ queue'[k].by = d
          BY <1>6, <4>2
        <4>4. \A i \in SavesIn(queue') : i >= k => calls[d].new \in DOMAIN queue'[i].book
          BY <1>6, <1>8, <4>1, <4>2
        <4> QED BY <4>1, <4>3, <4>4
      <3> QED BY <3>1, <3>2
    <2>6. Arrived'
      <3> SUFFICES ASSUME NEW d \in Callers, At(calls'[d]) = "saved", calls'[d].ok,
                          calls'[d].new \in DOMAIN next
                   PROVE  /\ Has(Stored', calls'[d].new)
                          /\ \A i \in SavesIn(queue') : calls'[d].new \in DOMAIN queue'[i].book
        BY <1>1 DEF Arrived
      <3>1. d # c /\ calls'[d] = calls[d]
        BY <1>7
      <3>2. calls[d].new \in DOMAIN cache
        BY <2>4, <3>1
      <3>3. /\ Has(Stored, calls[d].new)
            /\ \A i \in SavesIn(queue) : calls[d].new \in DOMAIN queue[i].book
        BY <2>1, <3>1, <3>2 DEF Arrived
      <3> QED BY <1>6, <1>8, <2>1, <3>1, <3>3
    <2> QED BY <2>3, <2>5, <2>6
  <1>13. ASSUME ~overtaken'
         PROVE  Synced'
    <2>1. \A i \in SavesIn(queue') : (\A j \in SavesIn(queue') : j <= i) => i = n + 1
      BY <1>6, <1>8
    <2>2. queue'[n + 1].book = next
      BY <1>6
    <2> QED BY <1>1, <1>2, <1>6, <2>1, <2>2 DEF Synced
  <1> QED BY <1>9, <1>10, <1>11, <1>12, <1>13 DEF Inv

\* The operation does not apply, or only lists: the call is over.
LEMMA Declined ==
  ASSUME Inv, NEW c \in Callers, NEW do \in Operation, NEW book \in Book,
         Ready(c, do, book), Perform(c, do, book, queue), ~Applies(do, book)
  PROVE  Inv'
  <1>1. /\ cache' = book /\ queue' = queue /\ confirmed' = confirmed
        /\ calls' = [calls EXCEPT ![c] = None] /\ cache' # None
    BY NoneAssumption DEF Perform
  <1>2. TypeOK /\ queue \in Seq(Command) /\ calls \in [Callers -> Call \cup {None}]
    BY DEF Inv, TypeOK
  <1>3. /\ calls'[c] = None /\ At(calls'[c]) = "none" /\ NewOf(calls'[c]) = 0
        /\ \A d \in Callers : d # c => calls'[d] = calls[d]
    BY <1>1, <1>2 DEF At, NewOf
  <1>4. /\ \A i \in 1..Len(queue) : queue[i].by \in Callers /\ queue[i].by # c
        /\ Orderly /\ Blank /\ Fresh /\ Replacing
    <2>1. At(calls[c]) \notin {"loading", "saving"}
      BY DEF Ready
    <2> QED BY <1>2, <2>1, NotInQueue, CommandShape DEF Inv, Order
  <1>5. TypeOK'
    <2>1. calls' \in [Callers -> Call \cup {None}]
      BY <1>1, <1>2
    <2> QED BY <1>1, <1>2, <2>1 DEF TypeOK, Ready, disk
  <1>6. FileIsWhole'
    BY DEF Inv, FileIsWhole, Ready, disk
  <1>7. Order'
    <2>1. Fresh'
      <3>1. \A d \in Callers : NewOf(calls[d]) \in Nat
        BY <1>2, CallShape
      <3>2. created \in Nat /\ created' \in Nat /\ created <= created'
        BY <1>2, BoundsAssumption DEF TypeOK, Ready
      <3> QED BY <1>3, <1>4, <3>1, <3>2 DEF Fresh
    <2>2. Orderly'
      BY <1>1, <1>3, <1>4 DEF Orderly
    <2>3. Replacing'
      BY <1>1, <1>4 DEF Replacing, Ready, disk, Acceptable
    <2>4. Blank'
      BY <1>1 DEF Blank
    <2> QED BY <2>1, <2>2, <2>3, <2>4 DEF Order
  <1>8. ASSUME ~lost'
        PROVE  Kept' /\ OnItsWay' /\ Arrived'
    <2>1. /\ Kept /\ OnItsWay /\ Arrived
          /\ cache # None => book = cache
          /\ confirmed \subseteq DOMAIN book /\ Stored' = Stored
      BY <1>8 DEF Inv, Ready, Stored, disk
    <2>2. Kept'
      BY <1>1, <2>1 DEF Kept, Has
    <2>3. \A d \in Callers : At(calls'[d]) \in {"saving", "saved"} =>
            calls'[d] = calls[d] /\ cache' = cache
      BY <1>1, <1>3, <1>4, <2>1 DEF Blank
    <2>4. OnItsWay'
      BY <1>1, <2>1, <2>3 DEF OnItsWay
    <2>5. Arrived'
      BY <1>1, <2>1, <2>3 DEF Arrived, Has
    <2> QED BY <2>2, <2>4, <2>5
  <1>9. ASSUME ~overtaken'
        PROVE  Synced'
    <2>1. Synced /\ book = IF cache = None THEN Content ELSE cache
      BY <1>9 DEF Inv, Ready
    <2>2. Content' = Content /\ unsaved' = unsaved
      BY DEF Content, Ready, disk
    <2>3. SavesIn(queue) # {} => cache # None
      BY <1>4 DEF Blank
    <2> QED BY <1>1, <2>1, <2>2, <2>3 DEF Synced
  <1> QED BY <1>5, <1>6, <1>7, <1>8, <1>9 DEF Inv

\* The manager goes on with the entries, whether the operation applies or not.
LEMMA PerformStep ==
  ASSUME Inv, NEW c \in Callers, NEW do \in Operation, NEW book \in Book,
         Ready(c, do, book), Perform(c, do, book, queue)
  PROVE  Inv'
  BY Performed, Declined

\* A caller begins: from the cache if there is one, else it asks for the file.
LEMMA InvokeStep ==
  ASSUME Inv, NEW c \in Callers, NEW do \in Operation, Invoke(c, do),
         created' \in 0..MaxEntries, created <= created',
         do.op = "create" =>
           /\ do.id <= created'
           /\ \A d \in Callers \ {c} : NewOf(calls[d]) # do.id
  PROVE  Inv'
  <1>1. /\ calls[c] = None /\ At(calls[c]) = "none"
        /\ UNCHANGED <<host, disk, unsaved, overtaken, lost>>
    BY DEF Invoke, At
  <1>2. TypeOK /\ queue \in Seq(Command) /\ calls \in [Callers -> Call \cup {None}]
    BY DEF Inv, TypeOK
  <1>3. CASE cache # None
    <2>1. Perform(c, do, cache, queue) /\ cache \in Book
      BY <1>2, <1>3 DEF Invoke, TypeOK
    <2>2. ~lost => confirmed \subseteq DOMAIN cache
      BY <1>3 DEF Inv, Kept
    <2>3. Ready(c, do, cache)
      BY <1>1, <1>2, <1>3, <2>2 DEF Ready, TypeOK
    <2> QED BY <2>1, <2>3, PerformStep
  <1>4. CASE cache = None
    <2> DEFINE n == Len(queue)
               load == [by |-> c, type |-> "load"]
    <2>1. /\ queue' = Append(queue, load) /\ cache' = None /\ confirmed' = confirmed
          /\ calls' = [calls EXCEPT ![c] = [stage |-> "loading", do |-> do]]
      BY <1>4 DEF Invoke
    <2>2. load \in Command
      BY DEF Command
    <2>3. /\ queue' \in Seq(Command) /\ queue' # <<>> /\ n \in Nat /\ Len(queue') = n + 1
          /\ queue'[n + 1] = load /\ \A i \in 1..n : queue'[i] = queue[i]
          /\ SavesIn(queue') = SavesIn(queue)
      BY <1>2, <2>1, <2>2, Sent
    <2>4. /\ calls'[c] \in Call /\ At(calls'[c]) = "loading"
          /\ NewOf(calls'[c]) = IF do.op = "create" THEN do.id ELSE 0
          /\ \A d \in Callers : d # c => calls'[d] = calls[d]
      BY <1>2, <2>1, LoadingCall
    <2>5. /\ \A i \in 1..n : queue[i].by \in Callers /\ queue[i].by # c
          /\ Orderly /\ Fresh /\ Replacing
          /\ SavesIn(queue) = {}
          /\ \A d \in Callers : At(calls[d]) \notin {"saving", "saved"}
      BY <1>1, <1>2, <1>4, NotInQueue, CommandShape DEF Inv, Order, Blank
    <2>6. TypeOK'
      <3>1. calls' \in [Callers -> Call \cup {None}]
        BY <1>2, <2>1, <2>4
      <3> QED BY <1>1, <1>2, <2>1, <2>3, <3>1 DEF TypeOK, disk
    <2>7. FileIsWhole'
      BY <1>1 DEF Inv, FileIsWhole, disk
    <2>8. Order'
      <3>1. Fresh'
        <4>1. \A d \in Callers : NewOf(calls[d]) \in Nat
          BY <1>2, CallShape
        <4>2. created \in Nat /\ created' \in Nat
          BY <1>2, BoundsAssumption DEF TypeOK
        <4>3. \A d \in Callers : NewOf(calls'[d]) = NewOf(calls[d]) \/ d = c
          BY <2>4
        <4>4. \A d \in Callers : NewOf(calls'[d]) <= created'
          BY <2>4, <2>5, <4>1, <4>2, <4>3 DEF Fresh
        <4>5. \A d, e \in Callers :
                NewOf(calls'[d]) = NewOf(calls'[e]) /\ NewOf(calls'[d]) # 0 => d = e
          BY <2>4, <2>5, <4>1, <4>2, <4>3 DEF Fresh
        <4> QED BY <4>4, <4>5 DEF Fresh, NewOf
      <3>2. Orderly'
        <4>1. \A i \in 1..n : queue'[i] = queue[i] /\ calls'[queue[i].by] = calls[queue[i].by]
          BY <2>3, <2>4, <2>5
        <4>2. \A i \in 1..Len(queue') : i \in 1..n \/ i = n + 1
          BY <2>3
        <4>3. queue'[n + 1].by = c /\ queue'[n + 1].type = "load"
          BY <2>3
        <4>4. \A i \in 1..Len(queue') :
                At(calls'[queue'[i].by]) =
                  IF queue'[i].type = "load" THEN "loading" ELSE "saving"
          <5> TAKE i \in 1..Len(queue')
          <5>1. CASE i \in 1..n
            BY <2>5, <4>1, <5>1 DEF Orderly
          <5>2. CASE i = n + 1
            BY <2>4, <4>3, <5>2
          <5> QED BY <4>2, <5>1, <5>2
        <4>5. \A i, j \in 1..Len(queue') : queue'[i].by = queue'[j].by => i = j
          BY <2>5, <4>1, <4>2, <4>3 DEF Orderly
        <4> QED BY <4>4, <4>5 DEF Orderly
      <3>3. Replacing'
        BY <1>1, <2>3, <2>5 DEF Replacing, disk, Acceptable, SavesIn
      <3>4. Blank'
        BY <2>3, <2>4, <2>5 DEF Blank
      <3> QED BY <3>1, <3>2, <3>3, <3>4 DEF Order
    <2>9. \A d \in Callers : At(calls'[d]) \notin {"saving", "saved"}
      BY <2>4, <2>5
    <2>10. \A d \in Callers : At(calls'[d]) = "loaded" => calls'[d] = calls[d]
      BY <2>4
    <2>11. Stored' = Stored /\ Content' = Content
      BY <1>1 DEF Stored, Content, disk
    <2>12. ASSUME ~lost'
           PROVE  Kept' /\ OnItsWay' /\ Arrived'
      <3>1. Kept
        BY <1>1, <2>12 DEF Inv
      <3>2. Kept'
        BY <1>4, <2>1, <2>3, <2>5, <2>10, <2>11, <3>1 DEF Kept, Has
      <3> QED BY <2>9, <3>2 DEF OnItsWay, Arrived
    <2>13. ASSUME ~overtaken'
           PROVE  Synced'
      <3>1. Synced
        BY <1>1, <2>13 DEF Inv
      <3> QED BY <1>4, <2>1, <2>3, <2>5, <2>10, <2>11, <3>1 DEF Synced
    <2> QED BY <2>6, <2>7, <2>8, <2>12, <2>13 DEF Inv
  <1> QED BY <1>3, <1>4

\* A creation takes an identifier that nobody has taken.
LEMMA CreateStep ==
  ASSUME Inv, NEW c \in Callers, NEW wide \in BOOLEAN, Create(c, wide)
  PROVE  Inv'
  <1> DEFINE do == [op |-> "create", id |-> created + 1, wide |-> wide]
  <1>1. created \in Nat /\ created + 1 \in 0..MaxEntries /\ created + 1 \in Ids
    BY BoundsAssumption DEF Inv, TypeOK, Create, Ids
  <1>2. do \in Operation
    BY <1>1 DEF Operation
  <1>3. \A d \in Callers : NewOf(calls[d]) \in Nat /\ NewOf(calls[d]) <= created
    BY CallShape DEF Inv, TypeOK, Order, Fresh
  <1>4. created' = created + 1 /\ Invoke(c, do)
    BY DEF Create
  <1> QED BY <1>1, <1>2, <1>3, <1>4, InvokeStep

\* The other operations take none.
LEMMA ChangeStep ==
  ASSUME Inv, NEW c \in Callers, NEW do \in Operation, do.op # "create", Change(c, do)
  PROVE  Inv'
  <1>1. created' = created /\ created \in 0..MaxEntries /\ created <= created
    BY BoundsAssumption DEF Change, Inv, TypeOK
  <1> QED BY <1>1, InvokeStep DEF Change

\* Every request of a caller is one of them.
LEMMA RequestStep ==
  ASSUME Inv, NEW c \in Callers, Request(c)
  PROVE  Inv'
  <1>1. CASE \E wide \in BOOLEAN : Create(c, wide)
    BY <1>1, CreateStep
  <1>2. ASSUME NEW id \in Ids, NEW wide \in BOOLEAN,
               Change(c, [op |-> "update", id |-> id, wide |-> wide])
        PROVE  Inv'
    <2>1. [op |-> "update", id |-> id, wide |-> wide] \in Operation
      BY DEF Operation
    <2> QED BY <1>2, <2>1, ChangeStep
  <1>3. ASSUME NEW id \in Ids, NEW on \in BOOLEAN,
               Change(c, [op |-> "enable", id |-> id, enabled |-> on])
        PROVE  Inv'
    <2>1. [op |-> "enable", id |-> id, enabled |-> on] \in Operation
      BY DEF Operation
    <2> QED BY <1>3, <2>1, ChangeStep
  <1>4. ASSUME NEW id \in Ids, Change(c, [op |-> "delete", id |-> id])
        PROVE  Inv'
    <2>1. [op |-> "delete", id |-> id] \in Operation
      BY DEF Operation
    <2> QED BY <1>4, <2>1, ChangeStep
  <1>5. CASE Change(c, [op |-> "list"])
    <2>1. [op |-> "list"] \in Operation
      BY DEF Operation
    <2> QED BY <1>5, <2>1, ChangeStep
  <1> QED BY <1>1, <1>2, <1>3, <1>4, <1>5 DEF Request

\* The entries a load has brought are put into the cache, if there are any.
LEMMA LoadedStep ==
  ASSUME Inv, NEW c \in Callers, Loaded(c)
  PROVE  Inv'
  <1> DEFINE do == calls[c].do
             reply == calls[c].reply
  <1>1. TypeOK /\ queue \in Seq(Command) /\ calls \in [Callers -> Call \cup {None}]
    BY DEF Inv, TypeOK
  <1>2. At(calls[c]) = "loaded" /\ do \in Operation /\ reply \in Book \cup {None}
    BY <1>1, CallShape DEF Loaded, At
  <1>3. UNCHANGED <<created, host, disk, unsaved>>
    BY DEF Loaded
  <1>4. CASE reply = None
    <2>1. /\ calls' = [calls EXCEPT ![c] = None]
          /\ UNCHANGED <<cache, queue, confirmed, overtaken, lost>>
      BY <1>4 DEF Loaded
    <2>2. /\ calls'[c] = None /\ At(calls'[c]) = "none" /\ NewOf(calls'[c]) = 0
          /\ \A d \in Callers : d # c => calls'[d] = calls[d]
      BY <1>1, <2>1 DEF At, NewOf
    <2>3. \A i \in 1..Len(queue) : queue[i].by \in Callers /\ queue[i].by # c
      BY <1>1, <1>2, NotInQueue, CommandShape DEF Inv, Order
    <2>4. Stored' = Stored /\ Content' = Content
      BY <1>3 DEF Stored, Content, disk
    <2>5. TypeOK'
      <3>1. calls' \in [Callers -> Call \cup {None}]
        BY <1>1, <2>1
      <3> QED BY <1>1, <1>3, <2>1, <3>1 DEF TypeOK, disk
    <2>6. FileIsWhole'
      BY <1>3 DEF Inv, FileIsWhole, disk
    <2>7. Order'
      <3>1. Fresh'
        BY <1>3, <2>2, BoundsAssumption DEF Inv, TypeOK, Order, Fresh
      <3>2. Orderly'
        BY <2>1, <2>2, <2>3 DEF Inv, Order, Orderly
      <3>3. Replacing'
        BY <1>3, <2>1 DEF Inv, Order, Replacing, disk, Acceptable
      <3>4. Blank'
        BY <2>1, <2>2 DEF Inv, Order, Blank
      <3> QED BY <3>1, <3>2, <3>3, <3>4 DEF Order
    <2>8. \A d \in Callers : At(calls'[d]) # "none" => calls'[d] = calls[d]
      BY <2>2
    <2>9. ~lost' => Kept' /\ OnItsWay' /\ Arrived'
      <3>1. ~lost' => Kept'
        BY <2>1, <2>4, <2>8 DEF Inv, Kept, Has
      <3>2. ~lost' => OnItsWay'
        BY <2>1, <2>8 DEF Inv, OnItsWay
      <3>3. ~lost' => Arrived'
        BY <2>1, <2>4, <2>8 DEF Inv, Arrived, Has
      <3> QED BY <3>1, <3>2, <3>3
    <2>10. ~overtaken' => Synced'
      BY <1>3, <2>1, <2>4, <2>8 DEF Inv, Synced
    <2> QED BY <2>5, <2>6, <2>7, <2>9, <2>10 DEF Inv
  <1>5. CASE reply # None
    <2>1. /\ Perform(c, do, reply, queue) /\ reply \in Book
          /\ overtaken' = (overtaken \/ cache \notin {None, reply})
          /\ lost' = (lost \/ cache \notin {None, reply})
      BY <1>2, <1>5 DEF Loaded
    <2>2. ~lost' => ~lost /\ (cache # None => reply = cache) /\ confirmed \subseteq DOMAIN reply
      BY <1>2, <1>5, <2>1 DEF Inv, Kept
    <2>3. ~overtaken' => ~overtaken /\ reply = IF cache = None THEN Content ELSE cache
      BY <1>2, <1>5, <2>1 DEF Inv, Synced
    <2>4. do.op = "create" =>
            do.id <= created /\ \A d \in Callers \ {c} : NewOf(calls[d]) # do.id
      <3>1. do.op = "create" => NewOf(calls[c]) = do.id /\ do.id \in Nat /\ do.id # 0
        BY <1>2, BoundsAssumption DEF NewOf, Operation, Ids
      <3> QED BY <3>1 DEF Inv, Order, Fresh
    <2>5. Ready(c, do, reply)
      BY <1>1, <1>2, <1>3, <2>1, <2>2, <2>3, <2>4, BoundsAssumption DEF Ready, TypeOK
    <2> QED BY <1>2, <2>1, <2>5, PerformStep
  <1> QED BY <1>4, <1>5

\* A save has settled: what it created is confirmed if it is still there.
LEMMA SavedStep ==
  ASSUME Inv, NEW c \in Callers, Saved(c)
  PROVE  Inv'
  <1>1. TypeOK /\ queue \in Seq(Command) /\ calls \in [Callers -> Call \cup {None}]
    BY DEF Inv, TypeOK
  <1>2. /\ At(calls[c]) = "saved" /\ calls' = [calls EXCEPT ![c] = None]
        /\ UNCHANGED <<cache, queue, created, host, disk, unsaved, overtaken, lost>>
        /\ confirmed' = IF calls[c].ok /\ calls[c].new \in DOMAIN cache
                        THEN confirmed \cup {calls[c].new} ELSE confirmed
    BY DEF Saved, At
  <1>3. /\ calls'[c] = None /\ At(calls'[c]) = "none" /\ NewOf(calls'[c]) = 0
        /\ \A d \in Callers : d # c => calls'[d] = calls[d]
    BY <1>1, <1>2 DEF At, NewOf
  <1>4. cache # None /\ cache \in Book /\ DOMAIN cache \subseteq Ids
    <2>1. cache # None
      BY <1>2 DEF Inv, Order, Blank
    <2> QED BY <1>1, <2>1, BookIsFunction DEF TypeOK
  <1>5. Stored' = Stored /\ Content' = Content
    BY <1>2 DEF Stored, Content, disk
  <1>6. \A d \in Callers : At(calls'[d]) # "none" => calls'[d] = calls[d]
    BY <1>3
  <1>7. TypeOK'
    <2>1. calls' \in [Callers -> Call \cup {None}]
      BY <1>1, <1>2
    <2>2. confirmed' \subseteq Ids
      BY <1>1, <1>2, <1>4 DEF TypeOK
    <2> QED BY <1>1, <1>2, <2>1, <2>2 DEF TypeOK, disk
  <1>8. FileIsWhole'
    BY <1>2 DEF Inv, FileIsWhole, disk
  <1>9. Order'
    <2>1. Fresh'
      BY <1>2, <1>3, BoundsAssumption DEF Inv, TypeOK, Order, Fresh
    <2>2. Orderly'
      <3>1. \A i \in 1..Len(queue) : queue[i].by \in Callers /\ queue[i].by # c
        BY <1>1, <1>2, NotInQueue, CommandShape DEF Inv, Order
      <3> QED BY <1>2, <1>3, <3>1 DEF Inv, Order, Orderly
    <2>3. Replacing'
      BY <1>2 DEF Inv, Order, Replacing, disk, Acceptable
    <2>4. Blank'
      BY <1>2, <1>4 DEF Blank
    <2> QED BY <2>1, <2>2, <2>3, <2>4 DEF Order
  <1>10. ASSUME ~lost'
         PROVE  Kept' /\ OnItsWay' /\ Arrived'
    <2>1. Kept /\ OnItsWay /\ Arrived
      BY <1>2, <1>10 DEF Inv
    <2>2. ASSUME calls[c].ok, calls[c].new \in DOMAIN cache
          PROVE  /\ Has(Stored, calls[c].new)
                 /\ \A i \in SavesIn(queue) : calls[c].new \in DOMAIN queue[i].book
      BY <1>2, <2>1, <2>2 DEF Arrived
    <2>3. Kept'
      BY <1>2, <1>4, <1>5, <2>1, <2>2 DEF Kept, Has
    <2>4. OnItsWay'
      BY <1>2, <1>6, <2>1 DEF OnItsWay
    <2>5. Arrived'
      BY <1>2, <1>5, <1>6, <2>1 DEF Arrived, Has
    <2> QED BY <2>3, <2>4, <2>5
  <1>11. ~overtaken' => Synced'
    BY <1>2, <1>4, <1>5 DEF Inv, Synced
  <1> QED BY <1>7, <1>8, <1>9, <1>10, <1>11 DEF Inv

-----------------------------------------------------------------------------
(* The host.                                                               *)

\* A load is answered with what the file holds, or with an error.
LEMMA AnswerLoadStep ==
  ASSUME Inv, HostHas("load"), NEW reply \in Book \cup {None},
         reply # None => reply = Content, AnswerLoad(reply),
         UNCHANGED <<cache, created, host, disk, history>>
  PROVE  Inv'
  <1> DEFINE c == queue[1].by
             n == Len(queue)
             do == calls[c].do
  <1>1. TypeOK /\ queue \in Seq(Command) /\ calls \in [Callers -> Call \cup {None}]
    BY DEF Inv, TypeOK
  <1>2. /\ queue' \in Seq(Command) /\ n \in Nat /\ n >= 1 /\ Len(queue') = n - 1
        /\ Head(queue) = queue[1]
        /\ \A i \in 1..(n - 1) : queue'[i] = queue[i + 1]
        /\ \A i \in SavesIn(queue') : i + 1 \in SavesIn(queue)
        /\ \A i \in SavesIn(queue) : i = 1 \/ i - 1 \in SavesIn(queue')
    BY <1>1, Answered DEF HostHas, AnswerLoad
  <1>3. /\ queue[1].type = "load" /\ 1 \in 1..n /\ c \in Callers
        /\ \A i \in 1..n : queue[i].by \in Callers
    <2>1. \A i \in 1..n : queue[i].by \in Callers
      BY <1>1, CommandShape
    <2>2. 1 \in 1..n /\ queue[1].type = "load"
      BY <1>2 DEF HostHas
    <2> QED BY <2>1, <2>2
  <1>4. At(calls[c]) = "loading" /\ do \in Operation
    BY <1>1, <1>3, CallShape DEF Inv, Order, Orderly
  <1>5. calls' = [calls EXCEPT ![c] = [stage |-> "loaded", do |-> do, reply |-> reply]]
    BY <1>2 DEF AnswerLoad
  <1>6. /\ calls'[c] \in Call /\ At(calls'[c]) = "loaded" /\ calls'[c].reply = reply
        /\ NewOf(calls'[c]) = NewOf(calls[c])
        /\ \A d \in Callers : d # c => calls'[d] = calls[d]
    BY <1>1, <1>3, <1>4, <1>5, LoadedCall DEF NewOf
  <1>7. \A i \in 1..(n - 1) : i + 1 \in 1..n /\ queue[i + 1].by # c
    BY <1>2, <1>3 DEF Inv, Order, Orderly
  <1>8. /\ \A i \in SavesIn(queue) : i \in 1..n /\ i # 1
        /\ \A i \in SavesIn(queue') : i \in 1..(n - 1) /\ queue'[i].book = queue[i + 1].book
    BY <1>2, <1>3 DEF SavesIn
  <1>9. host = "idle" /\ Stored = file /\ Stored' = file /\ Content' = Content
    BY <1>3 DEF Inv, Order, Replacing, Stored, Content, disk
  <1>10. TypeOK'
    <2>1. calls' \in [Callers -> Call \cup {None}]
      BY <1>1, <1>5, <1>6
    <2> QED BY <1>1, <1>2, <2>1 DEF TypeOK, disk, history
  <1>11. FileIsWhole'
    BY DEF Inv, FileIsWhole, disk
  <1>12. Order'
    <2>1. Fresh'
      <3>1. \A d \in Callers : NewOf(calls'[d]) = NewOf(calls[d])
        BY <1>6
      <3> QED BY <3>1 DEF Inv, Order, Fresh
    <2>2. Orderly'
      <3>1. ASSUME NEW i \in 1..Len(queue')
            PROVE  At(calls'[queue'[i].by]) =
                     IF queue'[i].type = "load" THEN "loading" ELSE "saving"
        BY <1>2, <1>3, <1>6, <1>7 DEF Inv, Order, Orderly
      <3>2. ASSUME NEW i \in 1..Len(queue'), NEW j \in 1..Len(queue'),
                   queue'[i].by = queue'[j].by
            PROVE  i = j
        <4>1. i + 1 = j + 1
          BY <1>2, <1>7, <3>2 DEF Inv, Order, Orderly
        <4> QED BY <1>2, <4>1
      <3> QED BY <3>1, <3>2 DEF Orderly
    <2>3. Replacing'
      BY <1>9 DEF Replacing
    <2>4. Blank'
      BY <1>2, <1>6 DEF Inv, Order, Blank, history
    <2> QED BY <2>1, <2>2, <2>3, <2>4 DEF Order
  <1>13. ASSUME ~lost'
         PROVE  Kept' /\ OnItsWay' /\ Arrived'
    <2>1. Kept /\ OnItsWay /\ Arrived /\ confirmed' = confirmed /\ cache' = cache
      BY <1>13 DEF Inv, history
    <2>2. Kept'
      <3>1. ASSUME NEW id \in confirmed
            PROVE  /\ Has(Stored', id)
                   /\ cache # None => id \in DOMAIN cache
                   /\ \A i \in SavesIn(queue') : id \in DOMAIN queue'[i].book
        BY <1>2, <1>8, <1>9, <2>1 DEF Kept
      <3>2. ASSUME NEW id \in confirmed, cache = None, NEW d \in Callers,
                   At(calls'[d]) = "loaded", calls'[d].reply # None
            PROVE  id \in DOMAIN calls'[d].reply
        <4>1. CASE d = c
          <5>1. file # None /\ id \in DOMAIN file
            BY <1>9, <2>1 DEF Kept, Has
          <5> QED BY <1>6, <3>2, <4>1, <5>1 DEF Content
        <4>2. CASE d # c
          BY <1>6, <2>1, <3>2, <4>2 DEF Kept
        <4> QED BY <4>1, <4>2
      <3> QED BY <2>1, <3>1, <3>2 DEF Kept, Has
    <2>3. ASSUME NEW d \in Callers, At(calls'[d]) = "saving", calls'[d].new \in DOMAIN cache'
          PROVE  \E k \in 1..Len(queue') :
                   /\ queue'[k].by = d
                   /\ \A i \in SavesIn(queue') : i >= k => calls'[d].new \in DOMAIN queue'[i].book
      <3>1. d # c /\ calls'[d] = calls[d]
        BY <1>6, <2>3
      <3>2. PICK k \in 1..n :
              /\ queue[k].by = d
              /\ \A i \in SavesIn(queue) : i >= k => calls[d].new \in DOMAIN queue[i].book
        BY <2>1, <2>3, <3>1 DEF OnItsWay
      <3>3. k # 1
        BY <3>1, <3>2
      <3>4. k - 1 \in 1..Len(queue') /\ queue'[k - 1].by = d
        BY <1>2, <3>2, <3>3
      <3>5. \A i \in SavesIn(queue') : i >= k - 1 => calls'[d].new \in DOMAIN queue'[i].book
        BY <1>2, <1>8, <3>1, <3>2
      <3> QED BY <3>4, <3>5
    <2>4. ASSUME NEW d \in Callers, At(calls'[d]) = "saved", calls'[d].ok,
                 calls'[d].new \in DOMAIN cache'
          PROVE  /\ Has(Stored', calls'[d].new)
                 /\ \A i \in SavesIn(queue') : calls'[d].new \in DOMAIN queue'[i].book
      <3>1. d # c /\ calls'[d] = calls[d]
        BY <1>6, <2>4
      <3> QED BY <1>2, <1>8, <1>9, <2>1, <2>4, <3>1 DEF Arrived
    <2>5. OnItsWay'
      BY <2>3 DEF OnItsWay
    <2>6. Arrived'
      BY <2>4 DEF Arrived, Has
    <2> QED BY <2>2, <2>5, <2>6
  <1>14. ASSUME ~overtaken'
         PROVE  Synced'
    <2>1. Synced /\ cache' = cache /\ unsaved' = unsaved
      BY <1>14 DEF Inv, history
    <2>2. cache = None =>
            \A d \in Callers : At(calls'[d]) = "loaded" /\ calls'[d].reply # None =>
              calls'[d].reply = Content
      BY <1>6, <2>1 DEF Synced
    <2>3. SavesIn(queue') = {} => SavesIn(queue) = {}
      BY <1>2, <1>8
    <2>4. ASSUME NEW i \in SavesIn(queue'), \A j \in SavesIn(queue') : j <= i
          PROVE  queue'[i].book = cache
      <3>1. i + 1 \in SavesIn(queue) /\ queue'[i].book = queue[i + 1].book /\ i \in Nat
        BY <1>2, <1>8
      <3>2. \A j \in SavesIn(queue) : j <= i + 1
        BY <1>2, <1>8, <2>4, <3>1
      <3> QED BY <2>1, <3>1, <3>2 DEF Synced
    <2> QED BY <1>9, <2>1, <2>2, <2>3, <2>4 DEF Synced
  <1> QED BY <1>10, <1>11, <1>12, <1>13, <1>14 DEF Inv

\* A save is answered; where it succeeded the file is its book.
LEMMA AnswerSaveStep ==
  ASSUME Inv, HostHas("save"), NEW ok \in BOOLEAN, AnswerSave(ok),
         host' = "idle", file' \in Book \cup {None, Torn}, tmp' \in Book \cup {None, Torn},
         FileIsWhole', lost' \in BOOLEAN,
         ok => file' = queue[1].book /\ Stored = file',
         ~lost' => ~lost /\ Stored' = Stored,
         UNCHANGED <<cache, created, confirmed, overtaken>>
  PROVE  Inv'
  <1> DEFINE c == queue[1].by
             n == Len(queue)
             new == calls[c].new
  <1>1. TypeOK /\ queue \in Seq(Command) /\ calls \in [Callers -> Call \cup {None}]
    BY DEF Inv, TypeOK
  <1>2. /\ queue' \in Seq(Command) /\ n \in Nat /\ n >= 1 /\ Len(queue') = n - 1
        /\ Head(queue) = queue[1] /\ unsaved' = ~ok
        /\ \A i \in 1..(n - 1) : queue'[i] = queue[i + 1]
        /\ \A i \in SavesIn(queue') : i + 1 \in SavesIn(queue)
        /\ \A i \in SavesIn(queue) : i = 1 \/ i - 1 \in SavesIn(queue')
    BY <1>1, Answered DEF HostHas, AnswerSave
  <1>3. /\ queue[1].type = "save" /\ 1 \in 1..n /\ c \in Callers /\ queue[1].book \in Book
        /\ \A i \in 1..n : queue[i].by \in Callers
    <2>1. \A i \in 1..n : /\ queue[i].by \in Callers
                          /\ queue[i].type = "save" => queue[i].book \in Book
      BY <1>1, CommandShape
    <2>2. 1 \in 1..n /\ queue[1].type = "save"
      BY <1>2 DEF HostHas
    <2> QED BY <2>1, <2>2
  <1>4. At(calls[c]) = "saving" /\ new \in 0..MaxEntries
    BY <1>1, <1>3, CallShape DEF Inv, Order, Orderly
  <1>5. calls' = [calls EXCEPT ![c] = [stage |-> "saved", new |-> new, ok |-> ok]]
    BY <1>2 DEF AnswerSave
  <1>6. /\ calls'[c] \in Call /\ At(calls'[c]) = "saved"
        /\ calls'[c].new = new /\ calls'[c].ok = ok
        /\ NewOf(calls'[c]) = NewOf(calls[c])
        /\ \A d \in Callers : d # c => calls'[d] = calls[d]
    BY <1>1, <1>3, <1>4, <1>5, SavedCall DEF NewOf
  <1>7. \A i \in 1..(n - 1) : i + 1 \in 1..n /\ queue[i + 1].by # c
    BY <1>2, <1>3 DEF Inv, Order, Orderly
  <1>8. /\ \A i \in SavesIn(queue) : i \in 1..n
        /\ 1 \in SavesIn(queue)
        /\ \A i \in SavesIn(queue') : i \in 1..(n - 1) /\ queue'[i].book = queue[i + 1].book
    BY <1>2, <1>3 DEF SavesIn
  <1>9. cache # None
    BY <1>8 DEF Inv, Order, Blank
  <1>10. TypeOK'
    <2>1. calls' \in [Callers -> Call \cup {None}]
      BY <1>1, <1>5, <1>6
    <2> QED BY <1>1, <1>2, <2>1 DEF TypeOK
  <1>11. Order'
    <2>1. Fresh'
      <3>1. \A d \in Callers : NewOf(calls'[d]) = NewOf(calls[d])
        BY <1>6
      <3> QED BY <3>1 DEF Inv, Order, Fresh
    <2>2. Orderly'
      <3>1. ASSUME NEW i \in 1..Len(queue')
            PROVE  At(calls'[queue'[i].by]) =
                     IF queue'[i].type = "load" THEN "loading" ELSE "saving"
        BY <1>2, <1>3, <1>6, <1>7 DEF Inv, Order, Orderly
      <3>2. ASSUME NEW i \in 1..Len(queue'), NEW j \in 1..Len(queue'),
                   queue'[i].by = queue'[j].by
            PROVE  i = j
        <4>1. i + 1 = j + 1
          BY <1>2, <1>7, <3>2 DEF Inv, Order, Orderly
        <4> QED BY <1>2, <4>1
      <3> QED BY <3>1, <3>2 DEF Orderly
    <2>3. Replacing'
      BY DEF Replacing
    <2>4. Blank'
      BY <1>9 DEF Blank
    <2> QED BY <2>1, <2>2, <2>3, <2>4 DEF Order
  <1>12. ASSUME ~lost'
         PROVE  Kept' /\ OnItsWay' /\ Arrived'
    <2>1. Kept /\ OnItsWay /\ Arrived /\ Stored' = Stored
      BY <1>12 DEF Inv
    <2>2. Kept'
      <3>1. ASSUME NEW id \in confirmed
            PROVE  /\ Has(Stored', id)
                   /\ id \in DOMAIN cache
                   /\ \A i \in SavesIn(queue') : id \in DOMAIN queue'[i].book
        BY <1>2, <1>8, <1>9, <2>1 DEF Kept
      <3> QED BY <1>9, <3>1 DEF Kept, Has
    <2>3. ASSUME NEW d \in Callers, At(calls'[d]) = "saving", calls'[d].new \in DOMAIN cache
          PROVE  \E k \in 1..Len(queue') :
                   /\ queue'[k].by = d
                   /\ \A i \in SavesIn(queue') : i >= k => calls'[d].new \in DOMAIN queue'[i].book
      <3>1. d # c /\ calls'[d] = calls[d]
        BY <1>6, <2>3
      <3>2. PICK k \in 1..n :
              /\ queue[k].by = d
              /\ \A i \in SavesIn(queue) : i >= k => calls[d].new \in DOMAIN queue[i].book
        BY <2>1, <2>3, <3>1 DEF OnItsWay
      <3>3. k # 1
        BY <3>1, <3>2
      <3>4. k - 1 \in 1..Len(queue') /\ queue'[k - 1].by = d
        BY <1>2, <3>2, <3>3
      <3>5. \A i \in SavesIn(queue') : i >= k - 1 => calls'[d].new \in DOMAIN queue'[i].book
        BY <1>2, <1>8, <3>1, <3>2
      <3> QED BY <3>4, <3>5
    <2>4. ASSUME NEW d \in Callers, At(calls'[d]) = "saved", calls'[d].ok,
                 calls'[d].new \in DOMAIN cache
          PROVE  /\ Has(Stored', calls'[d].new)
                 /\ \A i \in SavesIn(queue') : calls'[d].new \in DOMAIN queue'[i].book
      <3>1. CASE d # c
        <4>1. calls'[d] = calls[d]
          BY <1>6, <3>1
        <4> QED BY <1>2, <1>8, <2>1, <2>4, <4>1 DEF Arrived
      <3>2. CASE d = c
        <4>1. ok /\ calls'[d].new = new /\ new \in DOMAIN cache
          BY <1>6, <2>4, <3>2
        <4>2. PICK k \in 1..n :
                /\ queue[k].by = c
                /\ \A i \in SavesIn(queue) : i >= k => new \in DOMAIN queue[i].book
          BY <1>3, <1>4, <2>1, <4>1 DEF OnItsWay
        <4>3. k = 1
          BY <1>3, <4>2 DEF Inv, Order, Orderly
        <4>4. \A i \in SavesIn(queue) : new \in DOMAIN queue[i].book
          BY <1>8, <4>2, <4>3
        <4>5. Has(Stored', new)
          BY <1>3, <1>8, <2>1, <4>1, <4>4, NoneAssumption DEF Has
        <4> QED BY <1>2, <1>8, <4>1, <4>4, <4>5
      <3> QED BY <3>1, <3>2
    <2>5. OnItsWay'
      BY <2>3 DEF OnItsWay
    <2>6. Arrived'
      BY <2>4 DEF Arrived, Has
    <2> QED BY <2>2, <2>5, <2>6
  <1>13. ASSUME ~overtaken'
         PROVE  Synced'
    <2>1. Synced
      BY <1>13 DEF Inv
    <2>2. ASSUME SavesIn(queue') = {}, ~unsaved'
          PROVE  cache = Content'
      <3>1. \A i \in SavesIn(queue) : i <= 1
        BY <1>2, <1>8, <2>2
      <3>2. queue[1].book = cache
        BY <1>8, <2>1, <3>1 DEF Synced
      <3> QED BY <1>2, <1>9, <2>2, <3>2 DEF Content
    <2>3. ASSUME NEW i \in SavesIn(queue'), \A j \in SavesIn(queue') : j <= i
          PROVE  queue'[i].book = cache
      <3>1. i + 1 \in SavesIn(queue) /\ queue'[i].book = queue[i + 1].book /\ i \in Nat
        BY <1>2, <1>8
      <3>2. \A j \in SavesIn(queue) : j <= i + 1
        BY <1>2, <1>8, <2>3, <3>1
      <3> QED BY <2>1, <3>1, <3>2 DEF Synced
    <2> QED BY <1>9, <2>2, <2>3 DEF Synced
  <1> QED BY <1>10, <1>11, <1>12, <1>13 DEF Inv

\* The files change below the first save, but not what is stored.
LEMMA FilesChange ==
  ASSUME Inv, SavesIn(queue) # {}, UNCHANGED <<manager, history>>,
         host' \in {"created", "written", "removed"},
         file' \in Book \cup {None, Torn}, tmp' \in Book \cup {None, Torn},
         FileIsWhole', Replacing',
         \A id : /\ Has(Stored, id)
                 /\ \A i \in SavesIn(queue) : id \in DOMAIN queue[i].book
                 => Has(Stored, id)'
  PROVE  Inv'
  <1>1. /\ UNCHANGED <<cache, calls, queue, created>>
        /\ UNCHANGED <<confirmed, unsaved, overtaken, lost>>
    BY DEF manager, history
  <1>2. TypeOK'
    BY <1>1 DEF Inv, TypeOK
  <1>3. Order'
    BY <1>1 DEF Inv, Order, Fresh, Orderly, Blank
  <1>4. cache # None
    BY DEF Inv, Order, Blank
  <1>5. ASSUME ~lost'
        PROVE  Kept' /\ OnItsWay' /\ Arrived'
    <2>1. Kept /\ OnItsWay /\ Arrived
      BY <1>1, <1>5 DEF Inv
    <2>2. Kept'
      <3>1. \A id \in confirmed : Has(Stored, id)'
        BY <2>1 DEF Kept
      <3> QED BY <1>1, <1>4, <2>1, <3>1 DEF Kept
    <2>3. OnItsWay'
      BY <1>1, <2>1 DEF OnItsWay
    <2>4. Arrived'
      <3>1. ASSUME NEW d \in Callers, At(calls[d]) = "saved", calls[d].ok,
                   calls[d].new \in DOMAIN cache
            PROVE  /\ Has(Stored', calls[d].new)
                   /\ \A i \in SavesIn(queue) : calls[d].new \in DOMAIN queue[i].book
        BY <2>1, <3>1 DEF Arrived, Has
      <3> QED BY <1>1, <3>1 DEF Arrived, Has
    <2> QED BY <2>2, <2>3, <2>4
  <1>6. ~overtaken' => Synced'
    BY <1>1, <1>4 DEF Inv, Synced
  <1> QED BY <1>2, <1>3, <1>5, <1>6 DEF Inv

\* Every step of the host keeps the invariant.
LEMMA HostStepKeeps ==
  ASSUME Inv, HostStep
  PROVE  Inv'
  <1>1. TypeOK /\ queue \in Seq(Command) /\ file \in Book \cup {None, Torn}
        /\ Replacing /\ FileIsWhole
    BY DEF Inv, TypeOK, Order
  <1>2. ASSUME queue # <<>>
        PROVE  /\ Head(queue) = queue[1] /\ 1 \in 1..Len(queue)
               /\ queue[1].type = "save" => 1 \in SavesIn(queue) /\ queue[1].book \in Book
    <2>1. Head(queue) = queue[1] /\ 1 \in 1..Len(queue)
      BY <1>1, <1>2, Answered
    <2> QED BY <1>1, <2>1, CommandShape DEF SavesIn
  <1>3. host # "idle" => HostHas("save")
    BY <1>1, <1>2 DEF Replacing, HostHas
  <1>4. CASE HostLoads
    <2> DEFINE reply == CASE file = None -> NoEntries
                          [] file = Torn -> None
                          [] OTHER -> file
    <2>1. reply \in Book \cup {None} /\ (reply # None => reply = Content)
      BY <1>1, EmptyBook, NoneAssumption DEF Content
    <2> QED BY <1>4, <2>1, AnswerLoadStep DEF HostLoads
  <1>5. CASE HostLoadFails
    BY <1>5, AnswerLoadStep DEF HostLoadFails
  <1>6. CASE HostRefuses
    <2>1. HostHas("save") /\ AnswerSave(FALSE) /\ lost' \in BOOLEAN
      BY <1>1, <1>6 DEF HostRefuses, TypeOK
    <2>2. host' = "idle" /\ file' = file /\ tmp' = tmp /\ Stored' = Stored
      BY <1>6 DEF HostRefuses, disk, Stored
    <2>3. tmp' \in Book \cup {None, Torn} /\ file' \in Book \cup {None, Torn} /\ FileIsWhole'
      BY <1>1, <2>2 DEF TypeOK, FileIsWhole
    <2>4. lost' = lost /\ UNCHANGED <<cache, created, confirmed, overtaken>>
      BY <1>6 DEF HostRefuses
    <2> QED BY <2>1, <2>2, <2>3, <2>4, AnswerSaveStep
  <1>7. CASE HostCreates
    <2>1. /\ HostHas("save") /\ host = "idle" /\ Acceptable(queue[1].book)
          /\ tmp' = Torn /\ host' = "created" /\ file' = file
          /\ UNCHANGED <<manager, history>>
      BY <1>2, <1>7 DEF HostCreates, HostHas
    <2>2. queue[1].type = "save" /\ SavesIn(queue) # {} /\ queue' = queue /\ queue # <<>>
      BY <1>2, <2>1 DEF HostHas, manager
    <2>3. Stored' = Stored /\ FileIsWhole' /\ Replacing'
      BY <1>1, <2>1, <2>2 DEF Stored, FileIsWhole, Replacing, Acceptable
    <2> QED BY <1>1, <2>1, <2>2, <2>3, FilesChange DEF Has
  <1>8. CASE HostWrites
    <2>1. /\ host = "created" /\ tmp' = queue[1].book /\ host' = "written" /\ file' = file
          /\ UNCHANGED <<manager, history>>
      BY <1>2, <1>3, <1>8 DEF HostWrites, HostHas
    <2>2. /\ queue[1].type = "save" /\ SavesIn(queue) # {} /\ queue' = queue /\ queue # <<>>
          /\ queue[1].book \in Book
      BY <1>1, <1>2, <2>1 DEF Replacing, manager
    <2>3. Stored' = Stored /\ FileIsWhole' /\ Replacing'
      BY <1>1, <2>1, <2>2 DEF Stored, FileIsWhole, Replacing, Acceptable
    <2> QED BY <1>1, <2>1, <2>2, <2>3, FilesChange DEF Has
  <1>9. CASE HostRemoves
    <2>1. /\ host = "written" /\ tmp' = tmp /\ host' = "removed" /\ file' = None
          /\ tmp = queue[1].book /\ UNCHANGED <<manager, history>>
      BY <1>1, <1>9 DEF HostRemoves, Replacing
    <2>2. /\ 1 \in SavesIn(queue) /\ queue' = queue /\ queue # <<>>
          /\ queue[1].book \in Book
      BY <1>1, <1>2, <2>1 DEF Replacing, manager
    <2>3. Stored' = queue[1].book /\ FileIsWhole' /\ Replacing'
      BY <1>1, <2>1, <2>2 DEF Stored, FileIsWhole, Replacing, Acceptable
    <2>4. \A id : (\A i \in SavesIn(queue) : id \in DOMAIN queue[i].book) => Has(Stored, id)'
      BY <2>2, <2>3, NoneAssumption DEF Has
    <2> QED BY <2>1, <2>2, <2>3, <2>4, FilesChange
  <1>10. CASE HostRenames
    <2>1. /\ host = "removed" /\ file' = tmp /\ tmp' = None /\ host' = "idle"
          /\ tmp = queue[1].book /\ AnswerSave(TRUE) /\ HostHas("save")
          /\ UNCHANGED <<cache, created, confirmed, overtaken, lost>>
      BY <1>1, <1>3, <1>10 DEF HostRenames, Replacing
    <2>2. queue[1].book \in Book /\ Acceptable(queue[1].book) /\ lost' \in BOOLEAN
      BY <1>1, <1>2, <2>1 DEF Replacing, TypeOK
    <2>3. Stored = file' /\ Stored' = file' /\ FileIsWhole'
      BY <2>1, <2>2, NoneAssumption DEF Stored, FileIsWhole, Acceptable
    <2> QED BY <2>1, <2>2, <2>3, AnswerSaveStep
  <1>11. CASE HostSaveFails
    <2>1. /\ HostHas("save") /\ AnswerSave(FALSE) /\ host' = "idle" /\ tmp' = None
          /\ lost' = (lost \/ host = "removed") /\ file' = file
          /\ UNCHANGED <<cache, created, confirmed, overtaken>>
      BY <1>11 DEF HostSaveFails
    <2>2. FileIsWhole' /\ lost' \in BOOLEAN
      BY <1>1, <2>1 DEF FileIsWhole, TypeOK
    <2>3. ~lost' => ~lost /\ Stored' = Stored
      BY <2>1 DEF Stored
    <2> QED BY <1>1, <2>1, <2>2, <2>3, AnswerSaveStep
  <1> QED BY <1>4, <1>5, <1>6, <1>7, <1>8, <1>9, <1>10, <1>11 DEF HostStep

\* After a crash the files are what is left.
LEMMA CrashStep ==
  ASSUME Inv, Crash
  PROVE  Inv'
  <1>1. /\ cache' = None /\ queue' = <<>> /\ host' = "idle" /\ tmp' = None
        /\ calls' = [c \in Callers |-> None] /\ file' = file
        /\ lost' = (lost \/ host = "removed") /\ unsaved' = FALSE /\ overtaken' = FALSE
        /\ UNCHANGED <<created, confirmed>>
    BY DEF Crash
  <1>2. \A c \in Callers : At(calls'[c]) = "none" /\ NewOf(calls'[c]) = 0
    BY <1>1 DEF At, NewOf
  <1>3. SavesIn(queue') = {} /\ Len(queue') = 0
    BY <1>1 DEF SavesIn
  <1>4. TypeOK'
    <2>1. queue' \in Seq(Command)
      BY <1>1
    <2>2. calls' \in [Callers -> Call \cup {None}]
      BY <1>1
    <2>3. lost' \in BOOLEAN
      BY <1>1 DEF Inv, TypeOK
    <2> QED BY <1>1, <2>1, <2>2, <2>3 DEF Inv, TypeOK
  <1>5. FileIsWhole'
    BY <1>1 DEF Inv, FileIsWhole
  <1>6. Order'
    <2>1. created' \in Nat
      BY <1>1, BoundsAssumption DEF Inv, TypeOK
    <2>2. Fresh'
      BY <1>2, <2>1 DEF Fresh
    <2>3. Orderly' /\ Replacing' /\ Blank'
      BY <1>1, <1>2, <1>3 DEF Orderly, Replacing, Blank
    <2> QED BY <2>2, <2>3 DEF Order
  <1>7. ASSUME ~lost'
        PROVE  Kept' /\ OnItsWay' /\ Arrived'
    <2>1. Kept /\ Stored' = Stored
      BY <1>1, <1>7 DEF Inv, Stored
    <2>2. Kept'
      BY <1>1, <1>2, <1>3, <2>1 DEF Kept, Has
    <2> QED BY <1>2, <2>2 DEF OnItsWay, Arrived
  <1>8. Synced'
    BY <1>1, <1>2, <1>3 DEF Synced
  <1> QED BY <1>4, <1>5, <1>6, <1>7, <1>8 DEF Inv

-----------------------------------------------------------------------------
(* The theorems.                                                           *)

\* At the start nothing is cached, asked for, stored or confirmed.
LEMMA InitialInv == Init => Inv
  <1> SUFFICES ASSUME Init PROVE Inv
    OBVIOUS
  <1>1. \A c \in Callers : At(calls[c]) = "none" /\ NewOf(calls[c]) = 0
    BY DEF Init, At, NewOf
  <1>2. SavesIn(queue) = {} /\ Len(queue) = 0
    BY DEF Init, SavesIn
  <1>3. TypeOK
    <2>1. queue \in Seq(Command)
      BY DEF Init
    <2>2. calls \in [Callers -> Call \cup {None}]
      BY DEF Init
    <2>3. created \in 0..MaxEntries
      BY BoundsAssumption DEF Init
    <2> QED BY <2>1, <2>2, <2>3 DEF Init, TypeOK
  <1>4. FileIsWhole /\ Order
    BY <1>1, <1>2 DEF Init, FileIsWhole, Order, Fresh, Orderly, Replacing, Blank
  <1>5. Kept /\ OnItsWay /\ Arrived
    BY <1>1 DEF Init, Kept, OnItsWay, Arrived
  <1>6. Synced
    BY <1>1, <1>2 DEF Init, Synced
  <1> QED BY <1>3, <1>4, <1>5, <1>6 DEF Inv

\* Nothing happens.
LEMMA StutterKeeps ==
  ASSUME Inv, UNCHANGED vars
  PROVE  Inv'
  <1>1. /\ UNCHANGED <<cache, calls, queue, created, host, file, tmp>>
        /\ UNCHANGED <<confirmed, unsaved, overtaken, lost>>
    BY DEF vars, manager, disk, history
  <1>2. Stored' = Stored /\ Content' = Content
    BY <1>1 DEF Stored, Content
  <1>3. TypeOK' /\ FileIsWhole' /\ Order'
    BY <1>1 DEF Inv, TypeOK, FileIsWhole, Order, Fresh, Orderly, Replacing, Blank
  <1>4. ~lost' => Kept' /\ OnItsWay' /\ Arrived'
    BY <1>1, <1>2 DEF Inv, Kept, OnItsWay, Arrived, Has
  <1>5. ~overtaken' => Synced'
    BY <1>1, <1>2 DEF Inv, Synced
  <1> QED BY <1>3, <1>4, <1>5 DEF Inv

\* The inductive invariant of the manager, its queue of commands and the file.
THEOREM CoreBookInvariance == Spec => []Inv
  <1>1. Inv /\ [Next]_vars => Inv'
    BY RequestStep, LoadedStep, SavedStep, HostStepKeeps, CrashStep, StutterKeeps DEF Next
  <1> QED BY <1>1, InitialInv, PTL DEF Spec

\* Every variable stays in its type, through any interleaving and crash.
THEOREM CoreBookTypeCorrect == Spec => []TypeOK
  <1>1. Inv => TypeOK
    BY DEF Inv
  <1> QED BY <1>1, CoreBookInvariance, PTL

\* Whenever the machine stops, core-book-v1-<character>.json is absent or
\* one that load accepts.
THEOREM FileIsWholeHolds == Spec => []FileIsWhole
  <1>1. Inv => FileIsWhole
    BY DEF Inv
  <1> QED BY <1>1, CoreBookInvariance, PTL

\* A confirmed entry stays in the file until its deletion is asked for,
\* unless one of the two ways to lose it has been taken.
THEOREM DurableHolds == Spec => []Durable
  <1>1. Inv => Durable
    BY DEF Inv, Kept, Has, Stored, Durable
  <1> QED BY <1>1, CoreBookInvariance, PTL

\* With no call in progress the queue is empty, so that the cache has what
\* the file has, unless the last save failed or a load was overtaken.
THEOREM QuietCacheIsFileHolds == Spec => []QuietCacheIsFile
  <1>1. Inv => QuietCacheIsFile
    <2> SUFFICES ASSUME Inv, \A c \in Callers : calls[c] = None,
                        ~unsaved, ~overtaken, cache # None
                 PROVE  cache = Content
      BY DEF QuietCacheIsFile, Content
    <2>1. \A i \in 1..Len(queue) : queue[i].by \in Callers /\ calls[queue[i].by] = None
      BY CommandShape DEF Inv, TypeOK
    <2>2. SavesIn(queue) = {}
      BY <2>1 DEF Inv, Order, Orderly, At, SavesIn
    <2> QED BY <2>2 DEF Inv, Synced
  <1> QED BY <1>1, CoreBookInvariance, PTL

-----------------------------------------------------------------------------
(* The conversation file.                                                  *)

File0 == [state : Talks!State, valid : BOOLEAN] \cup {Absent}

Saving == {"create", "write", "remove", "rename"}

TalksTypeOK ==
  /\ v2 \in File0 /\ v1 \in File0 /\ v2aside \in File0 /\ v1aside \in File0
  /\ draft \in File0 /\ first \in File0
  /\ command \in Talks!Commands \cup {Absent}
  /\ step \in {"idle", "load", "apply"} \cup Saving
  /\ loaded \in Talks!State /\ migrates \in BOOLEAN
  /\ promised \in [Conversations -> SUBSET Texts]
  /\ deleted \in SUBSET Conversations

\* How far a command is, and what it has written.
Course ==
  /\ command = Absent <=> step = "idle"
  /\ step \in {"remove", "rename"} => draft = Talks!File(loaded, TRUE)
  /\ step = "rename" => v2 = Absent
  /\ migrates =>
       /\ step \in Saving /\ v2 = Absent /\ v1 # Absent /\ v1.valid
       /\ loaded.talks = v1.state.talks

\* A state keeps what is promised, and has nothing that was deleted.
Keeps(s) ==
  \A id \in Conversations :
    /\ promised[id] # {} => id \in DOMAIN s.talks /\ s.talks[id] \in promised[id]
    /\ id \in deleted => id \notin DOMAIN s.talks

LoadedKeeps ==
  step \in {"apply"} \cup Saving /\ ~migrates => Keeps(loaded)

\* Nothing is known to be deleted without a file in use that can be decoded.
DeletedFromFile ==
  /\ Default \notin deleted
  /\ deleted # {} => \/ step = "rename" /\ ~migrates
                     \/ v2 # Absent /\ v2.valid

\* What a command is about is not promised otherwise while it is in hand.
Widened ==
  command # Absent =>
    /\ command.op = "save" => command.id \notin deleted
    /\ command.op = "save" /\ promised[command.id] # {} =>
         command.text \in promised[command.id]
    /\ command.op = "clear" /\ promised[command.id] # {} =>
         NoText \in promised[command.id]
    /\ command.op = "delete" => promised[command.id] = {}

\* What a command saves is what it was asked for.
TalksApplied ==
  step \in Saving /\ ~migrates =>
    /\ command.op \in {"save", "clear"} => command.id \in DOMAIN loaded.talks
    /\ command.op = "save" => loaded.talks[command.id] = command.text
    /\ command.op = "clear" => loaded.talks[command.id] = NoText
    /\ command.op = "delete" /\ command.id # Default =>
         command.id \notin DOMAIN loaded.talks

TalksInv ==
  /\ TalksTypeOK /\ Course /\ Talks!FileFollowsCommands
  /\ LoadedKeeps /\ DeletedFromFile /\ Widened /\ TalksApplied

\* Where the first damaged file is.
DamageInv ==
  /\ first # Absent => ~first.valid
  /\ Talks!FirstDamageKept
  /\ v2aside # Absent => first = v2aside
  /\ v2 # Absent /\ ~v2.valid /\ v2aside = Absent =>
       first = v2 /\ step \in {"idle", "load"}

-----------------------------------------------------------------------------
(* States, commands and changes.                                           *)

\* The conversations of a state are a function of some identifiers.
LEMMA TalksFacts ==
  /\ \A s \in Talks!State :
       /\ s.talks \in [DOMAIN s.talks -> Texts] /\ DOMAIN s.talks \subseteq Conversations
       /\ s.talks \in Talks!Talks /\ s.active \in Conversations \cup {Absent}
       /\ s = [talks |-> s.talks, active |-> s.active]
  /\ \A D \in SUBSET Conversations : \A f \in [D -> Texts] : f \in Talks!Talks
  <1>1. ASSUME NEW s \in Talks!State
        PROVE  /\ s.talks \in [DOMAIN s.talks -> Texts]
               /\ DOMAIN s.talks \subseteq Conversations
    <2>1. PICK D \in SUBSET Conversations : s.talks \in [D -> Texts]
      BY DEF Talks!State, Talks!Talks
    <2> QED BY <2>1
  <1>2. \A s \in Talks!State :
          /\ s.talks \in Talks!Talks /\ s.active \in Conversations \cup {Absent}
          /\ s = [talks |-> s.talks, active |-> s.active]
    BY DEF Talks!State
  <1>3. \A D \in SUBSET Conversations : \A f \in [D -> Texts] : f \in Talks!Talks
    BY DEF Talks!Talks
  <1> QED BY <1>1, <1>2, <1>3

LEMMA EmptyFacts ==
  Talks!Empty \in Talks!State /\ Talks!Empty.talks = <<>> /\ DOMAIN Talks!Empty.talks = {}
  <1>1. <<>> \in [{} -> Texts]
    OBVIOUS
  <1>2. <<>> \in Talks!Talks
    BY <1>1, TalksFacts
  <1> QED BY <1>1, <1>2 DEF Talks!Empty, Talks!State

LEMMA FileFacts ==
  ASSUME Talks!Assumptions, NEW s \in Talks!State, NEW valid \in BOOLEAN
  PROVE  /\ Talks!File(s, valid) \in File0 /\ Talks!File(s, valid) # Absent
         /\ Talks!File(s, valid).state = s /\ Talks!File(s, valid).valid = valid
  BY DEF Talks!Assumptions, Talks!File, File0

LEMMA CommandFacts ==
  ASSUME Talks!Assumptions, NEW c \in Talks!Commands
  PROVE  /\ c # Absent
         /\ c.op \in {"save", "delete", "set_active", "clear", "read"}
         /\ c.op # "read" => c.id \in Conversations
         /\ c.op = "save" => c.text \in Texts
  BY DEF Talks!Assumptions, Talks!Commands

\* What the change of a command keeps of a state, and what it brings.
LEMMA ChangeFacts ==
  ASSUME Talks!Assumptions, NEW c \in Talks!Commands, NEW s \in Talks!State,
         NEW t \in Talks!Changes(c, s)
  PROVE  /\ t \in Talks!State
         /\ \A i \in DOMAIN s.talks :
              i # c.id \/ c.op = "set_active" =>
                i \in DOMAIN t.talks /\ t.talks[i] = s.talks[i]
         /\ \A i \in DOMAIN t.talks :
              \/ i \in DOMAIN s.talks \/ i = Default
              \/ c.op = "save" /\ i = c.id
         /\ c.op \in {"save", "clear"} => c.id \in DOMAIN t.talks
         /\ c.op = "save" => t.talks[c.id] = c.text
         /\ c.op = "clear" => t.talks[c.id] = NoText
         /\ c.op = "delete" /\ c.id # Default => c.id \notin DOMAIN t.talks
  <1>1. /\ s.talks \in [DOMAIN s.talks -> Texts] /\ DOMAIN s.talks \subseteq Conversations
        /\ s.talks \in Talks!Talks /\ s.active \in Conversations \cup {Absent}
        /\ s = [talks |-> s.talks, active |-> s.active]
    BY TalksFacts
  <1>2. /\ c.op \in {"save", "delete", "set_active", "clear", "read"}
        /\ c.op # "read" => c.id \in Conversations
        /\ c.op = "save" => c.text \in Texts
        /\ Default \in Conversations /\ NoText \in Texts
    BY CommandFacts DEF Talks!Assumptions
  <1>3. CASE c.op = "save"
    <2> DEFINE talks == [i \in DOMAIN s.talks \cup {c.id} |->
                           IF i = c.id THEN c.text ELSE s.talks[i]]
    <2>1. t.talks = talks /\ t.active \in Conversations \cup {Absent}
          /\ t = [talks |-> t.talks, active |-> t.active]
      <3>1. t = Talks!Put(s, c.id, c.text)
        BY <1>3 DEF Talks!Changes
      <3> QED BY <1>1, <1>2, <1>3, <3>1 DEF Talks!Put
    <2>2. talks \in Talks!Talks
      BY <1>1, <1>2, <1>3, TalksFacts
    <2> QED BY <1>1, <1>2, <1>3, <2>1, <2>2 DEF Talks!State
  <1>4. CASE c.op = "delete"
    <2> DEFINE rest == DOMAIN s.talks \ {c.id}
               talks == [i \in rest |-> s.talks[i]]
               new == [i \in {Default} |-> NoText]
    <2>1. c.id \in DOMAIN s.talks /\ t \in Talks!Removals(s, c.id)
      <3>1. c.id \in DOMAIN s.talks
        BY <1>4 DEF Talks!Changes
      <3> QED BY <1>4, <3>1 DEF Talks!Changes
    <2>2. talks \in Talks!Talks /\ new \in Talks!Talks
      BY <1>1, <1>2, TalksFacts
    <2>3. \/ /\ t.talks = talks /\ t.active \in Conversations \cup {Absent}
             /\ t = [talks |-> t.talks, active |-> t.active]
          \/ /\ t.talks = new /\ t.active = Default /\ rest = {}
             /\ t = [talks |-> t.talks, active |-> t.active]
      BY <1>1, <2>1 DEF Talks!Removals
    <2> QED BY <1>1, <1>2, <1>4, <2>1, <2>2, <2>3 DEF Talks!State
  <1>5. CASE c.op = "set_active"
    <2>1. t = [s EXCEPT !.active = c.id]
      BY <1>5 DEF Talks!Changes
    <2> QED BY <1>1, <1>2, <1>5, <2>1 DEF Talks!State
  <1>6. CASE c.op = "clear"
    <2> DEFINE talks == [s.talks EXCEPT ![c.id] = NoText]
    <2>1. c.id \in DOMAIN s.talks /\ t = [s EXCEPT !.talks[c.id] = NoText]
      BY <1>6 DEF Talks!Changes
    <2>2. t.talks = talks /\ t.active = s.active
          /\ t = [talks |-> t.talks, active |-> t.active]
      BY <1>1, <2>1
    <2>3. talks \in Talks!Talks
      BY <1>1, <1>2, TalksFacts
    <2> QED BY <1>1, <1>2, <1>6, <2>1, <2>2, <2>3 DEF Talks!State
  <1>7. c.op # "read"
    BY DEF Talks!Changes
  <1> QED BY <1>2, <1>3, <1>4, <1>5, <1>6, <1>7

-----------------------------------------------------------------------------
(* What the steps have in common.                                          *)

\* FileFollowsCommands of a file.
Follows(f) ==
  \A id \in Conversations :
    /\ promised[id] # {} =>
         /\ f # Absent /\ f.valid
         /\ id \in DOMAIN f.state.talks
         /\ f.state.talks[id] \in promised[id]
    /\ id \in deleted /\ f # Absent /\ f.valid =>
         id \notin DOMAIN f.state.talks

LEMMA FollowsFacts ==
  /\ Talks!FileFollowsCommands <=> Follows(Talks!Effective)
  /\ \A f : f # Absent /\ f.valid => (Follows(f) <=> Keeps(f.state))
  BY DEF Talks!FileFollowsCommands, Follows, Keeps

\* A change keeps of what is loaded what is promised.
LEMMA ChangeKeeps ==
  ASSUME Talks!Assumptions, TalksInv, command # Absent, NEW s \in Talks!State, Keeps(s),
         NEW t \in Talks!Changes(command, s)
  PROVE  /\ t \in Talks!State /\ Keeps(t)
         /\ command.op \in {"save", "clear"} => command.id \in DOMAIN t.talks
         /\ command.op = "save" => t.talks[command.id] = command.text
         /\ command.op = "clear" => t.talks[command.id] = NoText
         /\ command.op = "delete" /\ command.id # Default =>
              command.id \notin DOMAIN t.talks
  <1>1. command \in Talks!Commands
    BY DEF TalksInv, TalksTypeOK
  <1>2. /\ t \in Talks!State
        /\ \A i \in DOMAIN s.talks :
             i # command.id \/ command.op = "set_active" =>
               i \in DOMAIN t.talks /\ t.talks[i] = s.talks[i]
        /\ \A i \in DOMAIN t.talks :
             \/ i \in DOMAIN s.talks \/ i = Default
             \/ command.op = "save" /\ i = command.id
        /\ command.op \in {"save", "clear"} => command.id \in DOMAIN t.talks
        /\ command.op = "save" => t.talks[command.id] = command.text
        /\ command.op = "clear" => t.talks[command.id] = NoText
        /\ command.op = "delete" /\ command.id # Default =>
             command.id \notin DOMAIN t.talks
    BY <1>1, ChangeFacts
  <1>3. command.op \in {"save", "delete", "set_active", "clear"}
    <2>1. command.op # "read"
      BY DEF Talks!Changes
    <2> QED BY <1>1, <2>1, CommandFacts
  <1>4. ASSUME NEW id \in Conversations, promised[id] # {}
        PROVE  id \in DOMAIN t.talks /\ t.talks[id] \in promised[id]
    <2>1. id \in DOMAIN s.talks /\ s.talks[id] \in promised[id]
      BY <1>4 DEF Keeps
    <2>2. CASE id # command.id \/ command.op = "set_active"
      BY <1>2, <2>1, <2>2
    <2>3. CASE id = command.id /\ command.op # "set_active"
      BY <1>2, <1>3, <1>4, <2>3 DEF TalksInv, Widened
    <2> QED BY <2>2, <2>3
  <1>5. ASSUME NEW id \in deleted, id \in DOMAIN t.talks PROVE FALSE
    <2>1. id \in Conversations /\ id # Default
      BY DEF TalksInv, TalksTypeOK, DeletedFromFile
    <2>2. id \notin DOMAIN s.talks
      BY <2>1 DEF Keeps
    <2> QED BY <1>2, <1>5, <2>1, <2>2 DEF TalksInv, Widened
  <1> QED BY <1>2, <1>4, <1>5 DEF Keeps

\* Nothing is promised and nothing was deleted: any state will do.
LEMMA NothingToKeep ==
  ASSUME promised = Talks!NoPromises, deleted = {}
  PROVE  /\ \A s : Keeps(s)
         /\ \A f : Follows(f)
  BY DEF Keeps, Follows, Talks!NoPromises

\* A file that cannot be decoded promises nothing.
LEMMA NoFileNoPromise ==
  ASSUME TalksInv, NEW f, Follows(f), f = Absent \/ ~f.valid
  PROVE  \A id \in Conversations : promised[id] = {}
  BY DEF Follows

-----------------------------------------------------------------------------
(* The steps.                                                              *)

LEMMA BeginStep ==
  ASSUME Talks!Assumptions, TalksInv, NEW c \in Talks!Commands, Talks!Begin(c)
  PROVE  TalksInv'
  <1>1. /\ command = Absent /\ command' = c /\ step' = "load" /\ c # Absent
        /\ step = "idle" /\ ~migrates
        /\ UNCHANGED <<v2, v1, v2aside, v1aside, draft, loaded, migrates, first>>
    BY CommandFacts DEF Talks!Begin, TalksInv, Course, Talks!files, Saving, TalksTypeOK
  <1>2. /\ c.op \in {"save", "delete", "set_active", "clear", "read"}
        /\ c.op # "read" => c.id \in Conversations
        /\ c.op = "save" => c.text \in Texts
        /\ NoText \in Texts
    BY CommandFacts DEF Talks!Assumptions
  <1>3. /\ promised' \in [Conversations -> SUBSET Texts]
        /\ \A id \in Conversations : promised'[id] # {} =>
             promised[id] # {} /\ promised[id] \subseteq promised'[id]
        /\ c.op = "save" /\ promised'[c.id] # {} => c.text \in promised'[c.id]
        /\ c.op = "clear" /\ promised'[c.id] # {} => NoText \in promised'[c.id]
        /\ c.op = "delete" => promised'[c.id] = {}
    <2>1. promised \in [Conversations -> SUBSET Texts] /\ promised' = Talks!Widen(c)
      BY DEF TalksInv, TalksTypeOK, Talks!Begin
    <2>2. CASE c.op = "save"
      BY <1>2, <2>1, <2>2 DEF Talks!Widen
    <2>3. CASE c.op = "clear"
      BY <1>2, <2>1, <2>3 DEF Talks!Widen
    <2>4. CASE c.op = "delete"
      BY <1>2, <2>1, <2>4 DEF Talks!Widen
    <2>5. CASE c.op \in {"set_active", "read"}
      BY <2>1, <2>5 DEF Talks!Widen
    <2> QED BY <1>2, <2>2, <2>3, <2>4, <2>5
  <1>4. /\ deleted' \subseteq deleted
        /\ c.op = "save" => c.id \notin deleted'
    BY DEF Talks!Begin
  <1>5. TalksTypeOK'
    BY <1>1, <1>3, <1>4 DEF TalksInv, TalksTypeOK
  <1>6. Talks!Effective' = Talks!Effective
    BY <1>1 DEF Talks!Effective
  <1>7. Follows(Talks!Effective)'
    <2>1. Follows(Talks!Effective)
      BY FollowsFacts DEF TalksInv
    <2> DEFINE f == Talks!Effective
    <2> HIDE DEF f
    <2>2. Follows(f) /\ f' = f
      BY <1>6, <2>1 DEF f
    <2> SUFFICES Follows(f)'
      BY DEF f
    <2> QED BY <1>3, <1>4, <2>2 DEF Follows
  <1>8. Talks!FileFollowsCommands'
    BY <1>7, FollowsFacts, PTL
  <1>9. Course' /\ LoadedKeeps' /\ TalksApplied'
    BY <1>1 DEF TalksInv, Course, LoadedKeeps, TalksApplied, Saving
  <1>10. DeletedFromFile' /\ Widened'
    BY <1>1, <1>3, <1>4 DEF TalksInv, DeletedFromFile, Widened
  <1> QED BY <1>5, <1>8, <1>9, <1>10 DEF TalksInv

\* FileFollowsCommands after a step that leaves what is promised.
LEMMA FollowsNext ==
  ASSUME UNCHANGED <<promised, deleted>>, NEW f, Follows(f), Talks!Effective' = f
  PROVE  Talks!FileFollowsCommands'
  <1>1. Follows(f)'
    BY DEF Follows
  <1>2. Follows(Talks!Effective)'
    BY <1>1 DEF Follows
  <1> QED BY <1>2, FollowsFacts, PTL

LEMMA KeepsNext ==
  ASSUME UNCHANGED <<promised, deleted>>, NEW s, Keeps(s)
  PROVE  \A t : t = s => Keeps(t)'
  BY DEF Keeps

LEMMA LoadCurrentStep ==
  ASSUME Talks!Assumptions, TalksInv, Talks!LoadCurrent
  PROVE  TalksInv'
  <1>1. /\ step = "load" /\ step' = "apply" /\ v2 # Absent /\ ~migrates
        /\ UNCHANGED <<v1, v1aside, draft, command, migrates, promised, deleted, first>>
        /\ command # Absent
    BY DEF Talks!LoadCurrent, Talks!Continue, Talks!files, Talks!history, TalksInv, Course,
           Saving
  <1>2. v2 \in [state : Talks!State, valid : BOOLEAN]
    BY <1>1 DEF TalksInv, TalksTypeOK, File0
  <1>3. Follows(v2)
    BY <1>1, FollowsFacts DEF TalksInv, Talks!Effective
  <1>4. CASE v2.valid
    <2>1. loaded' = v2.state /\ v2' = v2 /\ v2aside' = v2aside
      BY <1>4 DEF Talks!LoadCurrent, Talks!Continue, Talks!files
    <2>2. Keeps(v2.state)
      BY <1>1, <1>3, <1>4, FollowsFacts
    <2>3. TalksTypeOK'
      BY <1>1, <1>2, <2>1 DEF TalksInv, TalksTypeOK
    <2>4. Talks!FileFollowsCommands'
      BY <1>1, <1>3, <2>1, FollowsNext DEF Talks!Effective
    <2>5. LoadedKeeps'
      BY <1>1, <2>1, <2>2, KeepsNext DEF LoadedKeeps
    <2>6. Course' /\ DeletedFromFile' /\ Widened' /\ TalksApplied'
      BY <1>1, <2>1 DEF TalksInv, Course, DeletedFromFile, Widened, TalksApplied, Saving
    <2> QED BY <2>3, <2>4, <2>5, <2>6 DEF TalksInv
  <1>5. CASE ~v2.valid
    <2>1. /\ loaded' = Talks!Empty /\ v2' \in {v2, Absent} /\ v2aside' \in {v2, v2aside}
      BY <1>5 DEF Talks!LoadCurrent, Talks!Continue
    <2>2. deleted = {}
      BY <1>1, <1>5 DEF TalksInv, DeletedFromFile
    <2>3. promised = Talks!NoPromises
      <3>1. \A id \in Conversations : promised[id] = {}
        BY <1>3, <1>5, NoFileNoPromise
      <3> QED BY <3>1 DEF TalksInv, TalksTypeOK, Talks!NoPromises
    <2>4. Talks!FileFollowsCommands' /\ LoadedKeeps'
      <3>1. promised' = Talks!NoPromises /\ deleted' = {}
        BY <1>1, <2>2, <2>3 DEF Talks!NoPromises
      <3> QED BY <3>1 DEF Talks!FileFollowsCommands, LoadedKeeps, Keeps, Talks!NoPromises
    <2>5. TalksTypeOK'
      BY <1>1, <2>1, EmptyFacts DEF TalksInv, TalksTypeOK, File0
    <2>6. Course' /\ DeletedFromFile' /\ Widened' /\ TalksApplied'
      BY <1>1, <2>2 DEF TalksInv, Course, DeletedFromFile, Widened, TalksApplied, Saving
    <2> QED BY <2>4, <2>5, <2>6 DEF TalksInv
  <1> QED BY <1>4, <1>5

LEMMA LoadLegacyStep ==
  ASSUME Talks!Assumptions, TalksInv, Talks!LoadLegacy
  PROVE  TalksInv'
  <1>1. /\ step = "load" /\ v2 = Absent /\ v2' = Absent /\ ~migrates
        /\ UNCHANGED <<v2aside, draft, command, promised, deleted, first>>
        /\ command # Absent
    BY DEF Talks!LoadLegacy, Talks!Continue, Talks!files, Talks!history, TalksInv, Course,
           Saving
  <1>2. Follows(v1) /\ Talks!Effective = v1
    BY <1>1, FollowsFacts DEF TalksInv, Talks!Effective
  <1>3. deleted = {}
    BY <1>1 DEF TalksInv, DeletedFromFile
  <1>4. CASE v1 # Absent /\ v1.valid
    <2>1. /\ loaded' \in Talks!Migrated(v1.state) /\ step' = "create" /\ migrates'
          /\ UNCHANGED <<v1, v1aside>>
      BY <1>4 DEF Talks!LoadLegacy, Talks!files
    <2>2. v1.state \in Talks!State
      BY <1>4 DEF TalksInv, TalksTypeOK, File0
    <2>3. loaded' \in Talks!State /\ loaded'.talks = v1.state.talks
      <3>1. CASE v1.state.talks = <<>>
        BY <2>1, <3>1, EmptyFacts DEF Talks!Migrated
      <3>2. CASE v1.state.talks # <<>>
        <4>1. PICK id \in DOMAIN v1.state.talks :
                loaded' = [v1.state EXCEPT !.active = id]
          BY <2>1, <3>2 DEF Talks!Migrated
        <4> QED BY <2>2, <4>1, TalksFacts DEF Talks!State
      <3> QED BY <3>1, <3>2
    <2>4. TalksTypeOK'
      BY <1>1, <2>1, <2>3 DEF TalksInv, TalksTypeOK, Saving
    <2>5. Talks!FileFollowsCommands'
      BY <1>1, <1>2, <2>1, FollowsNext DEF Talks!Effective
    <2>6. Course' /\ LoadedKeeps' /\ DeletedFromFile' /\ Widened' /\ TalksApplied'
      BY <1>1, <1>3, <1>4, <2>1, <2>3
         DEF TalksInv, Course, LoadedKeeps, DeletedFromFile, Widened, TalksApplied, Saving
    <2> QED BY <2>4, <2>5, <2>6 DEF TalksInv
  <1>5. CASE v1 = Absent \/ ~v1.valid
    <2>1. /\ loaded' = Talks!Empty /\ step' = "apply" /\ migrates' = migrates
          /\ v1' \in {v1, Absent} /\ v1aside' \in {v1, v1aside}
      BY <1>5 DEF Talks!LoadLegacy, Talks!Continue
    <2>2. promised = Talks!NoPromises
      <3>1. \A id \in Conversations : promised[id] = {}
        BY <1>2, <1>5, NoFileNoPromise
      <3> QED BY <3>1 DEF TalksInv, TalksTypeOK, Talks!NoPromises
    <2>3. Talks!FileFollowsCommands' /\ LoadedKeeps'
      <3>1. promised' = Talks!NoPromises /\ deleted' = {}
        BY <1>1, <1>3, <2>2 DEF Talks!NoPromises
      <3> QED BY <3>1 DEF Talks!FileFollowsCommands, LoadedKeeps, Keeps, Talks!NoPromises
    <2>4. TalksTypeOK'
      BY <1>1, <2>1, EmptyFacts DEF TalksInv, TalksTypeOK, File0
    <2>5. Course' /\ DeletedFromFile' /\ Widened' /\ TalksApplied'
      BY <1>1, <1>3, <2>1 DEF TalksInv, Course, DeletedFromFile, Widened, TalksApplied,
                              Saving
    <2> QED BY <2>3, <2>4, <2>5 DEF TalksInv
  <1> QED BY <1>4, <1>5

LEMMA ApplyStep ==
  ASSUME Talks!Assumptions, TalksInv, Talks!Apply
  PROVE  TalksInv'
  <1>1. /\ step = "apply" /\ command # Absent /\ ~migrates /\ Keeps(loaded)
        /\ UNCHANGED <<v2, v1, v2aside, v1aside, draft>>
        /\ loaded \in Talks!State /\ command \in Talks!Commands
    BY DEF Talks!Apply, Talks!files, TalksInv, TalksTypeOK, Course, LoadedKeeps, Saving
  <1>2. Follows(Talks!Effective)
    BY FollowsFacts DEF TalksInv
  <1>3. deleted # {} => v2 # Absent /\ v2.valid
    BY <1>1 DEF TalksInv, DeletedFromFile
  <1>4. CASE Talks!Changes(command, loaded) # {}
    <2>1. /\ loaded' \in Talks!Changes(command, loaded) /\ step' = "create"
          /\ UNCHANGED <<command, migrates, promised, deleted, first>>
      BY <1>4 DEF Talks!Apply, Talks!history
    <2>2. Talks!Effective' = Talks!Effective
      BY <1>1, <2>1 DEF Talks!Effective
    <2>3. Talks!FileFollowsCommands'
      BY <1>2, <2>1, <2>2, FollowsNext
    <2>4. PICK t \in Talks!Changes(command, loaded) : t = loaded'
      BY <2>1
    <2>5. /\ t \in Talks!State /\ Keeps(t)
          /\ command.op \in {"save", "clear"} => command.id \in DOMAIN t.talks
          /\ command.op = "save" => t.talks[command.id] = command.text
          /\ command.op = "clear" => t.talks[command.id] = NoText
          /\ command.op = "delete" /\ command.id # Default =>
               command.id \notin DOMAIN t.talks
      BY <1>1, ChangeKeeps
    <2>6. LoadedKeeps' /\ TalksApplied'
      BY <2>1, <2>4, <2>5, KeepsNext DEF LoadedKeeps, TalksApplied
    <2>7. TalksTypeOK'
      BY <1>1, <2>1, <2>4, <2>5 DEF TalksInv, TalksTypeOK, Saving
    <2>8. Course' /\ DeletedFromFile' /\ Widened'
      BY <1>1, <1>3, <2>1 DEF TalksInv, Course, DeletedFromFile, Widened
    <2> QED BY <2>3, <2>6, <2>7, <2>8 DEF TalksInv
  <1>5. CASE Talks!Changes(command, loaded) = {}
    <2>1. Talks!Fulfil
      BY <1>5 DEF Talks!Apply
    <2>2. command.op # "save"
      BY <1>5 DEF Talks!Changes
    <2>3. ~(command.op = "clear" /\ promised[command.id] # {})
      <3> SUFFICES ASSUME command.op = "clear", promised[command.id] # {}
                   PROVE  FALSE
        OBVIOUS
      <3>1. command.id \in Conversations
        BY <1>1, CommandFacts
      <3>2. command.id \in DOMAIN loaded.talks
        BY <1>1, <3>1 DEF Keeps
      <3> QED BY <1>5, <3>2 DEF Talks!Changes
    <2>4. UNCHANGED <<promised, deleted, first>>
      BY <1>1, <2>1, <2>2, <2>3 DEF Talks!Fulfil
    <2>5. /\ command' = Absent /\ step' = "idle" /\ loaded' = Talks!Empty
          /\ migrates' = FALSE
      BY <2>1 DEF Talks!Fulfil, Talks!Idle
    <2>6. Talks!Effective' = Talks!Effective
      BY <1>1, <2>5 DEF Talks!Effective
    <2>7. Talks!FileFollowsCommands'
      BY <1>2, <2>4, <2>6, FollowsNext
    <2>8. TalksTypeOK'
      BY <1>1, <2>4, <2>5, EmptyFacts DEF TalksInv, TalksTypeOK
    <2>9. Course' /\ LoadedKeeps' /\ DeletedFromFile' /\ Widened' /\ TalksApplied'
      BY <1>1, <1>3, <2>4, <2>5
         DEF TalksInv, Course, LoadedKeeps, DeletedFromFile, Widened, TalksApplied, Saving
    <2> QED BY <2>7, <2>8, <2>9 DEF TalksInv
  <1> QED BY <1>4, <1>5

\* The steps of a save up to the removal of the old file.
LEMMA DraftStep ==
  ASSUME Talks!Assumptions, TalksInv, Talks!Create \/ Talks!Write
  PROVE  TalksInv'
  <1>1. /\ step \in {"create", "write"} /\ step' \in {"write", "remove"}
        /\ step' = "remove" => draft' = Talks!File(loaded, TRUE)
        /\ UNCHANGED <<v2, v1, v2aside, v1aside, command, loaded, migrates,
                      promised, deleted, first>>
        /\ command # Absent
    BY DEF Talks!Create, Talks!Write, Talks!history, TalksInv, Course
  <1>2. draft' \in File0
    BY FileFacts, EmptyFacts DEF Talks!Create, Talks!Write, TalksInv, TalksTypeOK
  <1>3. TalksTypeOK'
    BY <1>1, <1>2 DEF TalksInv, TalksTypeOK, Saving
  <1>4. Talks!Effective' = Talks!Effective
    BY <1>1 DEF Talks!Effective
  <1>5. Talks!FileFollowsCommands'
    BY <1>1, <1>4, FollowsFacts, FollowsNext DEF TalksInv
  <1>6. Course'
    <2>1. Talks!File(loaded, TRUE)' = Talks!File(loaded, TRUE)
      BY <1>1 DEF Talks!File
    <2> QED BY <1>1, <2>1 DEF TalksInv, Course, Saving
  <1>7. LoadedKeeps'
    BY <1>1, KeepsNext DEF TalksInv, LoadedKeeps, Saving
  <1>8. DeletedFromFile' /\ Widened' /\ TalksApplied'
    BY <1>1 DEF TalksInv, DeletedFromFile, Widened, TalksApplied, Saving
  <1> QED BY <1>3, <1>5, <1>6, <1>7, <1>8 DEF TalksInv

\* Without the old file the draft counts, or still the legacy file.
LEMMA RemoveStep ==
  ASSUME Talks!Assumptions, TalksInv, Talks!Remove
  PROVE  TalksInv'
  <1>1. /\ step = "remove" /\ step' = "rename" /\ v2' = Absent
        /\ draft = Talks!File(loaded, TRUE) /\ loaded \in Talks!State
        /\ UNCHANGED <<v1, v2aside, v1aside, draft, command, loaded, migrates,
                      promised, deleted, first>>
        /\ command # Absent
    BY DEF Talks!Remove, Talks!history, TalksInv, TalksTypeOK, Course
  <1>2. TalksTypeOK'
    BY <1>1 DEF TalksInv, TalksTypeOK, File0, Saving
  <1>3. LoadedKeeps'
    BY <1>1, KeepsNext DEF TalksInv, LoadedKeeps, Saving
  <1>4. Course'
    <2>1. Talks!File(loaded, TRUE)' = Talks!File(loaded, TRUE)
      BY <1>1 DEF Talks!File
    <2> QED BY <1>1, <2>1 DEF TalksInv, Course, Saving
  <1>5. Talks!FileFollowsCommands'
    <2>1. CASE migrates
      <3>1. Talks!Effective' = Talks!Effective
        BY <1>1, <2>1 DEF Talks!Effective, TalksInv, Course
      <3> QED BY <1>1, <3>1, FollowsFacts, FollowsNext DEF TalksInv
    <2>2. CASE ~migrates
      <3>1. Talks!Effective' = draft
        BY <1>1, <2>2 DEF Talks!Effective
      <3>2. Keeps(loaded)
        BY <1>1, <2>2 DEF TalksInv, LoadedKeeps, Saving
      <3>3. Follows(draft)
        BY <1>1, <3>2, FileFacts, FollowsFacts
      <3> QED BY <1>1, <3>1, <3>3, FollowsNext
    <2> QED BY <2>1, <2>2
  <1>6. DeletedFromFile' /\ Widened' /\ TalksApplied'
    BY <1>1 DEF TalksInv, Course, DeletedFromFile, Widened, TalksApplied, Saving
  <1> QED BY <1>2, <1>3, <1>4, <1>5, <1>6 DEF TalksInv

\* The new file is in its place: a migrated one, or that of the command.
LEMMA RenameStep ==
  ASSUME Talks!Assumptions, TalksInv, Talks!Rename
  PROVE  TalksInv'
  <1>1. /\ step = "rename" /\ v2' = draft /\ draft' = Absent
        /\ draft = Talks!File(loaded, TRUE) /\ loaded \in Talks!State
        /\ UNCHANGED <<v1, v2aside, v1aside>>
        /\ command # Absent /\ command \in Talks!Commands
    BY DEF Talks!Rename, TalksInv, TalksTypeOK, Course
  <1>2. /\ draft # Absent /\ draft.valid /\ draft.state = loaded /\ draft \in File0
    BY <1>1, FileFacts
  <1>3. CASE migrates
    <2>1. /\ step' = "apply" /\ migrates' = FALSE
          /\ UNCHANGED <<command, loaded, promised, deleted, first>>
      BY <1>3 DEF Talks!Rename, Talks!history
    <2>2. Talks!Effective = v1 /\ v1 # Absent /\ v1.valid /\ loaded.talks = v1.state.talks
      BY <1>1, <1>3 DEF Talks!Effective, TalksInv, Course
    <2>3. Keeps(loaded)
      <3>1. Keeps(v1.state)
        BY <2>2, FollowsFacts DEF TalksInv
      <3> QED BY <2>2, <3>1 DEF Keeps
    <2>4. Talks!Effective' = draft
      BY <1>1, <1>2, <2>1 DEF Talks!Effective
    <2>5. Talks!FileFollowsCommands'
      BY <1>2, <2>1, <2>3, <2>4, FollowsFacts, FollowsNext
    <2>6. TalksTypeOK'
      BY <1>1, <1>2, <2>1 DEF TalksInv, TalksTypeOK, File0
    <2>7. LoadedKeeps'
      BY <2>1, <2>3, KeepsNext DEF LoadedKeeps
    <2>8. Course' /\ DeletedFromFile' /\ Widened' /\ TalksApplied'
      BY <1>1, <1>2, <2>1
         DEF TalksInv, Course, DeletedFromFile, Widened, TalksApplied, Saving
    <2> QED BY <2>5, <2>6, <2>7, <2>8 DEF TalksInv
  <1>4. CASE ~migrates
    <2>1. Talks!Fulfil
      BY <1>4 DEF Talks!Rename
    <2>2. /\ command' = Absent /\ step' = "idle" /\ loaded' = Talks!Empty
          /\ migrates' = FALSE /\ first' = first
      BY <2>1 DEF Talks!Fulfil, Talks!Idle
    <2>3. /\ Keeps(loaded)
          /\ command.op \in {"save", "clear"} => command.id \in DOMAIN loaded.talks
          /\ command.op = "save" => loaded.talks[command.id] = command.text
          /\ command.op = "clear" => loaded.talks[command.id] = NoText
          /\ command.op = "delete" /\ command.id # Default =>
               command.id \notin DOMAIN loaded.talks
      BY <1>1, <1>4 DEF TalksInv, LoadedKeeps, TalksApplied, Saving
    <2>4. /\ command.op # "read" => command.id \in Conversations
          /\ command.op = "save" => command.text \in Texts
          /\ NoText \in Texts
          /\ command.op \in {"save", "delete", "set_active", "clear", "read"}
      BY <1>1, CommandFacts DEF Talks!Assumptions
    <2>5. /\ promised' \in [Conversations -> SUBSET Texts]
          /\ \A id \in Conversations : promised'[id] # {} =>
               /\ id \in DOMAIN loaded.talks
               /\ loaded.talks[id] \in promised'[id]
      <3>1. promised \in [Conversations -> SUBSET Texts]
        BY DEF TalksInv, TalksTypeOK
      <3>2. CASE command.op = "save"
        <4>1. promised' = [promised EXCEPT ![command.id] = {command.text}]
          BY <2>1, <3>2 DEF Talks!Fulfil
        <4> QED BY <2>3, <2>4, <3>1, <3>2, <4>1 DEF Keeps
      <3>3. CASE command.op = "clear" /\ promised[command.id] # {}
        <4>1. promised' = [promised EXCEPT ![command.id] = {NoText}]
          BY <2>1, <3>3 DEF Talks!Fulfil
        <4> QED BY <2>3, <2>4, <3>1, <3>3, <4>1 DEF Keeps
      <3>4. CASE /\ command.op # "save"
                 /\ ~(command.op = "clear" /\ promised[command.id] # {})
        <4>1. promised' = promised
          BY <2>1, <3>4 DEF Talks!Fulfil
        <4> QED BY <2>3, <3>1, <4>1 DEF Keeps
      <3> QED BY <3>2, <3>3, <3>4
    <2>6. /\ deleted' \in SUBSET Conversations /\ Default \notin deleted'
          /\ \A id \in deleted' : id \notin DOMAIN loaded.talks
      <3>1. \A id \in deleted : id \in Conversations /\ id \notin DOMAIN loaded.talks
        BY <2>3 DEF Keeps, TalksInv, TalksTypeOK
      <3> QED BY <1>1, <2>1, <2>3, <2>4, <3>1
              DEF Talks!Fulfil, TalksInv, TalksTypeOK, DeletedFromFile
    <2>7. Talks!FileFollowsCommands'
      <3>1. Talks!Effective' = draft
        BY <1>1, <1>2, <2>2 DEF Talks!Effective
      <3> QED BY <1>2, <2>5, <2>6, <3>1 DEF Talks!FileFollowsCommands
    <2>8. TalksTypeOK'
      BY <1>1, <1>2, <2>2, <2>5, <2>6, EmptyFacts DEF TalksInv, TalksTypeOK, File0
    <2>9. Course' /\ LoadedKeeps' /\ DeletedFromFile' /\ Widened' /\ TalksApplied'
      BY <1>1, <1>2, <2>2, <2>6
         DEF Course, LoadedKeeps, DeletedFromFile, Widened, TalksApplied, Saving
    <2> QED BY <2>7, <2>8, <2>9 DEF TalksInv
  <1> QED BY <1>3, <1>4

\* A command that breaks off leaves the old file, unless it was removed.
LEMMA BrokenOffStep ==
  ASSUME Talks!Assumptions, TalksInv, Talks!BrokenOff, UNCHANGED <<v2, v1, v2aside, v1aside>>
  PROVE  TalksInv'
  <1>1. /\ command' = Absent /\ step' = "idle" /\ loaded' = Talks!Empty
        /\ migrates' = FALSE /\ first' = first /\ draft' = Absent
    BY DEF Talks!BrokenOff, Talks!Idle
  <1>2. CASE step = "rename" /\ ~migrates
    <2>1. promised' = Talks!NoPromises /\ deleted' = {}
      BY <1>2 DEF Talks!BrokenOff
    <2>2. TalksTypeOK'
      BY <1>1, <2>1, EmptyFacts DEF TalksInv, TalksTypeOK, Talks!NoPromises, File0
    <2>3. Talks!FileFollowsCommands'
      BY <2>1 DEF Talks!FileFollowsCommands, Talks!NoPromises
    <2>4. Course' /\ LoadedKeeps' /\ DeletedFromFile' /\ Widened' /\ TalksApplied'
      BY <1>1, <2>1
         DEF Course, LoadedKeeps, DeletedFromFile, Widened, TalksApplied, Saving
    <2> QED BY <2>2, <2>3, <2>4 DEF TalksInv
  <1>3. CASE ~(step = "rename" /\ ~migrates)
    <2>1. UNCHANGED <<promised, deleted>>
      BY <1>3 DEF Talks!BrokenOff
    <2>2. TalksTypeOK'
      BY <1>1, <2>1, EmptyFacts DEF TalksInv, TalksTypeOK, File0
    <2>3. Talks!Effective' = Talks!Effective
      BY <1>1, <1>3 DEF Talks!Effective
    <2>4. Talks!FileFollowsCommands'
      BY <2>1, <2>3, FollowsFacts, FollowsNext DEF TalksInv
    <2>5. Course' /\ LoadedKeeps' /\ DeletedFromFile' /\ Widened' /\ TalksApplied'
      BY <1>1, <1>3, <2>1
         DEF TalksInv, Course, LoadedKeeps, DeletedFromFile, Widened, TalksApplied, Saving
    <2> QED BY <2>2, <2>4, <2>5 DEF TalksInv
  <1> QED BY <1>2, <1>3

LEMMA DamageStep ==
  ASSUME Talks!Assumptions, TalksInv, Talks!Damage
  PROVE  TalksInv'
  <1>1. /\ command = Absent /\ step = "idle" /\ ~migrates
        /\ UNCHANGED <<v2aside, v1aside, draft, command, step, loaded, migrates>>
    BY DEF Talks!Damage, TalksInv, Course, Saving
  <1>2. v2' \in File0 /\ v1' \in File0 /\ first' \in File0
    <2>1. CASE /\ v2 # Absent /\ v2.valid /\ v2' = Talks!File(v2.state, FALSE)
               /\ first' = IF first = Absent THEN v2' ELSE first
               /\ UNCHANGED v1
      <3>1. v2.state \in Talks!State
        BY <2>1 DEF TalksInv, TalksTypeOK, File0
      <3>2. v2' \in File0
        BY <2>1, <3>1, FileFacts
      <3> QED BY <2>1, <3>2 DEF TalksInv, TalksTypeOK
    <2>2. CASE /\ v1 # Absent /\ v1.valid /\ v1' = Talks!File(v1.state, FALSE)
               /\ UNCHANGED <<v2, first>>
      <3>1. v1.state \in Talks!State
        BY <2>2 DEF TalksInv, TalksTypeOK, File0
      <3>2. v1' \in File0
        BY <2>2, <3>1, FileFacts
      <3> QED BY <2>2, <3>2 DEF TalksInv, TalksTypeOK
    <2> QED BY <2>1, <2>2 DEF Talks!Damage, TalksInv, TalksTypeOK
  <1>3. Course' /\ LoadedKeeps' /\ Widened' /\ TalksApplied'
    BY <1>1 DEF TalksInv, Course, LoadedKeeps, Widened, TalksApplied, Saving
  <1>4. CASE v2' = v2 /\ v2 # Absent
    <2>1. UNCHANGED <<promised, deleted>>
      BY <1>4 DEF Talks!Damage
    <2>2. Talks!Effective' = Talks!Effective
      BY <1>1, <1>4 DEF Talks!Effective
    <2>3. Talks!FileFollowsCommands'
      BY <2>1, <2>2, FollowsFacts, FollowsNext DEF TalksInv
    <2>4. TalksTypeOK' /\ DeletedFromFile'
      BY <1>1, <1>2, <1>4, <2>1 DEF TalksInv, TalksTypeOK, DeletedFromFile
    <2> QED BY <1>3, <2>3, <2>4 DEF TalksInv
  <1>5. CASE ~(v2' = v2 /\ v2 # Absent)
    <2>1. promised' = Talks!NoPromises /\ deleted' = {}
      BY <1>5 DEF Talks!Damage
    <2>2. Talks!FileFollowsCommands' /\ DeletedFromFile'
      BY <2>1 DEF Talks!FileFollowsCommands, DeletedFromFile, Talks!NoPromises
    <2>3. TalksTypeOK'
      BY <1>1, <1>2, <2>1 DEF TalksInv, TalksTypeOK, Talks!NoPromises
    <2> QED BY <1>3, <2>2, <2>3 DEF TalksInv
  <1> QED BY <1>4, <1>5

LEMMA InitStep ==
  ASSUME Talks!Assumptions, Talks!Init
  PROVE  TalksInv
  <1>1. /\ command = Absent /\ step = "idle" /\ migrates = FALSE /\ deleted = {}
        /\ v2aside = Absent /\ v1aside = Absent /\ draft = Absent /\ first = Absent
        /\ loaded = Talks!Empty
    BY DEF Talks!Init
  <1>2. ASSUME NEW s \in Talks!States
        PROVE  s \in Talks!State /\ [s EXCEPT !.active = Absent] \in Talks!State
    <2>1. PICK id \in Conversations, text \in Texts : s = Talks!Put(Talks!Empty, id, text)
      BY <1>2 DEF Talks!States
    <2> DEFINE c == [op |-> "save", id |-> id, text |-> text]
    <2>2. c \in Talks!Commands /\ Talks!Changes(c, Talks!Empty) = {s}
      BY <2>1 DEF Talks!Commands, Talks!Changes
    <2>3. s \in Talks!State
      BY <2>2, EmptyFacts, ChangeFacts
    <2> QED BY <2>3 DEF Talks!State
  <1>3. /\ v2 \in File0 /\ v1 \in File0
        /\ v2 # Absent => v2.valid
        /\ v1 # Absent => v1.valid
    <2>1. v2 = Absent \/ \E s \in Talks!State : v2 = Talks!File(s, TRUE)
      BY <1>2 DEF Talks!Init, Talks!Files
    <2>2. v1 = Absent \/ \E s \in Talks!State : v1 = Talks!File(s, TRUE)
      BY <1>2 DEF Talks!Init, Talks!LegacyFiles
    <2> QED BY <2>1, <2>2, FileFacts DEF File0
  <1>4. promised \in [Conversations -> SUBSET Texts] /\ Follows(IF v2 = Absent THEN v1 ELSE v2)
    <2> DEFINE f == IF v2 = Absent THEN v1 ELSE v2
    <2>1. /\ f \in File0 /\ promised = Talks!Promises(f)
          /\ f # Absent => f.valid
      BY <1>3 DEF Talks!Init
    <2> HIDE DEF f
    <2>2. f # Absent => f.state.talks \in [DOMAIN f.state.talks -> Texts]
      BY <2>1, TalksFacts DEF File0
    <2>3. promised \in [Conversations -> SUBSET Texts]
      BY <2>1, <2>2 DEF Talks!Promises
    <2>4. Follows(f)
      BY <1>1, <2>1 DEF Follows, Talks!Promises
    <2> QED BY <2>3, <2>4 DEF f
  <1>5. Talks!Effective = IF v2 = Absent THEN v1 ELSE v2
    BY <1>1 DEF Talks!Effective
  <1>6. Talks!FileFollowsCommands
    BY <1>4, <1>5, FollowsFacts
  <1>7. TalksTypeOK
    BY <1>1, <1>3, <1>4, EmptyFacts DEF TalksTypeOK, File0
  <1>8. Course /\ LoadedKeeps /\ DeletedFromFile /\ Widened /\ TalksApplied
    BY <1>1 DEF Course, LoadedKeeps, DeletedFromFile, Widened, TalksApplied, Saving
  <1> QED BY <1>6, <1>7, <1>8 DEF TalksInv

LEMMA NextStep ==
  ASSUME Talks!Assumptions, TalksInv, [Talks!Next]_(Talks!vars)
  PROVE  TalksInv'
  <1>1. ASSUME NEW c \in Talks!Commands, Talks!Begin(c) PROVE TalksInv'
    BY <1>1, BeginStep
  <1>2. CASE Talks!LoadCurrent \/ Talks!LoadLegacy \/ Talks!Apply
    BY <1>2, LoadCurrentStep, LoadLegacyStep, ApplyStep
  <1>3. CASE Talks!Create \/ Talks!Write \/ Talks!Remove \/ Talks!Rename
    BY <1>3, DraftStep, RemoveStep, RenameStep
  <1>4. CASE Talks!Fails \/ Talks!Crash
    BY <1>4, BrokenOffStep DEF Talks!Fails, Talks!Crash
  <1>5. CASE Talks!Damage
    BY <1>5, DamageStep
  <1>6. CASE UNCHANGED Talks!vars
    BY <1>6 DEF Talks!vars, Talks!files, Talks!history, TalksInv, TalksTypeOK, Course,
                Talks!FileFollowsCommands, Talks!Effective, LoadedKeeps, Keeps,
                DeletedFromFile, Widened, TalksApplied, Talks!File
  <1> QED BY <1>1, <1>2, <1>3, <1>4, <1>5, <1>6 DEF Talks!Next

-----------------------------------------------------------------------------
(* The theorems.                                                           *)

\* The invariant holds in every state of every behaviour.
THEOREM FileInvariance == Talks!Spec => []TalksInv
  <1>. Talks!Assumptions
    BY TalksAssumption
  <1>1. Talks!Init => TalksInv
    BY InitStep
  <1>2. TalksInv /\ [Talks!Next]_(Talks!vars) => TalksInv'
    BY NextStep
  <1> QED BY <1>1, <1>2, PTL DEF Talks!Spec

-----------------------------------------------------------------------------
(* The host.                                                               *)

\* A behaviour of the host is one of the core book and one of the conversation
\* file, of which one stutters.
THEOREM HostRunsBoth == HostSpec => Spec /\ Talks!Spec
  <1>1. HostInit => Init /\ Talks!Init
    <2>1. ASSUME NoFiles PROVE Talks!Init
      BY <2>1 DEF NoFiles, Talks!Init, Talks!Files, Talks!LegacyFiles, Talks!Promises,
                  Talks!NoPromises
    <2> QED BY <2>1 DEF HostInit
  <1>2. [HostNext]_hostVars => [Next]_vars /\ [Talks!Next]_(Talks!vars)
    <2>1. UNCHANGED fileVars => UNCHANGED Talks!vars
      BY DEF fileVars, Talks!vars, Talks!files, Talks!counts, Talks!history
    <2> QED BY <2>1 DEF HostNext, hostVars
  <1> QED BY <1>1, <1>2, PTL DEF HostSpec, Spec, Talks!Spec

\* What commands have confirmed is in the file, and what they have deleted is
\* not, whatever fails, is damaged or ends between two steps.
THEOREM FileFollowsCommandsHolds == HostSpec => []FileFollowsCommands
  <1>1. TalksInv => FileFollowsCommands
    BY DEF TalksInv, FileFollowsCommands
  <1> QED BY <1>1, FileInvariance, HostRunsBoth, TalksAssumption, PTL

\* The first file that was damaged is never overwritten: it is in its place, or
\* it has been set aside.
THEOREM FirstDamageKeptHolds == HostSpec => []FirstDamageKept
  <1>. Talks!Assumptions
    BY TalksAssumption
  <1>1. Talks!Init => TalksInv /\ DamageInv
    <2> SUFFICES ASSUME Talks!Init PROVE DamageInv
      BY InitStep
    <2>1. v2 # Absent => v2.valid
      BY DEF Talks!Init, Talks!Files, Talks!File
    <2> QED BY <2>1 DEF Talks!Init, DamageInv, Talks!FirstDamageKept
  <1>2. TalksInv /\ DamageInv /\ [Talks!Next]_(Talks!vars) => (TalksInv /\ DamageInv)'
    <2> SUFFICES ASSUME TalksInv, DamageInv, [Talks!Next]_(Talks!vars) PROVE DamageInv'
      BY NextStep
    <2>1. CASE Talks!LoadCurrent
      BY <2>1 DEF Talks!LoadCurrent, Talks!Continue, Talks!history, Talks!files, DamageInv,
                  Talks!FirstDamageKept
    <2>2. CASE Talks!LoadLegacy
      BY <2>2 DEF Talks!LoadLegacy, Talks!Continue, Talks!history, Talks!files, DamageInv,
                  Talks!FirstDamageKept
    <2>3. CASE Talks!Remove
      BY <2>3 DEF Talks!Remove, Talks!history, DamageInv, Talks!FirstDamageKept
    <2>4. CASE Talks!Rename
      <3>1. /\ v2 = Absent /\ v2' = draft /\ draft.valid
            /\ UNCHANGED <<v2aside, first>>
        BY <2>4, FileFacts DEF Talks!Rename, Talks!Fulfil, Talks!history, TalksInv, Course,
                               TalksTypeOK
      <3> QED BY <3>1 DEF DamageInv, Talks!FirstDamageKept
    <2>5. CASE Talks!Damage
      <3>1. CASE /\ v2 # Absent /\ v2.valid /\ v2' = Talks!File(v2.state, FALSE)
                 /\ first' = IF first = Absent THEN v2' ELSE first
        <4>1. v2.state \in Talks!State
          BY <3>1 DEF TalksInv, TalksTypeOK, File0
        <4>2. v2' # Absent /\ ~v2'.valid
          BY <3>1, <4>1, FileFacts
        <4>3. step' = "idle" /\ v2aside' = v2aside
          BY <2>5 DEF Talks!Damage, TalksInv, Course
        <4>4. first # Absent => first = v2aside
          BY <3>1 DEF DamageInv, Talks!FirstDamageKept
        <4> QED BY <3>1, <4>2, <4>3, <4>4 DEF DamageInv, Talks!FirstDamageKept
      <3>2. CASE UNCHANGED <<v2, first>>
        BY <2>5, <3>2 DEF Talks!Damage, DamageInv, Talks!FirstDamageKept
      <3> QED BY <2>5, <3>1, <3>2 DEF Talks!Damage
    <2>6. CASE \/ \E c \in Talks!Commands : Talks!Begin(c)
               \/ Talks!Apply \/ Talks!Create \/ Talks!Write \/ Talks!Fails \/ Talks!Crash
               \/ UNCHANGED Talks!vars
      <3>1. /\ UNCHANGED <<v2, v2aside, first>>
            /\ step' \in {"idle", "load", step} \/ step \in {"apply"} \cup Saving
        BY <2>6 DEF Talks!Begin, Talks!Apply, Talks!Create, Talks!Write, Talks!Fails,
                    Talks!Crash, Talks!BrokenOff, Talks!Fulfil,
                    Talks!Idle, Talks!vars, Talks!files, Talks!history, Saving
      <3>2. v2aside # Absent \/ v2 = Absent \/ v2.valid \/ step' \in {"idle", "load"}
        BY <2>6, <3>1
           DEF DamageInv, Saving, Talks!Begin, Talks!vars
      <3> QED BY <3>1, <3>2 DEF DamageInv, Talks!FirstDamageKept
    <2> QED BY <2>1, <2>2, <2>3, <2>4, <2>5, <2>6 DEF Talks!Next
  <1>3. DamageInv => FirstDamageKept
    BY DEF DamageInv, FirstDamageKept
  <1> QED BY <1>1, <1>2, <1>3, HostRunsBoth, PTL DEF Talks!Spec
=============================================================================
