---------------------------- MODULE MemoryProofs ----------------------------
(***************************************************************************)
(* Proofs about Memory for any memories, contents, policies and callers    *)
(* with any authority: the index mirrors the memory, a call changes no     *)
(* more than it may, and supersede replaces an active item by one that is  *)
(* new.  The invariant says what a call without company may rely on: that  *)
(* the store is as it has found it, and that the index is wrong only where *)
(* the call is still going to write it.                                    *)
(***************************************************************************)
EXTENDS Memory, SequenceTheorems, TLAPS

\* p has a call in progress, and no one else.
Only(p) == calls[p] # Nobody /\ \A q \in Callers \ {p} : calls[q] = Nobody

\* Who is said to have had no company has none, and the index is only said to
\* be current as long as that is so of every call.
Company ==
  /\ \A p \in alone : Only(p)
  /\ current => \A p \in Callers : calls[p] # Nobody => p \in alone

\* What a call is about to write is what its operation makes, and there is a
\* task for which a document has been read.
Prepared ==
  \A p \in Callers :
    /\ At(p, "save") =>
         /\ calls[p].op \in {"create", "update", "archive"}
         /\ calls[p].op = "archive" => ~calls[p].item.active
    /\ At(p, "supersede") => calls[p].op = "supersede" /\ calls[p].item.active
    /\ At(p, "upsert") => calls[p].todo # <<>>

\* What a call without company has found in the store is still there.
Intended ==
  \A p \in alone :
    /\ At(p, "save") =>
         /\ calls[p].state = [items EXCEPT ![calls[p].id] = calls[p].item]
         /\ IF calls[p].op = "create" THEN items[calls[p].id] = Nothing
            ELSE MayChange(p, calls[p].id)
    /\ At(p, "supersede") => MayChange(p, calls[p].id)

\* What is removed from the index is no longer active, and what is going to
\* be written is the item as it is.
Following ==
  \A p \in alone :
    /\ At(p, "index") \/ At(p, "upsert") =>
         \A i \in DOMAIN calls[p].todo :
           calls[p].todo[i].kind = "remove" =>
             Document(items[calls[p].todo[i].id]) = Nothing
    /\ At(p, "index") => calls[p].document = Nothing
    /\ At(p, "upsert") =>
         /\ calls[p].todo # <<>> /\ Task1(p).kind = "refresh"
         /\ calls[p].document = Document(items[Task1(p).id])

\* The identifiers the handler of p's event is still to deal with.
Due(p) ==
  IF At(p, "index") \/ At(p, "upsert")
  THEN {calls[p].todo[i].id : i \in DOMAIN calls[p].todo} ELSE {}

\* While it is current, the index is wrong only where it is going to be written.
Mirror ==
  current => \A id \in Ids :
    index[id] = Document(items[id]) \/ \E p \in Callers : id \in Due(p)

MemoryInv == TypeOK /\ Company /\ Prepared /\ Intended /\ Following /\ Mirror

-----------------------------------------------------------------------------
(* Calls and what they do not touch.                                       *)

LEMMA CallShape ==
  ASSUME TypeOK, NEW p \in Callers, calls[p] # Nobody
  PROVE  /\ calls[p].pc \in {"save", "supersede"} => calls[p] \in Writing
         /\ calls[p].pc \in {"index", "upsert"} => calls[p] \in Indexing
         /\ calls[p].pc \in {"save", "supersede", "index", "upsert"}
<1>1. calls[p] \in Writing \/ calls[p] \in Indexing
  BY DEF TypeOK, Call
<1>. QED BY <1>1 DEF Writing, Indexing

LEMMA WritingShape ==
  ASSUME NEW c \in Writing
  PROVE  /\ c \in Call /\ c # Nobody
         /\ c.op \in {"create", "update", "supersede", "archive"}
         /\ c.id \in Ids /\ c.new \in Ids /\ c.item \in Item /\ c.state \in Items
         /\ c.pc \in {"save", "supersede"}
BY NobodyAssumption DEF Writing, Call

LEMMA IndexingShape ==
  ASSUME NEW c \in Indexing
  PROVE  /\ c \in Call /\ c # Nobody
         /\ c.todo \in Seq(Task) /\ c.document \in Contents \cup {Nothing}
         /\ c.pc \in {"index", "upsert"}
         /\ c = [todo |-> c.todo, document |-> c.document, pc |-> c.pc]
BY NobodyAssumption DEF Indexing, Call

LEMMA NewIndexing ==
  ASSUME NEW todo \in Seq(Task), NEW document \in Contents \cup {Nothing},
         NEW pc \in {"index", "upsert"}
  PROVE  [todo |-> todo, document |-> document, pc |-> pc] \in Indexing
BY DEF Indexing

LEMMA ItemShape ==
  ASSUME TypeOK, NEW id \in Ids
  PROVE  /\ items[id] # Nothing => items[id] \in Item
         /\ items[id] \in Item => items[id].active \in BOOLEAN
BY DEF TypeOK, Items, Item

LEMMA DocumentType ==
  ASSUME NEW item \in Item \cup {Nothing}
  PROVE  Document(item) \in Contents \cup {Nothing}
BY DEF Document, Item

\* Where a call goes on, the others stay.
LEMMA OthersStay ==
  ASSUME TypeOK, NEW p \in Callers, NEW c \in Call \cup {Nobody},
         calls' = [calls EXCEPT ![p] = c]
  PROVE  /\ calls' \in [Callers -> Call \cup {Nobody}]
         /\ calls'[p] = c
         /\ \A q \in Callers \ {p} :
              /\ calls'[q] = calls[q]
              /\ \A pc : At(q, pc)' = At(q, pc)
              /\ Due(q)' = Due(q)
              /\ Task1(q)' = Task1(q)
<1>1. calls \in [Callers -> Call \cup {Nobody}]
  BY DEF TypeOK
<1>2. /\ calls' \in [Callers -> Call \cup {Nobody}] /\ calls'[p] = c
      /\ \A q \in Callers \ {p} : calls'[q] = calls[q]
  BY <1>1
<1>3. ASSUME NEW q \in Callers \ {p}
      PROVE  (\A pc : At(q, pc)' = At(q, pc)) /\ Due(q)' = Due(q) /\ Task1(q)' = Task1(q)
  <2>1. calls'[q] = calls[q]
    BY <1>2
  <2>2. (\A pc : At(q, pc)' = At(q, pc)) /\ Task1(q)' = Task1(q)
    BY <2>1 DEF At, Task1
  <2>. QED BY <2>1, <2>2 DEF Due
<1>. QED BY <1>2, <1>3

\* With p under way no other is without company.
LEMMA AloneOrNot ==
  ASSUME TypeOK, Company, NEW p \in Callers, calls[p] # Nobody
  PROVE  /\ alone \subseteq {p}
         /\ current => p \in alone /\ \A q \in Callers \ {p} : calls[q] = Nobody
BY DEF TypeOK, Company, Only

\* After a step of p that leaves it nothing to save the others are prepared as
\* before.
LEMMA PreparedStays ==
  ASSUME MemoryInv, NEW p \in Callers,
         \A q \in Callers \ {p} : calls'[q] = calls[q] /\ \A pc : At(q, pc)' = At(q, pc),
         ~At(p, "save")', ~At(p, "supersede")',
         At(p, "upsert")' => calls'[p].todo # <<>>
  PROVE  Prepared'
<1>. SUFFICES ASSUME NEW q \in Callers
     PROVE  /\ At(q, "save")' =>
                 /\ calls'[q].op \in {"create", "update", "archive"}
                 /\ calls'[q].op = "archive" => ~calls'[q].item.active
            /\ At(q, "supersede")' =>
                 calls'[q].op = "supersede" /\ calls'[q].item.active
            /\ At(q, "upsert")' => calls'[q].todo # <<>>
  BY DEF Prepared
<1>1. CASE q = p
  BY <1>1
<1>2. CASE q # p
  <2>1. calls'[q] = calls[q] /\ \A pc : At(q, pc)' = At(q, pc)
    BY <1>2
  <2>2. /\ At(q, "save") =>
             /\ calls[q].op \in {"create", "update", "archive"}
             /\ calls[q].op = "archive" => ~calls[q].item.active
        /\ At(q, "supersede") => calls[q].op = "supersede" /\ calls[q].item.active
        /\ At(q, "upsert") => calls[q].todo # <<>>
    BY DEF MemoryInv, Prepared
  <2>. QED BY <2>1, <2>2
<1>. QED BY <1>1, <1>2

\* Only what p has to say of itself matters when no other is without company.
LEMMA FollowingOf ==
  ASSUME NEW p \in Callers, alone' \subseteq {p},
         p \in alone' =>
           /\ At(p, "index")' \/ At(p, "upsert")' =>
                \A i \in DOMAIN calls'[p].todo :
                  calls'[p].todo[i].kind = "remove" =>
                    Document(items'[calls'[p].todo[i].id]) = Nothing
           /\ At(p, "index")' => calls'[p].document = Nothing
           /\ At(p, "upsert")' =>
                /\ calls'[p].todo # <<>> /\ Head(calls'[p].todo).kind = "refresh"
                /\ calls'[p].document = Document(items'[Head(calls'[p].todo).id])
  PROVE  Following'
<1>. SUFFICES ASSUME p \in alone'
     PROVE  /\ At(p, "index")' \/ At(p, "upsert")' =>
                 \A i \in DOMAIN calls'[p].todo :
                   calls'[p].todo[i].kind = "remove" =>
                     (Document(items[calls[p].todo[i].id]))' = Nothing
            /\ At(p, "index")' => calls'[p].document = Nothing
            /\ At(p, "upsert")' =>
                 /\ calls'[p].todo # <<>> /\ Task1(p)'.kind = "refresh"
                 /\ calls'[p].document = (Document(items[Task1(p).id]))'
  BY DEF Following
<1>. QED BY DEF Task1, Document

-----------------------------------------------------------------------------
(* A call begins.                                                          *)

LEMMA BeginKeeps ==
  ASSUME MemoryInv, NEW p \in Callers, NEW c \in Writing, Begin(p, c),
         c.pc = "save" =>
           /\ c.op \in {"create", "update", "archive"}
           /\ c.op = "archive" => ~c.item.active
           /\ c.state = [items EXCEPT ![c.id] = c.item]
           /\ IF c.op = "create" THEN items[c.id] = Nothing ELSE MayChange(p, c.id),
         c.pc = "supersede" =>
           c.op = "supersede" /\ c.item.active /\ MayChange(p, c.id)
  PROVE  MemoryInv'
<1>1. /\ calls[p] = Nobody /\ calls' = [calls EXCEPT ![p] = c]
      /\ alone' = IF Busy THEN {} ELSE {p}
      /\ current' = (current /\ ~Busy)
      /\ UNCHANGED <<items, index>>
  BY DEF Begin
<1>2. TypeOK
  BY DEF MemoryInv
<1>3. c \in Call \cup {Nobody} /\ c # Nobody /\ c.pc \in {"save", "supersede"}
  BY WritingShape
<1>4. /\ calls' \in [Callers -> Call \cup {Nobody}]
      /\ calls'[p] = c
      /\ \A q \in Callers \ {p} : calls'[q] = calls[q] /\ \A pc : At(q, pc)' = At(q, pc)
  BY <1>1, <1>2, <1>3, OthersStay
<1>5. \A pc : At(p, pc)' = (c.pc = pc)
  BY <1>3, <1>4 DEF At
<1>6. TypeOK'
  BY <1>1, <1>2, <1>4 DEF TypeOK
<1>7. Company'
  BY <1>1, <1>3, <1>4 DEF Company, Only, Busy
<1>8. Prepared'
  <2>. SUFFICES ASSUME NEW q \in Callers
       PROVE  /\ At(q, "save")' =>
                   /\ calls'[q].op \in {"create", "update", "archive"}
                   /\ calls'[q].op = "archive" => ~calls'[q].item.active
              /\ At(q, "supersede")' =>
                   calls'[q].op = "supersede" /\ calls'[q].item.active
              /\ At(q, "upsert")' => calls'[q].todo # <<>>
    BY DEF Prepared
  <2>1. CASE q = p
    BY <1>3, <1>4, <1>5, <2>1
  <2>2. CASE q # p
    BY <1>4, <2>2 DEF MemoryInv, Prepared
  <2>. QED BY <2>1, <2>2
<1>9. \A q \in alone' : q = p
  BY <1>1
<1>10. \A id : MayChange(p, id)' = MayChange(p, id)
  BY <1>1 DEF MayChange, IsActive
<1>11. Intended'
  <2>1. At(p, "save")' =>
          /\ calls'[p].state = [items' EXCEPT ![calls'[p].id] = calls'[p].item]
          /\ IF calls'[p].op = "create" THEN items'[calls'[p].id] = Nothing
             ELSE MayChange(p, calls'[p].id)
    <3>1. items' = items /\ calls'[p] = c
      BY <1>1, <1>4
    <3>. QED BY <1>5, <3>1
  <2>2. At(p, "supersede")' => MayChange(p, calls'[p].id)
    BY <1>4, <1>5
  <2>3. \A id : MayChange(p, id)' = MayChange(p, id)
    BY <1>10
  <2>. QED BY <1>9, <2>1, <2>2, <2>3 DEF Intended
<1>12. Following'
  BY <1>3, <1>5, <1>9 DEF Following
<1>13. Mirror'
  <2>. SUFFICES ASSUME current' PROVE \A id \in Ids : index[id] = Document(items[id])
    BY <1>1 DEF Mirror
  <2>1. current /\ ~Busy
    BY <1>1
  <2>2. \A q \in Callers : Due(q) = {}
    BY <2>1 DEF Busy, Due, At
  <2>. QED BY <2>1, <2>2 DEF MemoryInv, Mirror
<1>. QED BY <1>6, <1>7, <1>8, <1>11, <1>12, <1>13 DEF MemoryInv

LEMMA NewItemShape ==
  ASSUME NEW content \in Contents, NEW policy \in Policies
  PROVE  /\ NewItem(content, policy) \in Item
         /\ NewItem(content, policy).active = TRUE
BY DEF NewItem, Item

LEMMA BeginSaveKeeps ==
  ASSUME MemoryInv, NEW p \in Callers, NEW op \in {"create", "update", "archive"},
         NEW id \in Ids, NEW item \in Item, BeginSave(p, op, id, item),
         op = "archive" => ~item.active,
         IF op = "create" THEN items[id] = Nothing ELSE MayChange(p, id)
  PROVE  MemoryInv'
<1>. DEFINE state == [items EXCEPT ![id] = item]
            c == [op |-> op, id |-> id, new |-> id, item |-> item, state |-> state,
                  pc |-> "save"]
<1>1. state \in Items
  BY DEF MemoryInv, TypeOK, Items
<1>2. Begin(p, c)
  BY DEF BeginSave
<1>. HIDE DEF state
<1>3. c \in Writing
  BY <1>1 DEF Writing
<1>4. /\ c.pc = "save" /\ c.op = op /\ c.id = id /\ c.item = item /\ c.state = state
  OBVIOUS
<1>. HIDE DEF c
<1>5. c.state = [items EXCEPT ![c.id] = c.item]
  BY <1>4 DEF state
<1>. QED BY <1>2, <1>3, <1>4, <1>5, BeginKeeps

LEMMA CreateKeeps ==
  ASSUME MemoryInv, NEW p \in Callers, NEW id \in Ids, NEW content \in Contents,
         NEW policy \in Policies, Create(p, id, content, policy)
  PROVE  MemoryInv'
BY BeginSaveKeeps, NewItemShape DEF Create

LEMMA UpdateKeeps ==
  ASSUME MemoryInv, NEW p \in Callers, NEW id \in Ids, NEW content \in Contents,
         NEW policy \in Policies, Update(p, id, content, policy)
  PROVE  MemoryInv'
BY BeginSaveKeeps, NewItemShape DEF Update

LEMMA ArchiveKeeps ==
  ASSUME MemoryInv, NEW p \in Callers, NEW id \in Ids, Archive(p, id)
  PROVE  MemoryInv'
<1>1. items[id] \in Item
  BY ItemShape DEF Archive, MayChange, IsActive, MemoryInv
<1>. DEFINE item == [items[id] EXCEPT !.active = FALSE]
<1>2. item \in Item /\ ~item.active
  BY <1>1 DEF Item
<1>3. BeginSave(p, "archive", id, item) /\ MayChange(p, id)
  BY DEF Archive
<1>. HIDE DEF item
<1>. QED BY <1>2, <1>3, BeginSaveKeeps

LEMMA SupersedeKeeps ==
  ASSUME MemoryInv, NEW p \in Callers, NEW id \in Ids, NEW new \in Ids,
         NEW content \in Contents, NEW policy \in Policies,
         Supersede(p, id, new, content, policy)
  PROVE  MemoryInv'
<1>. DEFINE item == NewItem(content, policy)
            c == [op |-> "supersede", id |-> id, new |-> new, item |-> item,
                  state |-> NoItems, pc |-> "supersede"]
<1>1. Begin(p, c) /\ MayChange(p, id)
  BY DEF Supersede
<1>2. item \in Item /\ item.active
  BY NewItemShape
<1>. HIDE DEF item
<1>3. NoItems \in Items
  BY DEF NoItems, Items
<1>4. c \in Writing
  BY <1>2, <1>3 DEF Writing
<1>5. c.pc = "supersede" /\ c.op = "supersede" /\ c.item.active /\ c.id = id
  BY <1>2
<1>. HIDE DEF c
<1>. QED BY <1>1, <1>4, <1>5, BeginKeeps

-----------------------------------------------------------------------------
(* A call ends, or writes what it has prepared.                            *)

\* A call without tasks to do is over.
LEMMA EndKeeps ==
  ASSUME MemoryInv, NEW p \in Callers, End(p), calls[p] # Nobody, Due(p) = {},
         UNCHANGED <<items, index, current>>
  PROVE  MemoryInv'
<1>1. calls' = [calls EXCEPT ![p] = Nobody] /\ alone' = alone \ {p}
  BY DEF End
<1>2. TypeOK /\ Company
  BY DEF MemoryInv
<1>3. /\ calls' \in [Callers -> Call \cup {Nobody}]
      /\ calls'[p] = Nobody
      /\ \A q \in Callers \ {p} :
           /\ calls'[q] = calls[q]
           /\ \A pc : At(q, pc)' = At(q, pc)
           /\ Due(q)' = Due(q)
  BY <1>1, <1>2, OthersStay
<1>4. alone' = {} /\ \A pc : ~At(p, pc)'
  BY <1>1, <1>2, <1>3, AloneOrNot DEF At
<1>5. TypeOK'
  BY <1>2, <1>3, <1>4 DEF TypeOK
<1>6. current => \A q \in Callers \ {p} : calls[q] = Nobody
  BY <1>2, AloneOrNot
<1>7. Company'
  BY <1>3, <1>4, <1>6 DEF Company
<1>8. Prepared'
  <2>1. \A q \in Callers \ {p} :
          calls'[q] = calls[q] /\ \A pc : At(q, pc)' = At(q, pc)
    BY <1>3
  <2>2. /\ ~At(p, "save")' /\ ~At(p, "supersede")'
        /\ At(p, "upsert")' => calls'[p].todo # <<>>
    BY <1>4
  <2>. QED BY <2>1, <2>2, PreparedStays
<1>9. Intended' /\ Following'
  BY <1>4 DEF Intended, Following
<1>10. Mirror'
  BY <1>3 DEF MemoryInv, Mirror
<1>. QED BY <1>5, <1>7, <1>8, <1>9, <1>10 DEF MemoryInv

LEMMA FailKeeps ==
  ASSUME MemoryInv, NEW p \in Callers, Fail(p)
  PROVE  MemoryInv'
<1>1. Due(p) = {} /\ calls[p] # Nobody
  BY DEF Fail, Due, At
<1>. QED BY <1>1, EndKeeps DEF Fail

LEMMA ReturnKeeps ==
  ASSUME MemoryInv, NEW p \in Callers, Return(p)
  PROVE  MemoryInv'
<1>1. Due(p) = {} /\ calls[p] # Nobody
  BY DEF Return, Due, At
<1>. QED BY <1>1, EndKeeps DEF Return

\* The tasks of a call: what it has changed is refreshed or removed.
LEMMA TasksOf ==
  ASSUME NEW c \in Writing
  PROVE  /\ Tasks(c) \in Seq(Task)
         /\ c.op \in {"create", "update"} =>
              Tasks(c) = <<[kind |-> "refresh", id |-> c.id]>>
         /\ c.op = "supersede" =>
              Tasks(c) = <<[kind |-> "remove", id |-> c.id],
                           [kind |-> "refresh", id |-> c.new]>>
         /\ c.op = "archive" => Tasks(c) = <<[kind |-> "remove", id |-> c.id]>>
<1>1. /\ [kind |-> "refresh", id |-> c.id] \in Task
      /\ [kind |-> "remove", id |-> c.id] \in Task
      /\ [kind |-> "refresh", id |-> c.new] \in Task
  BY WritingShape DEF Task
<1>2. /\ c.op \in {"create", "update"} =>
           Tasks(c) = <<[kind |-> "refresh", id |-> c.id]>>
      /\ c.op = "supersede" =>
           Tasks(c) = <<[kind |-> "remove", id |-> c.id],
                        [kind |-> "refresh", id |-> c.new]>>
      /\ c.op = "archive" => Tasks(c) = <<[kind |-> "remove", id |-> c.id]>>
  BY DEF Tasks
<1>3. c.op \in {"create", "update"} \/ c.op = "supersede" \/ c.op = "archive"
  BY WritingShape
<1>4. \A x, y \in Task : <<x>> \in Seq(Task) /\ <<x, y>> \in Seq(Task)
  OBVIOUS
<1>5. Tasks(c) \in Seq(Task)
  <2>1. CASE c.op \in {"create", "update"}
    <3>1. Tasks(c) = <<[kind |-> "refresh", id |-> c.id]>>
      BY <1>2, <2>1
    <3>. QED BY <1>1, <1>4, <3>1
  <2>2. CASE c.op = "supersede"
    <3>1. Tasks(c) = <<[kind |-> "remove", id |-> c.id], [kind |-> "refresh", id |-> c.new]>>
      BY <1>2, <2>2
    <3>. QED BY <1>1, <1>4, <3>1
  <2>3. CASE c.op = "archive"
    <3>1. Tasks(c) = <<[kind |-> "remove", id |-> c.id]>>
      BY <1>2, <2>3
    <3>. QED BY <1>1, <1>4, <3>1
  <2>. QED BY <1>3, <2>1, <2>2, <2>3
<1>. QED BY <1>2, <1>5

\* The items have been written, and the event goes to its handler.
LEMMA AnnounceKeeps ==
  ASSUME MemoryInv, NEW p \in Callers, Announce(p), calls[p] \in Writing,
         items' \in Items, UNCHANGED <<index, alone, current>>,
         p \in alone =>
           /\ \A id \in Ids : items'[id] # items[id] =>
                \E i \in DOMAIN Tasks(calls[p]) : Tasks(calls[p])[i].id = id
           /\ \A i \in DOMAIN Tasks(calls[p]) :
                Tasks(calls[p])[i].kind = "remove" =>
                  Document(items'[Tasks(calls[p])[i].id]) = Nothing
  PROVE  MemoryInv'
<1>. DEFINE todo == Tasks(calls[p])
            c == [todo |-> todo, document |-> Nothing, pc |-> "index"]
<1>1. calls' = [calls EXCEPT ![p] = c]
  BY DEF Announce
<1>2. TypeOK /\ Company
  BY DEF MemoryInv
<1>3. calls[p] # Nobody /\ Due(p) = {}
  BY WritingShape DEF Due, At
<1>4. todo \in Seq(Task)
  BY TasksOf
<1>. HIDE DEF todo
<1>5. c \in Indexing /\ c.todo = todo /\ c.document = Nothing /\ c.pc = "index"
  BY <1>4, NewIndexing
<1>. HIDE DEF c
<1>6. c \in Call /\ c # Nobody
  BY <1>5, IndexingShape
<1>7. /\ calls' \in [Callers -> Call \cup {Nobody}]
      /\ calls'[p] = c
      /\ \A q \in Callers \ {p} :
           /\ calls'[q] = calls[q]
           /\ \A pc : At(q, pc)' = At(q, pc)
           /\ Due(q)' = Due(q)
  BY <1>1, <1>2, <1>6, OthersStay
<1>8. \A pc : At(p, pc)' = (pc = "index")
  BY <1>5, <1>6, <1>7 DEF At
<1>9. alone \subseteq {p} /\ (current => p \in alone)
  BY <1>2, <1>3, AloneOrNot
<1>10. TypeOK'
  BY <1>2, <1>7 DEF TypeOK
<1>11. Company'
  BY <1>2, <1>3, <1>6, <1>7, <1>9 DEF Company, Only
<1>12. Prepared'
  <2>1. \A q \in Callers \ {p} :
          calls'[q] = calls[q] /\ \A pc : At(q, pc)' = At(q, pc)
    BY <1>7
  <2>2. /\ ~At(p, "save")' /\ ~At(p, "supersede")'
        /\ At(p, "upsert")' => calls'[p].todo # <<>>
    BY <1>8
  <2>. QED BY <2>1, <2>2, PreparedStays
<1>13. Intended'
  BY <1>8, <1>9 DEF Intended
<1>14. Following'
  <2>1. alone' \subseteq {p}
    BY <1>9
  <2>2. p \in alone => \A i \in DOMAIN c.todo :
          c.todo[i].kind = "remove" => Document(items'[c.todo[i].id]) = Nothing
    BY <1>5 DEF todo
  <2>3. c.document = Nothing /\ ~At(p, "upsert")'
    BY <1>5, <1>8
  <2>. QED BY <1>7, <2>1, <2>2, <2>3, FollowingOf
<1>15. Mirror'
  <2>. SUFFICES ASSUME current, NEW id \in Ids, id \notin Due(p)'
       PROVE  index[id] = Document(items'[id])
    BY DEF Mirror, Document
  <2>1. Due(p)' = {todo[i].id : i \in DOMAIN todo}
    <3>1. At(p, "index")' /\ calls'[p].todo = todo
      BY <1>5, <1>7, <1>8
    <3>. QED BY <3>1 DEF Due
  <2>2. items'[id] = items[id]
    BY <1>9, <2>1 DEF todo
  <2>3. \A q \in Callers : Due(q) = {}
    <3>1. \A q \in Callers \ {p} : calls[q] = Nobody
      BY <1>2, <1>3, AloneOrNot
    <3>2. \A q \in Callers \ {p} : Due(q) = {}
      BY <3>1 DEF Due, At
    <3>. QED BY <1>3, <3>2
  <2>4. index[id] = Document(items[id])
    BY <2>3 DEF MemoryInv, Mirror
  <2>. QED BY <2>2, <2>4
<1>. QED BY <1>10, <1>11, <1>12, <1>13, <1>14, <1>15 DEF MemoryInv

LEMMA SaveStateKeeps ==
  ASSUME MemoryInv, NEW p \in Callers, SaveState(p)
  PROVE  MemoryInv'
<1>1. /\ At(p, "save") /\ items' = calls[p].state /\ Announce(p)
      /\ UNCHANGED <<index, alone, current>>
  BY DEF SaveState, Saved
<1>2. calls[p] \in Writing
  BY <1>1, CallShape DEF At, MemoryInv
<1>3. items' \in Items /\ calls[p].id \in Ids /\ calls[p].item \in Item
  BY <1>1, <1>2, WritingShape
<1>4. calls[p].op \in {"create", "update", "archive"}
  BY <1>1 DEF MemoryInv, Prepared
<1>5. ASSUME p \in alone
      PROVE  /\ \A id \in Ids \ {calls[p].id} : items'[id] = items[id]
             /\ items'[calls[p].id] = calls[p].item
  <2>1. items' = [items EXCEPT ![calls[p].id] = calls[p].item]
    BY <1>1, <1>5 DEF MemoryInv, Intended
  <2>2. items \in Items
    BY DEF MemoryInv, TypeOK
  <2>. QED BY <1>3, <2>1, <2>2 DEF Items
<1>6. ASSUME NEW kind, Tasks(calls[p]) = <<[kind |-> kind, id |-> calls[p].id]>>
      PROVE  /\ DOMAIN Tasks(calls[p]) = {1}
             /\ Tasks(calls[p])[1].kind = kind /\ Tasks(calls[p])[1].id = calls[p].id
  BY <1>6
<1>7. CASE calls[p].op \in {"create", "update"}
  <2>1. /\ DOMAIN Tasks(calls[p]) = {1}
        /\ Tasks(calls[p])[1].kind = "refresh" /\ Tasks(calls[p])[1].id = calls[p].id
    BY <1>2, <1>6, <1>7, TasksOf
  <2>. QED BY <1>1, <1>2, <1>3, <1>5, <2>1, AnnounceKeeps
<1>8. CASE calls[p].op = "archive"
  <2>1. /\ DOMAIN Tasks(calls[p]) = {1}
        /\ Tasks(calls[p])[1].kind = "remove" /\ Tasks(calls[p])[1].id = calls[p].id
    BY <1>2, <1>6, <1>8, TasksOf
  <2>2. ~calls[p].item.active
    BY <1>1, <1>8 DEF MemoryInv, Prepared
  <2>3. Document(calls[p].item) = Nothing
    BY <2>2 DEF Document
  <2>. QED BY <1>1, <1>2, <1>3, <1>5, <2>1, <2>3, AnnounceKeeps
<1>. QED BY <1>4, <1>7, <1>8

\* What supersede does to the items.
LEMMA Superseded ==
  ASSUME MemoryInv, NEW p \in Callers, SupersedeInStore(p), MayReplace(calls[p])
  PROVE  /\ calls[p] \in Writing
         /\ calls[p].id \in Ids /\ calls[p].new \in Ids
         /\ calls[p].op = "supersede"
         /\ items' \in Items
         /\ calls[p].new # calls[p].id
         /\ IsActive(items, calls[p].id) /\ items[calls[p].new] = Nothing
         /\ items'[calls[p].id] # Nothing /\ ~items'[calls[p].id].active
         /\ items'[calls[p].new] # Nothing /\ items'[calls[p].new].active
         /\ \A id \in Ids \ {calls[p].id, calls[p].new} : items'[id] = items[id]
<1>. DEFINE old == calls[p].id
            new == calls[p].new
<1>1. At(p, "supersede")
  BY DEF SupersedeInStore
<1>2. items' = [items EXCEPT ![old].active = FALSE, ![new] = calls[p].item]
  BY DEF SupersedeInStore
<1>3. calls[p] \in Writing
  BY <1>1, CallShape DEF At, MemoryInv
<1>4. old \in Ids /\ new \in Ids /\ calls[p].item \in Item
  BY <1>3, WritingShape
<1>5. calls[p].op = "supersede" /\ calls[p].item.active
  BY <1>1 DEF MemoryInv, Prepared
<1>6. IsActive(items, old) /\ items[new] = Nothing /\ new # old
  BY DEF MayReplace, IsActive
<1>. DEFINE item == calls[p].item
            gone == [items[old] EXCEPT !.active = FALSE]
<1>7. items[old] \in Item
  BY <1>4, <1>6, ItemShape DEF MemoryInv, IsActive
<1>8. gone \in Item /\ gone.active = FALSE
  BY <1>7 DEF Item
<1>. HIDE DEF old, new, item
<1>9. items \in [Ids -> Item \cup {Nothing}]
  BY DEF MemoryInv, TypeOK, Items
<1>10. /\ items' = [[items EXCEPT ![old] = gone] EXCEPT ![new] = item]
  BY <1>2, <1>4, <1>9 DEF old, new, item
<1>. HIDE DEF gone
<1>11. item \in Item /\ item.active
  BY <1>4, <1>5 DEF item
<1>12. items' \in [Ids -> Item \cup {Nothing}] /\ items'[old] = gone /\ items'[new] = item
       /\ \A id \in Ids \ {old, new} : items'[id] = items[id]
  BY <1>4, <1>6, <1>8, <1>9, <1>10, <1>11 DEF old, new
<1>. QED BY <1>3, <1>4, <1>5, <1>6, <1>8, <1>11, <1>12, NothingAssumption
         DEF old, new, Items

LEMMA SupersedeInStoreKeeps ==
  ASSUME MemoryInv, NEW p \in Callers, SupersedeInStore(p)
  PROVE  MemoryInv'
<1>1. At(p, "supersede") /\ UNCHANGED <<index, current>>
  BY DEF SupersedeInStore
<1>2. CASE ~MayReplace(calls[p])
  <2>1. End(p) /\ UNCHANGED items
    BY <1>2 DEF SupersedeInStore
  <2>2. Due(p) = {} /\ calls[p] # Nobody
    BY <1>1 DEF Due, At
  <2>. QED BY <1>1, <2>1, <2>2, EndKeeps
<1>3. CASE MayReplace(calls[p])
  <2>1. Announce(p) /\ UNCHANGED alone
    BY <1>3 DEF SupersedeInStore
  <2>2. /\ calls[p] \in Writing /\ items' \in Items /\ calls[p].op = "supersede"
        /\ items'[calls[p].id] # Nothing /\ ~items'[calls[p].id].active
        /\ \A id \in Ids \ {calls[p].id, calls[p].new} : items'[id] = items[id]
    BY <1>3, Superseded
  <2>. DEFINE first == [kind |-> "remove", id |-> calls[p].id]
              second == [kind |-> "refresh", id |-> calls[p].new]
  <2>3. Tasks(calls[p]) = <<first, second>>
    BY <2>2, TasksOf
  <2>4. /\ first.kind = "remove" /\ first.id = calls[p].id
        /\ second.kind = "refresh" /\ second.id = calls[p].new
    OBVIOUS
  <2>. HIDE DEF first, second
  <2>5. /\ DOMAIN Tasks(calls[p]) = {1, 2}
        /\ Tasks(calls[p])[1] = first /\ Tasks(calls[p])[2] = second
    BY <2>3
  <2>6. Document(items'[calls[p].id]) = Nothing
    BY <2>2 DEF Document
  <2>7. /\ \A id \in Ids : items'[id] # items[id] =>
             \E i \in DOMAIN Tasks(calls[p]) : Tasks(calls[p])[i].id = id
        /\ \A i \in DOMAIN Tasks(calls[p]) :
             Tasks(calls[p])[i].kind = "remove" =>
               Document(items'[Tasks(calls[p])[i].id]) = Nothing
    BY <2>2, <2>4, <2>5, <2>6
  <2>. QED BY <1>1, <2>1, <2>2, <2>7, AnnounceKeeps
<1>. QED BY <1>2, <1>3

-----------------------------------------------------------------------------
(* The indexer.                                                            *)

LEMMA TailTasks ==
  ASSUME NEW todo \in Seq(Task), todo # <<>>
  PROVE  /\ Tail(todo) \in Seq(Task)
         /\ Head(todo) = todo[1] /\ Head(todo) \in Task /\ 1 \in DOMAIN todo
         /\ \A i \in DOMAIN Tail(todo) :
              i + 1 \in DOMAIN todo /\ Tail(todo)[i] = todo[i + 1]
         /\ \A i \in DOMAIN todo \ {1} :
              i - 1 \in DOMAIN Tail(todo) /\ Tail(todo)[i - 1] = todo[i]
OBVIOUS

\* A step of a handler, which leaves the items alone.
LEMMA HandlerKeeps ==
  ASSUME MemoryInv, NEW p \in Callers, NEW c \in Indexing,
         At(p, "index") \/ At(p, "upsert"),
         calls' = [calls EXCEPT ![p] = c],
         UNCHANGED <<items, alone>>,
         index' \in [Ids -> Contents \cup {Nothing}],
         current' \in BOOLEAN, current' => current,
         c.pc = "upsert" => c.todo # <<>>,
         p \in alone =>
           /\ \A i \in DOMAIN c.todo :
                c.todo[i].kind = "remove" => Document(items[c.todo[i].id]) = Nothing
           /\ c.pc = "index" => c.document = Nothing
           /\ c.pc = "upsert" =>
                /\ Head(c.todo).kind = "refresh"
                /\ c.document = Document(items[Head(c.todo).id]),
         current' => \A id \in Ids :
           \/ index'[id] = Document(items[id])
           \/ \E i \in DOMAIN c.todo : c.todo[i].id = id
           \/ \E q \in Callers \ {p} : id \in Due(q)
  PROVE  MemoryInv'
<1>1. TypeOK /\ Company /\ calls[p] # Nobody
  BY DEF MemoryInv, At
<1>2. c \in Call /\ c # Nobody /\ c.pc \in {"index", "upsert"}
  BY IndexingShape
<1>3. /\ calls' \in [Callers -> Call \cup {Nobody}]
      /\ calls'[p] = c
      /\ \A q \in Callers \ {p} :
           /\ calls'[q] = calls[q]
           /\ \A pc : At(q, pc)' = At(q, pc)
           /\ Due(q)' = Due(q)
  BY <1>1, <1>2, OthersStay
<1>4. \A pc : At(p, pc)' = (c.pc = pc)
  BY <1>2, <1>3 DEF At
<1>5. alone \subseteq {p} /\ (current => p \in alone)
  BY <1>1, AloneOrNot
<1>6. TypeOK'
  BY <1>1, <1>3 DEF TypeOK
<1>7. Company'
  BY <1>1, <1>2, <1>3, <1>5 DEF Company, Only
<1>8. Prepared'
  <2>1. \A q \in Callers \ {p} :
          calls'[q] = calls[q] /\ \A pc : At(q, pc)' = At(q, pc)
    BY <1>3
  <2>2. /\ ~At(p, "save")' /\ ~At(p, "supersede")'
        /\ At(p, "upsert")' => calls'[p].todo # <<>>
    BY <1>2, <1>3, <1>4
  <2>. QED BY <2>1, <2>2, PreparedStays
<1>9. Intended'
  BY <1>2, <1>4, <1>5 DEF Intended
<1>10. Following'
  <2>1. alone' \subseteq {p} /\ items' = items
    BY <1>5
  <2>2. p \in alone =>
          /\ \A i \in DOMAIN calls'[p].todo :
               calls'[p].todo[i].kind = "remove" =>
                 Document(items[calls'[p].todo[i].id]) = Nothing
          /\ At(p, "index")' => calls'[p].document = Nothing
          /\ At(p, "upsert")' =>
               /\ calls'[p].todo # <<>> /\ Head(calls'[p].todo).kind = "refresh"
               /\ calls'[p].document = Document(items[Head(calls'[p].todo).id])
    BY <1>3, <1>4
  <2>. QED BY <2>1, <2>2, FollowingOf
<1>11. Due(p)' = {c.todo[i].id : i \in DOMAIN c.todo}
  <2>1. (At(p, "index")' \/ At(p, "upsert")') /\ calls'[p].todo = c.todo
    BY <1>2, <1>3, <1>4
  <2>. QED BY <2>1 DEF Due
<1>12. Mirror'
  <2>. SUFFICES ASSUME current', NEW id \in Ids,
                       \A q \in Callers : id \notin Due(q)'
       PROVE  index'[id] = Document(items[id])
    BY DEF Mirror, Document
  <2>. QED BY <1>3, <1>11
<1>. QED BY <1>6, <1>7, <1>8, <1>9, <1>10, <1>12 DEF MemoryInv

\* What the three steps of a handler make of its call.
LEMMA HandlerCalls ==
  ASSUME TypeOK, NEW p \in Callers, At(p, "index") \/ At(p, "upsert"), NEW document
  PROVE  /\ calls[p] \in Indexing
         /\ [calls EXCEPT ![p].pc = "upsert", ![p].document = document] =
              [calls EXCEPT ![p] = [todo |-> calls[p].todo, document |-> document,
                                    pc |-> "upsert"]]
         /\ [calls EXCEPT ![p].pc = "index", ![p].todo = Tail(@), ![p].document = Nothing] =
              [calls EXCEPT ![p] = [todo |-> Tail(calls[p].todo), document |-> Nothing,
                                    pc |-> "index"]]
         /\ [calls EXCEPT ![p].pc = "index", ![p].todo = <<>>, ![p].document = Nothing] =
              [calls EXCEPT ![p] = [todo |-> <<>>, document |-> Nothing, pc |-> "index"]]
<1>1. calls[p] \in Indexing
  BY CallShape DEF At
<1>2. calls[p] = [todo |-> calls[p].todo, document |-> calls[p].document, pc |-> calls[p].pc]
  BY <1>1, IndexingShape
<1>3. calls \in [Callers -> Call \cup {Nobody}]
  BY DEF TypeOK
<1>. DEFINE Triple(a, b, d) == [todo |-> a, document |-> b, pc |-> d]
<1>. HIDE DEF Triple
<1>5. calls[p] = Triple(calls[p].todo, calls[p].document, calls[p].pc)
  BY <1>2 DEF Triple
<1>6. PICK a, b, d : calls[p] = Triple(a, b, d) /\ calls[p].todo = a
  BY <1>5
<1>7. [calls EXCEPT ![p].pc = "upsert", ![p].document = document] =
        [calls EXCEPT ![p] = [[calls[p] EXCEPT !.pc = "upsert"] EXCEPT !.document = document]]
  BY <1>3
<1>8. ASSUME NEW todo
      PROVE  [calls EXCEPT ![p].pc = "index", ![p].todo = todo, ![p].document = Nothing] =
               [calls EXCEPT ![p] = [[[calls[p] EXCEPT !.pc = "index"] EXCEPT !.todo = todo]
                                       EXCEPT !.document = Nothing]]
  BY <1>3
<1>9. [calls EXCEPT ![p].pc = "upsert", ![p].document = document] =
        [calls EXCEPT ![p] = Triple(a, document, "upsert")]
  <2>1. [calls[p] EXCEPT !.pc = "upsert"] = Triple(a, b, "upsert")
    <3>1. [calls[p] EXCEPT !.pc = "upsert"] = [Triple(a, b, d) EXCEPT !.pc = "upsert"]
      BY <1>6
    <3>2. [Triple(a, b, d) EXCEPT !.pc = "upsert"] = Triple(a, b, "upsert")
      BY DEF Triple
    <3>. QED BY <3>1, <3>2
  <2>2. [Triple(a, b, "upsert") EXCEPT !.document = document] = Triple(a, document, "upsert")
    BY DEF Triple
  <2>. QED BY <1>7, <2>1, <2>2
<1>10. \A todo :
         [calls EXCEPT ![p].pc = "index", ![p].todo = todo, ![p].document = Nothing] =
           [calls EXCEPT ![p] = Triple(todo, Nothing, "index")]
  <2>. TAKE todo
  <2>1. [calls[p] EXCEPT !.pc = "index"] = Triple(a, b, "index")
    <3>1. [calls[p] EXCEPT !.pc = "index"] = [Triple(a, b, d) EXCEPT !.pc = "index"]
      BY <1>6
    <3>2. [Triple(a, b, d) EXCEPT !.pc = "index"] = Triple(a, b, "index")
      BY DEF Triple
    <3>. QED BY <3>1, <3>2
  <2>2. [Triple(a, b, "index") EXCEPT !.todo = todo] = Triple(todo, b, "index")
    BY DEF Triple
  <2>3. [Triple(todo, b, "index") EXCEPT !.document = Nothing] = Triple(todo, Nothing, "index")
    BY DEF Triple
  <2>. QED BY <1>8, <2>1, <2>2, <2>3
<1>11. [calls EXCEPT ![p].pc = "index", ![p].todo = Tail(@), ![p].document = Nothing] =
         [calls EXCEPT ![p].pc = "index", ![p].todo = Tail(a), ![p].document = Nothing]
  <2>1. [calls EXCEPT ![p].pc = "index"][p] = Triple(a, b, "index")
    <3>1. [calls EXCEPT ![p].pc = "index"][p] = [calls[p] EXCEPT !.pc = "index"]
      BY <1>3
    <3>2. [Triple(a, b, d) EXCEPT !.pc = "index"] = Triple(a, b, "index")
      BY DEF Triple
    <3>. QED BY <1>6, <3>1, <3>2
  <2>2. Triple(a, b, "index").todo = a
    BY DEF Triple
  <2>3. [calls EXCEPT ![p].pc = "index"][p].todo = a
    BY <2>1, <2>2
  <2>. QED BY <1>3, <2>3
<1>. QED BY <1>1, <1>6, <1>9, <1>10, <1>11 DEF Triple

LEMMA ReadItemKeeps ==
  ASSUME MemoryInv, NEW p \in Callers, ReadItem(p)
  PROVE  MemoryInv'
<1>. DEFINE todo == calls[p].todo
            document == Document(items[Head(todo).id])
            c == [todo |-> todo, document |-> document, pc |-> "upsert"]
<1>1. /\ At(p, "index") /\ todo # <<>> /\ Head(todo).kind = "refresh"
      /\ UNCHANGED <<items, index, alone, current>>
  BY DEF ReadItem, Task1
<1>2. TypeOK
  BY DEF MemoryInv
<1>3. calls[p] \in Indexing /\ calls' = [calls EXCEPT ![p] = c]
  BY <1>1, <1>2, HandlerCalls DEF ReadItem, Task1
<1>4. todo \in Seq(Task)
  BY <1>3, IndexingShape
<1>5. document \in Contents \cup {Nothing}
  <2>1. Head(todo).id \in Ids
    BY <1>1, <1>4, TailTasks DEF Task
  <2>2. items[Head(todo).id] \in Item \cup {Nothing}
    BY <1>2, <2>1 DEF TypeOK, Items
  <2>. QED BY <2>2, DocumentType
<1>6. p \in alone => \A i \in DOMAIN todo :
        todo[i].kind = "remove" => Document(items[todo[i].id]) = Nothing
  BY <1>1 DEF MemoryInv, Following
<1>7. current => \A id \in Ids :
        \/ index[id] = Document(items[id])
        \/ \E i \in DOMAIN todo : todo[i].id = id
        \/ \E q \in Callers \ {p} : id \in Due(q)
  <2>1. Due(p) = {todo[i].id : i \in DOMAIN todo}
    BY <1>1 DEF Due
  <2>. QED BY <2>1 DEF MemoryInv, Mirror
<1>. HIDE DEF todo, document
<1>8. c \in Indexing /\ c.todo = todo /\ c.document = document /\ c.pc = "upsert"
  BY <1>4, <1>5, NewIndexing
<1>. HIDE DEF c
<1>9. index \in [Ids -> Contents \cup {Nothing}] /\ current \in BOOLEAN
  BY <1>2 DEF TypeOK
<1>10. /\ index' \in [Ids -> Contents \cup {Nothing}] /\ current' \in BOOLEAN
       /\ current' = current /\ index' = index
  BY <1>1, <1>9
<1>11. c.document = Document(items[Head(c.todo).id])
  BY <1>8 DEF document
<1>12. p \in alone =>
         /\ \A i \in DOMAIN c.todo :
              c.todo[i].kind = "remove" => Document(items[c.todo[i].id]) = Nothing
         /\ c.pc = "index" => c.document = Nothing
         /\ c.pc = "upsert" =>
              /\ Head(c.todo).kind = "refresh"
              /\ c.document = Document(items[Head(c.todo).id])
  BY <1>1, <1>6, <1>8, <1>11
<1>13. current' => \A id \in Ids :
         \/ index'[id] = Document(items[id])
         \/ \E i \in DOMAIN c.todo : c.todo[i].id = id
         \/ \E q \in Callers \ {p} : id \in Due(q)
  BY <1>7, <1>8, <1>10
<1>14. c.pc = "upsert" => c.todo # <<>>
  BY <1>1, <1>8
<1>15. (At(p, "index") \/ At(p, "upsert")) /\ UNCHANGED <<items, alone>>
  BY <1>1
<1>16. current' => current
  BY <1>10
<1>. QED
  BY <1>3, <1>8, <1>10, <1>12, <1>13, <1>14, <1>15, <1>16, HandlerKeeps

LEMMA WriteIndexKeeps ==
  ASSUME MemoryInv, NEW p \in Callers, WriteIndex(p)
  PROVE  MemoryInv'
<1>. DEFINE todo == calls[p].todo
            c == [todo |-> Tail(todo), document |-> Nothing, pc |-> "index"]
            x == Head(todo).id
<1>1. /\ \/ At(p, "upsert")
         \/ At(p, "index") /\ todo # <<>> /\ Head(todo).kind = "remove"
      /\ index' = [index EXCEPT ![x] = calls[p].document]
      /\ UNCHANGED <<items, alone, current>>
  BY DEF WriteIndex, Task1
<1>2. TypeOK
  BY DEF MemoryInv
<1>3. calls[p] \in Indexing /\ calls' = [calls EXCEPT ![p] = c]
  BY <1>1, <1>2, HandlerCalls DEF WriteIndex
<1>4. todo \in Seq(Task) /\ calls[p].document \in Contents \cup {Nothing}
  BY <1>3, IndexingShape
<1>5. /\ index' \in [Ids -> Contents \cup {Nothing}] /\ current' \in BOOLEAN
      /\ current' = current
  BY <1>1, <1>2, <1>4 DEF TypeOK
<1>6. Due(p) = {todo[i].id : i \in DOMAIN todo}
  BY <1>1 DEF Due
<1>7. ASSUME p \in alone
      PROVE  /\ calls[p].document = Document(items[x])
             /\ \A i \in DOMAIN todo :
                  todo[i].kind = "remove" => Document(items[todo[i].id]) = Nothing
  <2>1. \A i \in DOMAIN todo :
          todo[i].kind = "remove" => Document(items[todo[i].id]) = Nothing
    BY <1>1, <1>7 DEF MemoryInv, Following
  <2>2. CASE At(p, "upsert")
    BY <1>7, <2>1, <2>2 DEF MemoryInv, Following, Task1
  <2>3. CASE At(p, "index") /\ todo # <<>> /\ Head(todo).kind = "remove"
    <3>1. calls[p].document = Nothing
      BY <1>7, <2>3 DEF MemoryInv, Following
    <3>2. Head(todo) = todo[1] /\ 1 \in DOMAIN todo
      BY <1>4, <2>3
    <3>. QED BY <2>1, <2>3, <3>1, <3>2
  <2>. QED BY <1>1, <2>2, <2>3
<1>8. current => p \in alone
  BY <1>1, AloneOrNot DEF MemoryInv, At
<1>. HIDE DEF todo
<1>9. todo # <<>>
  BY <1>1 DEF MemoryInv, Prepared, todo
<1>10. /\ Tail(todo) \in Seq(Task)
       /\ Head(todo) = todo[1] /\ 1 \in DOMAIN todo
       /\ \A i \in DOMAIN Tail(todo) :
            i + 1 \in DOMAIN todo /\ Tail(todo)[i] = todo[i + 1]
       /\ \A i \in DOMAIN todo \ {1} :
            i - 1 \in DOMAIN Tail(todo) /\ Tail(todo)[i - 1] = todo[i]
  BY <1>4, <1>9, TailTasks
<1>11. c \in Indexing /\ c.todo = Tail(todo) /\ c.document = Nothing /\ c.pc = "index"
  BY <1>10, NewIndexing
<1>. HIDE DEF c
<1>12. p \in alone => \A i \in DOMAIN c.todo :
        c.todo[i].kind = "remove" => Document(items[c.todo[i].id]) = Nothing
  BY <1>7, <1>10, <1>11
<1>13. ASSUME current, NEW id \in Ids
      PROVE  \/ index'[id] = Document(items[id])
             \/ \E i \in DOMAIN c.todo : c.todo[i].id = id
             \/ \E q \in Callers \ {p} : id \in Due(q)
  <2>1. CASE id = x
    <3>1. index'[id] = calls[p].document
      BY <1>1, <1>2, <2>1 DEF TypeOK
    <3>. QED BY <1>7, <1>8, <1>13, <2>1, <3>1
  <2>2. CASE id # x
    <3>1. index'[id] = index[id]
      BY <1>1, <1>2, <2>2 DEF TypeOK
    <3>2. index[id] = Document(items[id]) \/ \E q \in Callers : id \in Due(q)
      BY <1>13 DEF MemoryInv, Mirror
    <3>3. ASSUME id \in Due(p) PROVE \E i \in DOMAIN c.todo : c.todo[i].id = id
      <4>1. PICK i \in DOMAIN todo : todo[i].id = id
        BY <1>6, <3>3
      <4>2. i # 1
        BY <1>10, <2>2, <4>1
      <4>3. i - 1 \in DOMAIN Tail(todo) /\ Tail(todo)[i - 1] = todo[i]
        BY <1>10, <4>2
      <4>. QED BY <1>11, <4>1, <4>3
    <3>. QED BY <3>1, <3>2, <3>3
  <2>. QED BY <2>1, <2>2
<1>14. p \in alone =>
        /\ \A i \in DOMAIN c.todo :
             c.todo[i].kind = "remove" => Document(items[c.todo[i].id]) = Nothing
        /\ c.pc = "index" => c.document = Nothing
        /\ c.pc = "upsert" =>
             /\ c.todo # <<>> /\ Head(c.todo).kind = "refresh"
             /\ c.document = Document(items[Head(c.todo).id])
  BY <1>11, <1>12
<1>15. At(p, "index") \/ At(p, "upsert")
  BY <1>1
<1>16. UNCHANGED <<items, alone>> /\ (current' => current)
  BY <1>1
<1>. QED BY <1>3, <1>5, <1>11, <1>13, <1>14, <1>15, <1>16, HandlerKeeps

LEMMA HandlerFailsKeeps ==
  ASSUME MemoryInv, NEW p \in Callers, HandlerFails(p)
  PROVE  MemoryInv'
<1>. DEFINE c == [todo |-> <<>>, document |-> Nothing, pc |-> "index"]
<1>1. /\ At(p, "index") \/ At(p, "upsert")
      /\ current' = FALSE
      /\ UNCHANGED <<items, index, alone>>
  BY DEF HandlerFails
<1>2. calls' = [calls EXCEPT ![p] = c]
  BY <1>1, HandlerCalls DEF HandlerFails, MemoryInv
<1>3. c \in Indexing /\ c.todo = <<>> /\ c.document = Nothing /\ c.pc = "index"
  <2>1. /\ <<>> \in Seq(Task) /\ Nothing \in Contents \cup {Nothing}
        /\ "index" \in {"index", "upsert"}
    OBVIOUS
  <2>. QED BY <2>1, NewIndexing
<1>. HIDE DEF c
<1>4. index' \in [Ids -> Contents \cup {Nothing}]
  BY <1>1 DEF MemoryInv, TypeOK
<1>5. current' \in BOOLEAN /\ ~current'
  BY <1>1
<1>6. /\ \A i \in DOMAIN c.todo :
           c.todo[i].kind = "remove" => Document(items[c.todo[i].id]) = Nothing
      /\ c.pc = "index" => c.document = Nothing
      /\ c.pc # "upsert"
  BY <1>3
<1>. QED BY <1>1, <1>2, <1>3, <1>4, <1>5, <1>6, HandlerKeeps

LEMMA SameCalls ==
  ASSUME UNCHANGED <<items, calls, alone>>
  PROVE  /\ Prepared' = Prepared /\ Intended' = Intended /\ Following' = Following
         /\ \A p : Only(p)' = Only(p) /\ Due(p)' = Due(p)
<1>1. \A p : /\ Only(p)' = Only(p) /\ Task1(p)' = Task1(p)
             /\ \A pc : At(p, pc)' = At(p, pc)
             /\ \A id : MayChange(p, id)' = MayChange(p, id)
  BY DEF Only, At, Task1, MayChange, IsActive
<1>2. \A p : Due(p)' = Due(p)
  BY <1>1 DEF Due
<1>. QED BY <1>1, <1>2 DEF Prepared, Intended, Following, Document

LEMMA RebuildKeeps ==
  ASSUME MemoryInv, Rebuild
  PROVE  MemoryInv'
<1>1. /\ index' = Documents(items) /\ current' = (current \/ ~Busy)
      /\ UNCHANGED <<items, calls, alone>>
  BY DEF Rebuild
<1>2. TypeOK'
  <2>1. \A id \in Ids : items[id] \in Item \cup {Nothing}
    BY DEF MemoryInv, TypeOK, Items
  <2>2. index' \in [Ids -> Contents \cup {Nothing}]
    BY <1>1, <2>1, DocumentType DEF Documents
  <2>. QED BY <1>1, <2>2 DEF MemoryInv, TypeOK
<1>3. Company'
  BY <1>1, SameCalls DEF MemoryInv, Company, Busy
<1>4. Mirror'
  BY <1>1 DEF Mirror, Documents, Document
<1>. QED BY <1>1, <1>2, <1>3, <1>4, SameCalls DEF MemoryInv

LEMMA CharacterDeletedKeeps ==
  ASSUME MemoryInv, CharacterDeleted
  PROVE  MemoryInv'
<1>1. /\ index' = [id \in Ids |-> Nothing] /\ current' = FALSE
      /\ UNCHANGED <<items, calls, alone>>
  BY DEF CharacterDeleted
<1>. QED BY <1>1, SameCalls DEF MemoryInv, TypeOK, Company, Mirror

LEMMA StutterKeeps ==
  ASSUME MemoryInv, UNCHANGED vars
  PROVE  MemoryInv'
<1>1. UNCHANGED <<items, index, calls, alone, current>>
  BY DEF vars
<1>2. Mirror'
  BY <1>1, SameCalls DEF MemoryInv, Mirror, Document
<1>. QED BY <1>1, <1>2, SameCalls DEF MemoryInv, TypeOK, Company
-----------------------------------------------------------------------------
(* The invariant.                                                          *)

LEMMA MemoryStart ==
  ASSUME Init
  PROVE  MemoryInv
<1>1. /\ items = [id \in Ids |-> Nothing] /\ index = [id \in Ids |-> Nothing]
      /\ calls = [p \in Callers |-> Nobody] /\ alone = {} /\ current = TRUE
  BY DEF Init, NoItems
<1>2. \A p \in Callers : calls[p] = Nobody
  BY <1>1
<1>3. TypeOK
  BY <1>1 DEF TypeOK, Items
<1>4. Company /\ Prepared /\ Intended /\ Following
  BY <1>1, <1>2 DEF Company, Prepared, Intended, Following, At
<1>5. Mirror
  BY <1>1 DEF Mirror, Document
<1>. QED BY <1>3, <1>4, <1>5 DEF MemoryInv

LEMMA MemoryStep ==
  ASSUME MemoryInv, [Next]_vars
  PROVE  MemoryInv'
<1>1. ASSUME NEW p \in Callers, NEW id \in Ids, Archive(p, id)
      PROVE  MemoryInv'
  BY <1>1, ArchiveKeeps
<1>2. ASSUME NEW p \in Callers, NEW id \in Ids, NEW content \in Contents,
             NEW policy \in Policies,
             \/ Create(p, id, content, policy)
             \/ Update(p, id, content, policy)
             \/ \E new \in Ids : Supersede(p, id, new, content, policy)
      PROVE  MemoryInv'
  BY <1>2, CreateKeeps, UpdateKeeps, SupersedeKeeps
<1>3. ASSUME NEW p \in Callers,
             \/ SaveState(p) \/ SupersedeInStore(p) \/ Fail(p)
             \/ ReadItem(p) \/ WriteIndex(p) \/ HandlerFails(p) \/ Return(p)
      PROVE  MemoryInv'
  BY <1>3, SaveStateKeeps, SupersedeInStoreKeeps, FailKeeps, ReadItemKeeps,
     WriteIndexKeeps, HandlerFailsKeeps, ReturnKeeps
<1>4. Rebuild \/ CharacterDeleted \/ UNCHANGED vars => MemoryInv'
  BY RebuildKeeps, CharacterDeletedKeeps, StutterKeeps
<1>. QED BY <1>1, <1>2, <1>3, <1>4 DEF Next

\* The memory, its index and the calls in progress keep their types, and what
\* a call without company relies on stays true until it returns.
THEOREM MemoryInvariance == Spec => []MemoryInv
<1>1. Init => MemoryInv
  BY MemoryStart
<1>2. MemoryInv /\ [Next]_vars => MemoryInv'
  BY MemoryStep
<1>. QED BY <1>1, <1>2, PTL DEF Spec

\* The index is derived from the memory: with nothing in progress it has the
\* active items and no other, unless something has excused it from that.
THEOREM IndexMirrorsMemoryHolds == Spec => []IndexMirrorsMemory
<1>1. MemoryInv => IndexMirrorsMemory
  <2>. SUFFICES ASSUME MemoryInv, current, ~Busy
       PROVE  index = Documents(items)
    BY DEF IndexMirrorsMemory
  <2>1. \A p \in Callers : Due(p) = {}
    BY DEF Busy, Due, At
  <2>2. \A id \in Ids : index[id] = Document(items[id])
    BY <2>1 DEF MemoryInv, Mirror
  <2>3. index \in [Ids -> Contents \cup {Nothing}]
    BY DEF MemoryInv, TypeOK
  <2>. QED BY <2>2, <2>3 DEF Documents
<1>. QED BY <1>1, MemoryInvariance, PTL

-----------------------------------------------------------------------------
(* What a step does to the items.                                          *)

LEMMA ItemSteps ==
  ASSUME [Next]_vars, items' # items
  PROVE  \E p \in Callers :
           \/ SaveState(p)
           \/ SupersedeInStore(p) /\ MayReplace(calls[p])
<1>1. ASSUME NEW p \in Callers, NEW c, Begin(p, c)
      PROVE  FALSE
  BY <1>1 DEF Begin
<1>2. ASSUME NEW p \in Callers, NEW id \in Ids, Archive(p, id)
      PROVE  FALSE
  BY <1>1, <1>2 DEF Archive, BeginSave
<1>3. ASSUME NEW p \in Callers, NEW id \in Ids, NEW content \in Contents,
             NEW policy \in Policies,
             \/ Create(p, id, content, policy)
             \/ Update(p, id, content, policy)
             \/ \E new \in Ids : Supersede(p, id, new, content, policy)
      PROVE  FALSE
  BY <1>1, <1>3 DEF Create, Update, Supersede, BeginSave
<1>4. ASSUME NEW p \in Callers,
             \/ Fail(p) \/ ReadItem(p) \/ WriteIndex(p)
             \/ HandlerFails(p) \/ Return(p)
      PROVE  FALSE
  BY <1>4 DEF Fail, ReadItem, WriteIndex, HandlerFails, Return
<1>5. ~Rebuild /\ ~CharacterDeleted /\ ~UNCHANGED vars
  BY DEF Rebuild, CharacterDeleted, vars
<1>6. ASSUME NEW p \in Callers, SupersedeInStore(p)
      PROVE  MayReplace(calls[p])
  BY <1>6 DEF SupersedeInStore
<1>. QED BY <1>2, <1>3, <1>4, <1>5, <1>6 DEF Next

\* A call without company saves the one item it is about, as it may.
LEMMA SavedAlone ==
  ASSUME MemoryInv, NEW p \in Callers, SaveState(p), p \in alone
  PROVE  /\ \A id \in Ids \ {calls[p].id} : items'[id] = items[id]
         /\ IF calls[p].op = "create" THEN items[calls[p].id] = Nothing
            ELSE MayChange(p, calls[p].id)
<1>1. At(p, "save") /\ items' = calls[p].state
  BY DEF SaveState, Saved
<1>2. /\ items' = [items EXCEPT ![calls[p].id] = calls[p].item]
      /\ IF calls[p].op = "create" THEN items[calls[p].id] = Nothing
         ELSE MayChange(p, calls[p].id)
  BY <1>1 DEF MemoryInv, Intended
<1>3. items \in Items
  BY DEF MemoryInv, TypeOK
<1>. QED BY <1>2, <1>3 DEF Items

LEMMA UntouchedStep ==
  ASSUME MemoryInv, [Next]_vars, NEW id \in Ids, items'[id] # items[id]
  PROVE  \E p \in Callers :
           Writes(p) /\ (p \notin alone \/ id \in {calls[p].id, calls[p].new})
<1>1. PICK p \in Callers :
        \/ SaveState(p)
        \/ SupersedeInStore(p) /\ MayReplace(calls[p])
  BY ItemSteps
<1>2. Writes(p)
  BY <1>1 DEF Writes, SaveState, SupersedeInStore
<1>3. p \notin alone \/ id \in {calls[p].id, calls[p].new}
  BY <1>1, SavedAlone, Superseded
<1>. QED BY <1>2, <1>3

\* create, update, archive and supersede leave every item alone but their own,
\* as long as nothing overlaps them.
THEOREM OthersUntouchedHolds == Spec => OthersUntouched
<1>1. MemoryInv /\ [Next]_vars =>
        [\A id \in Ids :
           items'[id] # items[id] =>
             \E p \in Callers :
               Writes(p) /\ (p \notin alone \/ id \in {calls[p].id, calls[p].new})]_vars
  BY UntouchedStep
<1>. QED BY <1>1, MemoryInvariance, PTL DEF Spec, OthersUntouched

LEMMA PolicyStep ==
  ASSUME MemoryInv, [Next]_vars,
         NEW id \in Ids, items[id] # Nothing, items'[id] # items[id],
         ~\E p \in Callers : At(p, "save") /\ p \notin alone
  PROVE  /\ IsActive(items, id)
         /\ \A p \in alone : ActorAllowed(AuthorityOf[p], items[id].policy)
<1>1. PICK p \in Callers :
        \/ SaveState(p)
        \/ SupersedeInStore(p) /\ MayReplace(calls[p])
  BY ItemSteps
<1>2. alone \subseteq {p}
  <2>1. calls[p] # Nobody
    BY <1>1 DEF SaveState, SupersedeInStore, At
  <2>. QED BY <2>1, AloneOrNot DEF MemoryInv
<1>3. CASE SaveState(p)
  <2>1. p \in alone
    BY <1>3 DEF SaveState
  <2>2. id = calls[p].id /\ MayChange(p, id)
    BY <1>3, <2>1, SavedAlone
  <2>. QED BY <1>2, <2>2 DEF MayChange
<1>4. CASE SupersedeInStore(p) /\ MayReplace(calls[p])
  <2>1. id = calls[p].id /\ IsActive(items, id)
    BY <1>4, Superseded
  <2>2. p \in alone => MayChange(p, id)
    BY <1>4, <2>1 DEF SupersedeInStore, MemoryInv, Intended
  <2>. QED BY <1>2, <2>1, <2>2 DEF MayChange
<1>. QED BY <1>1, <1>3, <1>4

\* A memory changes only while it is active and as its policy allows the
\* actor, unless a call overlaps others and saves what it has loaded earlier.
THEOREM PoliciesHoldHolds == Spec => PoliciesHold
<1>1. MemoryInv /\ [Next]_vars =>
        [\A id \in Ids :
           items[id] # Nothing /\ items'[id] # items[id] =>
             \/ \E p \in Callers : At(p, "save") /\ p \notin alone
             \/ /\ IsActive(items, id)
                /\ \A p \in alone :
                     Writes(p) /\ calls'[p] # calls[p] =>
                       ActorAllowed(AuthorityOf[p], items[id].policy)]_vars
  BY PolicyStep
<1>. QED BY <1>1, MemoryInvariance, PTL DEF Spec, PoliciesHold

LEMMA SupersedeStep ==
  ASSUME MemoryInv, [Next]_vars, NEW p \in Callers,
         At(p, "supersede"), calls'[p] # calls[p], items' # items
  PROVE  SupersedeInStore(p) /\ MayReplace(calls[p])
<1>1. PICK q \in Callers :
        \/ SaveState(q)
        \/ SupersedeInStore(q) /\ MayReplace(calls[q])
  BY ItemSteps
<1>2. Announce(q)
  BY <1>1 DEF SaveState, SupersedeInStore
<1>3. calls \in [Callers -> Call \cup {Nobody}]
  BY DEF MemoryInv, TypeOK
<1>4. q = p
  BY <1>2, <1>3 DEF Announce
<1>. QED BY <1>1, <1>4 DEF SaveState, At

\* However many calls supersede the same item, one of them replaces it, by an
\* item that is new, and no other item is lost.
THEOREM SupersedesOnceHolds == Spec => SupersedesOnce
<1>1. ASSUME MemoryInv, [Next]_vars, NEW p \in Callers,
             At(p, "supersede"), calls'[p] # calls[p], items' # items
      PROVE  /\ IsActive(items, calls[p].id) /\ items[calls[p].new] = Nothing
             /\ ~IsActive(items', calls[p].id) /\ IsActive(items', calls[p].new)
             /\ \A id \in Ids \ {calls[p].id, calls[p].new} : items'[id] = items[id]
  BY <1>1, SupersedeStep, Superseded DEF IsActive
<1>2. MemoryInv /\ [Next]_vars =>
        [\A p \in Callers :
           At(p, "supersede") /\ calls'[p] # calls[p] /\ items' # items =>
             LET call == calls[p] IN
               /\ IsActive(items, call.id) /\ items[call.new] = Nothing
               /\ ~IsActive(items', call.id) /\ IsActive(items', call.new)
               /\ \A id \in Ids \ {call.id, call.new} : items'[id] = items[id]]_vars
  BY <1>1
<1>. QED BY <1>2, MemoryInvariance, PTL DEF Spec, SupersedesOnce
=============================================================================
