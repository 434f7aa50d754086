------------------------------ MODULE CoreBook ------------------------------
(***************************************************************************)
(* CoreBookManager (core/src/core-book-manager.ts) of one character, its   *)
(* store behind the IPC (host/core-book) and the host's file               *)
(* (apps/desktop-host/src-tauri/src/core_book.rs).  The host handles the   *)
(* commands one after another, in the order they were sent, and replaces   *)
(* the file in four steps: create a temporary file, write it, remove the   *)
(* old file, rename.  The machine may stop between any two, and any may    *)
(* fail.                                                                   *)
(*                                                                         *)
(* Of an entry the model keeps whether it is enabled, and whether its      *)
(* title is wide: up to 200 UTF-16 units, which the manager accepts, but   *)
(* more than 200 bytes, which the host refuses.  An entry is created       *)
(* enabled, as is the default; that update may change this too is left to  *)
(* the operation that does nothing else.  The cached array is used         *)
(* only between an await and the next, so that its identity is of no       *)
(* consequence and its content is all there is.                            *)
(*                                                                         *)
(* Definitions whose name begins with Faulty are defective variants of the *)
(* definition that follows them.  No action uses them: they are there to   *)
(* show that the properties tell the two apart.                            *)
(***************************************************************************)
EXTENDS Naturals, Sequences, FiniteSets

CONSTANTS
  Callers,    \* who may have a call in progress
  None,       \* no call, no file, nothing cached
  Torn,       \* a file of which only a part was written
  MaxEntries, \* bound: entries created in a behaviour
  MaxFaults,  \* bound: operations of the file system that fail
  MaxCrashes  \* bound: times the program ends without notice

Ids == 1..MaxEntries
Entry == [enabled : BOOLEAN, wide : BOOLEAN]
Book == UNION {[S -> Entry] : S \in SUBSET Ids}
NoEntries == [id \in {} |-> [enabled |-> TRUE, wide |-> FALSE]]

Operation ==
  [op : {"create", "update"}, id : Ids, wide : BOOLEAN]
    \cup [op : {"enable"}, id : Ids, enabled : BOOLEAN]
    \cup [op : {"delete"}, id : Ids]
    \cup [op : {"list"}]

(* A call awaits the host's answer, or has it and is yet to go on.  Once   *)
(* it saves, all that matters is which entry it creates, if any.           *)
Call ==
  [stage : {"loading"}, do : Operation]
    \cup [stage : {"loaded"}, do : Operation, reply : Book \cup {None}]
    \cup [stage : {"saving"}, new : 0..MaxEntries]
    \cup [stage : {"saved"}, new : 0..MaxEntries, ok : BOOLEAN]

Command ==
  [by : Callers, type : {"load"}] \cup [by : Callers, type : {"save"}, book : Book]

ASSUME BoundsAssumption ==
  MaxEntries \in Nat /\ MaxFaults \in Nat /\ MaxCrashes \in Nat
ASSUME NoneAssumption == None \notin Book \cup Call /\ Torn \notin Book
                         /\ None # Torn

VARIABLES
  cache,     \* CoreBookManager.cache of the character
  calls,     \* every caller's call
  queue,     \* commands on their way to the host
  host,      \* what the host has done of the save at the head of the queue
  file,      \* core-book-v1-<character>.json
  tmp,       \* its temporary file
  created,   \* identifiers handed out by idFactory
  faults,    \* history: failures of the file system
  crashes,   \* history: ends without notice
  confirmed, \* history: entries whose creation was confirmed, until deleted
  unsaved,   \* history: a save failed and none has succeeded since
  overtaken, \* history: the cache was filled with a file older than it
  lost       \* history: see Durable

manager == <<cache, calls, queue, created>>
disk == <<file, tmp>>
history == <<confirmed, unsaved, overtaken, lost>>
vars == <<manager, host, disk, faults, crashes, history>>

-----------------------------------------------------------------------------
(* The operations on the entries.                                          *)

Applies(do, book) ==
  CASE do.op = "create" -> do.id \notin DOMAIN book
    [] do.op = "enable" -> /\ do.id \in DOMAIN book
                           /\ book[do.id].enabled # do.enabled
    [] do.op \in {"update", "delete"} -> do.id \in DOMAIN book
    [] do.op = "list" -> FALSE

Apply(do, book) ==
  CASE do.op = "create" ->
         [id \in DOMAIN book \cup {do.id} |->
            IF id = do.id THEN [enabled |-> TRUE, wide |-> do.wide]
            ELSE book[id]]
    [] do.op = "update" -> [book EXCEPT ![do.id].wide = do.wide]
    [] do.op = "enable" -> [book EXCEPT ![do.id].enabled = do.enabled]
    [] do.op = "delete" -> [id \in DOMAIN book \ {do.id} |-> book[id]]

FaultyPerform(c, do, book, requests) ==
  IF Applies(do, book)
  THEN /\ cache' = Apply(do, book)
       /\ queue' = Append(requests, [by |-> c, type |-> "save", book |-> book])
       /\ calls' = [calls EXCEPT ![c] =
                      [stage |-> "saving",
                       new |-> IF do.op = "create" THEN do.id ELSE 0]]
       /\ confirmed' = IF do.op = "delete" THEN confirmed \ {do.id}
                       ELSE confirmed
  ELSE /\ cache' = book
       /\ queue' = requests
       /\ calls' = [calls EXCEPT ![c] = None]
       /\ UNCHANGED confirmed

(* The entries are at hand: change the cached array and send it to be      *)
(* saved, or refuse, or list.                                              *)
Perform(c, do, book, requests) ==
  IF Applies(do, book)
  THEN LET next == Apply(do, book) IN
       /\ cache' = next
       /\ queue' = Append(requests, [by |-> c, type |-> "save", book |-> next])
       /\ calls' = [calls EXCEPT ![c] =
                      [stage |-> "saving",
                       new |-> IF do.op = "create" THEN do.id ELSE 0]]
       /\ confirmed' = IF do.op = "delete" THEN confirmed \ {do.id}
                       ELSE confirmed
  ELSE /\ cache' = book
       /\ queue' = requests
       /\ calls' = [calls EXCEPT ![c] = None]
       /\ UNCHANGED confirmed

Invoke(c, do) ==
  /\ calls[c] = None
  /\ IF cache # None
     THEN Perform(c, do, cache, queue)
     ELSE /\ queue' = Append(queue, [by |-> c, type |-> "load"])
          /\ calls' = [calls EXCEPT ![c] = [stage |-> "loading", do |-> do]]
          /\ UNCHANGED <<cache, confirmed>>
  /\ UNCHANGED <<host, disk, faults, crashes, unsaved, overtaken, lost>>

Create(c, wide) ==
  /\ created < MaxEntries
  /\ created' = created + 1
  /\ Invoke(c, [op |-> "create", id |-> created + 1, wide |-> wide])

Change(c, do) == Invoke(c, do) /\ UNCHANGED created

-----------------------------------------------------------------------------
(* The host answers, the manager goes on.                                  *)

FaultyLoaded(c) ==
  /\ calls[c] # None /\ calls[c].stage = "loaded"
  /\ LET reply == IF calls[c].reply = None THEN NoEntries ELSE calls[c].reply IN
     /\ Perform(c, calls[c].do, reply, queue)
     /\ overtaken' = (overtaken \/ cache \notin {None, reply})
     /\ lost' = (lost \/ cache \notin {None, reply})
  /\ UNCHANGED <<created, host, disk, faults, crashes, unsaved>>

(* loadEntries puts what it has loaded into the cache, whatever it holds.  *)
Loaded(c) ==
  /\ calls[c] # None /\ calls[c].stage = "loaded"
  /\ LET reply == calls[c].reply IN
     IF reply = None
     THEN /\ calls' = [calls EXCEPT ![c] = None]
          /\ UNCHANGED <<cache, queue, confirmed, overtaken, lost>>
     ELSE /\ Perform(c, calls[c].do, reply, queue)
          /\ overtaken' = (overtaken \/ cache \notin {None, reply})
          /\ lost' = (lost \/ cache \notin {None, reply})
  /\ UNCHANGED <<created, host, disk, faults, crashes, unsaved>>

(* The save has settled: publish and return, or reject.                    *)
Saved(c) ==
  /\ calls[c] # None /\ calls[c].stage = "saved"
  /\ confirmed' = IF calls[c].ok /\ calls[c].new \in DOMAIN cache
                  THEN confirmed \cup {calls[c].new} ELSE confirmed
  /\ calls' = [calls EXCEPT ![c] = None]
  /\ UNCHANGED <<cache, queue, created, host, disk, faults, crashes, unsaved,
                 overtaken, lost>>

-----------------------------------------------------------------------------
(* The host.                                                               *)

HostHas(type) == queue # <<>> /\ Head(queue).type = type

AnswerLoad(book) ==
  LET c == Head(queue).by IN
  /\ calls' = [calls EXCEPT ![c] =
                 [stage |-> "loaded", do |-> calls[c].do, reply |-> book]]
  /\ queue' = Tail(queue)

AnswerSave(ok) ==
  LET c == Head(queue).by IN
  /\ calls' = [calls EXCEPT ![c] =
                 [stage |-> "saved", new |-> calls[c].new, ok |-> ok]]
  /\ queue' = Tail(queue)
  /\ unsaved' = ~ok

HostLoads ==
  /\ HostHas("load")
  /\ AnswerLoad(CASE file = None -> NoEntries
                  [] file = Torn -> None
                  [] OTHER -> file)
  /\ UNCHANGED <<cache, created, host, disk, faults, crashes, history>>

HostLoadFails ==
  /\ HostHas("load") /\ faults < MaxFaults
  /\ faults' = faults + 1
  /\ AnswerLoad(None)
  /\ UNCHANGED <<cache, created, host, disk, crashes, history>>

FaultyAcceptable(book) == TRUE

(* validate: the host counts the bytes of a title.                         *)
Acceptable(book) == \A id \in DOMAIN book : ~book[id].wide

HostRefuses ==
  /\ HostHas("save") /\ host = "idle" /\ ~Acceptable(Head(queue).book)
  /\ AnswerSave(FALSE)
  /\ UNCHANGED <<cache, created, host, disk, faults, crashes, confirmed,
                 overtaken, lost>>

HostCreates ==
  /\ HostHas("save") /\ host = "idle" /\ Acceptable(Head(queue).book)
  /\ tmp' = Torn
  /\ host' = "created"
  /\ UNCHANGED <<manager, file, faults, crashes, history>>

HostWrites ==
  /\ host = "created"
  /\ tmp' = Head(queue).book
  /\ host' = "written"
  /\ UNCHANGED <<manager, file, faults, crashes, history>>

HostRemoves ==
  /\ host = "written"
  /\ file' = None
  /\ host' = "removed"
  /\ UNCHANGED <<manager, tmp, faults, crashes, history>>

HostRenames ==
  /\ host = "removed"
  /\ file' = tmp /\ tmp' = None
  /\ host' = "idle"
  /\ AnswerSave(TRUE)
  /\ UNCHANGED <<cache, created, faults, crashes, confirmed,
                 overtaken, lost>>

(* A file operation fails: the save is given up where it is.  What is left *)
(* of the temporary file is never read and is forgotten here.              *)
HostSaveFails ==
  /\ HostHas("save") /\ Acceptable(Head(queue).book) /\ faults < MaxFaults
  /\ faults' = faults + 1
  /\ host' = "idle" /\ tmp' = None
  /\ AnswerSave(FALSE)
  /\ lost' = (lost \/ host = "removed")
  /\ UNCHANGED <<cache, created, file, crashes, confirmed, overtaken>>

(* The program ends and is started again: the files are what is left.      *)
Crash ==
  /\ crashes < MaxCrashes
  /\ crashes' = crashes + 1
  /\ cache' = None /\ queue' = <<>> /\ host' = "idle" /\ tmp' = None
  /\ calls' = [c \in Callers |-> None]
  /\ lost' = (lost \/ host = "removed")
  /\ unsaved' = FALSE /\ overtaken' = FALSE
  /\ UNCHANGED <<created, file, faults, confirmed>>

-----------------------------------------------------------------------------
Init ==
  /\ cache = None /\ queue = <<>> /\ host = "idle"
  /\ calls = [c \in Callers |-> None]
  /\ file = None /\ tmp = None
  /\ created = 0 /\ faults = 0 /\ crashes = 0
  /\ confirmed = {}
  /\ unsaved = FALSE /\ overtaken = FALSE /\ lost = FALSE

Request(c) ==
  \/ \E wide \in BOOLEAN : Create(c, wide)
  \/ \E id \in Ids, wide \in BOOLEAN :
       Change(c, [op |-> "update", id |-> id, wide |-> wide])
  \/ \E id \in Ids, on \in BOOLEAN :
       Change(c, [op |-> "enable", id |-> id, enabled |-> on])
  \/ \E id \in Ids : Change(c, [op |-> "delete", id |-> id])
  \/ Change(c, [op |-> "list"])

HostStep ==
  \/ HostLoads \/ HostLoadFails
  \/ HostRefuses \/ HostCreates \/ HostWrites \/ HostRemoves \/ HostRenames
  \/ HostSaveFails

Next ==
  \/ \E c \in Callers : Request(c) \/ Loaded(c) \/ Saved(c)
  \/ HostStep
  \/ Crash

Spec == Init /\ [][Next]_vars

-----------------------------------------------------------------------------
(* Properties.                                                             *)

(* Type invariant of the manager, the host and the history.                *)
TypeOK ==
  /\ cache \in Book \cup {None}
  /\ calls \in [Callers -> Call \cup {None}]
  /\ queue \in Seq(Command)
  /\ host \in {"idle", "created", "written", "removed"}
  /\ file \in Book \cup {None, Torn} /\ tmp \in Book \cup {None, Torn}
  /\ created \in 0..MaxEntries
  /\ confirmed \subseteq Ids
  /\ unsaved \in BOOLEAN /\ overtaken \in BOOLEAN /\ lost \in BOOLEAN

(* Whenever the machine stops, the file is one that load accepts: never    *)
(* half written and never with an entry the host would refuse.  (save of   *)
(* core_book.rs writes and syncs another file before it renames it.)       *)
FileIsWhole ==
  file # None => file # Torn /\ \A id \in DOMAIN file : ~file[id].wide

(* An entry whose creation was confirmed is in the file until its deletion *)
(* is asked for, through failed and refused saves, crashes and any order   *)
(* of calls.  It can be lost in two ways only, which lost records: the     *)
(* machine stops, or the rename fails, while the old file is removed and   *)
(* the new one not yet in its place; and a load that was under way while   *)
(* the cache changed puts its older entries over it.                       *)
Durable ==
  ~lost => \A id \in confirmed :
             LET stored == IF host = "removed" THEN tmp ELSE file IN
             stored \notin {None, Torn} /\ id \in DOMAIN stored

(* When nothing is under way, the cache that every reader sees is what the *)
(* file holds, unless the last save failed: what a failed save left in the *)
(* cache goes to the file with the next one that succeeds.                 *)
QuietCacheIsFile ==
  (\A c \in Callers : calls[c] = None) /\ ~unsaved /\ ~overtaken /\ cache # None
    => cache = IF file = None THEN NoEntries ELSE file
=============================================================================
