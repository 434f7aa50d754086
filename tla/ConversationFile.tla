-------------------------- MODULE ConversationFile --------------------------
(***************************************************************************)
(* The files below the conversation store of the Tauri host                *)
(* (apps/desktop-host/src-tauri/src/conversations.rs), for one character:  *)
(* conversations-v2.json, the legacy conversations-v1.json, and the two    *)
(* backups into which a file that cannot be decoded is renamed.  The host  *)
(* handles one command at a time.  Each loads the file, which may set it   *)
(* aside or migrate the legacy one, applies its change and replaces the    *)
(* file in four steps, any of which may fail; the machine may stop between *)
(* any two.  Files are damaged from outside, or written by a program of    *)
(* another version, between commands.                                      *)
(*                                                                         *)
(* Definitions whose name begins with Faulty are defective variants of the *)
(* definition that follows them.  No action uses them: they are there to   *)
(* show that the properties tell the two apart.                            *)
(***************************************************************************)
EXTENDS Naturals, FiniteSets

CONSTANTS
  Ids,       \* identifiers of conversations
  Default,   \* the default one of the character, a member of Ids
  Texts,     \* messages of a conversation, as far as they can be told apart
  NoText,    \* no messages, a member of Texts
  Absent,    \* no file, no command
  MaxHarms,  \* bound: damages from outside
  MaxFaults, \* bound: operations of the file system that fail
  MaxCrashes \* bound: times the program ends without notice

VARIABLES
  v2,       \* conversations-v2.json
  v1,       \* conversations-v1.json
  v2aside,  \* conversations-v2.invalid.json
  v1aside,  \* conversations-v1.invalid.json
  draft,    \* conversations-v2.json.tmp
  command,  \* the command in hand
  step,     \* how far it is
  loaded,   \* the state it has loaded, or is saving
  migrates, \* whether it saves what it has migrated, before its own change
  harms, faults, crashes,
  promised, \* history: the texts a conversation may have, none if not promised
  deleted,  \* history: conversations whose deletion was confirmed
  first     \* history: the first file v2 that was damaged

files == <<v2, v1, v2aside, v1aside, draft>>
counts == <<harms, faults, crashes>>
history == <<promised, deleted, first>>
vars == <<files, command, step, loaded, migrates, counts, history>>

(* A state: the conversations, and the active one.  Empty: no file.        *)
Talks == UNION {[S -> Texts] : S \in SUBSET Ids}
State == [talks : Talks, active : Ids \cup {Absent}]
Empty == [talks |-> <<>>, active |-> Absent]

(* A file that decode_v2 or migrate_legacy accepts, or not.                *)
File(state, valid) == [state |-> state, valid |-> valid]

Commands ==
  [op : {"save"}, id : Ids, text : Texts]
    \cup [op : {"delete", "set_active", "clear"}, id : Ids]
    \cup [op : {"read"}]

(* What the constants have to be; HostFiles assumes it.                    *)
Assumptions ==
  /\ Default \in Ids /\ NoText \in Texts
  /\ Absent \notin Commands
  /\ Absent \notin [state : State, valid : BOOLEAN]

-----------------------------------------------------------------------------
(* Changes.                                                                *)

Put(state, id, text) ==
  [talks |-> [i \in DOMAIN state.talks \cup {id} |->
                IF i = id THEN text ELSE state.talks[i]],
   active |-> IF state.active = Absent THEN id ELSE state.active]

(* The active conversation is replaced by another, or by a new default     *)
(* one.  Which other comes first is a matter of dates.                     *)
Removals(state, id) ==
  LET rest == DOMAIN state.talks \ {id}
      talks == [i \in rest |-> state.talks[i]] IN
  IF state.active # id THEN {[talks |-> talks, active |-> state.active]}
  ELSE IF rest # {} THEN {[talks |-> talks, active |-> i] : i \in rest}
  ELSE {[talks |-> [i \in {Default} |-> NoText], active |-> Default]}

(* The states a command may save: none when it only answers.               *)
Changes(c, state) ==
  IF c.op = "save" THEN {Put(state, c.id, c.text)}
  ELSE IF c.op = "read" \/ c.id \notin DOMAIN state.talks THEN {}
  ELSE CASE c.op = "delete" -> Removals(state, c.id)
         [] c.op = "set_active" -> {[state EXCEPT !.active = c.id]}
         [] c.op = "clear" -> {[state EXCEPT !.talks[c.id] = NoText]}

-----------------------------------------------------------------------------
(* A command begins and ends.                                              *)

Widen(c) ==
  CASE c.op = "save" -> [promised EXCEPT ![c.id] = IF @ = {} THEN {} ELSE @ \cup {c.text}]
    [] c.op = "clear" -> [promised EXCEPT ![c.id] = IF @ = {} THEN {} ELSE @ \cup {NoText}]
    [] c.op = "delete" -> [promised EXCEPT ![c.id] = {}]
    [] OTHER -> promised

Begin(c) ==
  /\ command = Absent
  /\ command' = c /\ step' = "load"
  /\ promised' = Widen(c)
  /\ deleted' = IF c.op = "save" THEN deleted \ {c.id} ELSE deleted
  /\ UNCHANGED <<files, loaded, migrates, counts, first>>

Idle ==
  /\ command' = Absent /\ step' = "idle" /\ loaded' = Empty /\ migrates' = FALSE

(* The command is fulfilled: what it asked for holds from now on.          *)
Fulfil ==
  /\ Idle
  /\ promised' = CASE command.op = "save" ->
                        [promised EXCEPT ![command.id] = {command.text}]
                   [] command.op = "clear" /\ promised[command.id] # {} ->
                        [promised EXCEPT ![command.id] = {NoText}]
                   [] OTHER -> promised
  /\ deleted' = IF command.op = "delete" /\ command.id # Default /\ step = "rename"
                THEN deleted \cup {command.id} ELSE deleted
  /\ UNCHANGED first

-----------------------------------------------------------------------------
(* load_state.                                                             *)

(* migrate_legacy: a legacy file names no active conversation; the last of *)
(* the character in the file becomes it.  The order is left open.          *)
Migrated(state) ==
  IF state.talks = <<>> THEN {Empty}
  ELSE {[state EXCEPT !.active = id] : id \in DOMAIN state.talks}

Continue(state) ==
  /\ step' = "apply" /\ loaded' = state
  /\ UNCHANGED <<command, migrates>>

FaultyLoadCurrent ==
  /\ step = "load" /\ v2 # Absent
  /\ IF v2.valid
     THEN Continue(v2.state) /\ UNCHANGED files
     ELSE /\ v2aside' = v2 /\ v2' = Absent
          /\ Continue(Empty)
          /\ UNCHANGED <<v1, v1aside, draft>>
  /\ UNCHANGED <<counts, history>>

(* A file that cannot be decoded is renamed into the backup, if there is   *)
(* none yet, and left in place otherwise; in both cases there is no state. *)
LoadCurrent ==
  /\ step = "load" /\ v2 # Absent
  /\ IF v2.valid
     THEN Continue(v2.state) /\ UNCHANGED files
     ELSE /\ IF v2aside = Absent
             THEN v2aside' = v2 /\ v2' = Absent
             ELSE UNCHANGED <<v2, v2aside>>
          /\ Continue(Empty)
          /\ UNCHANGED <<v1, v1aside, draft>>
  /\ UNCHANGED <<counts, history>>

FaultyLoadLegacy ==
  /\ step = "load"
  /\ IF v1 # Absent /\ v1.valid
     THEN /\ loaded' \in Migrated(v1.state)
          /\ step' = "create" /\ migrates' = TRUE
          /\ UNCHANGED <<files, command>>
     ELSE /\ v2 = Absent
          /\ Continue(Empty)
          /\ UNCHANGED files
  /\ UNCHANGED <<counts, history>>

(* Without the current file the legacy one is migrated and saved; one that *)
(* cannot be migrated is renamed, or left when there is a backup.          *)
LoadLegacy ==
  /\ step = "load" /\ v2 = Absent
  /\ IF v1 # Absent /\ v1.valid
     THEN /\ loaded' \in Migrated(v1.state)
          /\ step' = "create" /\ migrates' = TRUE
          /\ UNCHANGED <<files, command>>
     ELSE /\ IF v1 # Absent /\ v1aside = Absent
             THEN v1aside' = v1 /\ v1' = Absent
             ELSE UNCHANGED <<v1, v1aside>>
          /\ Continue(Empty)
          /\ UNCHANGED <<v2, v2aside, draft>>
  /\ UNCHANGED <<counts, history>>

(* The state is changed and goes to be saved, or the answer is known.      *)
Apply ==
  /\ step = "apply"
  /\ IF Changes(command, loaded) # {}
     THEN /\ loaded' \in Changes(command, loaded)
          /\ step' = "create"
          /\ UNCHANGED <<command, migrates, history>>
     ELSE Fulfil
  /\ UNCHANGED <<files, counts>>

-----------------------------------------------------------------------------
(* save_to_path.                                                           *)

Create ==
  /\ step = "create"
  /\ draft' = File(Empty, FALSE)
  /\ step' = "write"
  /\ UNCHANGED <<v2, v1, v2aside, v1aside, command, loaded, migrates, counts, history>>

Write ==
  /\ step = "write"
  /\ draft' = File(loaded, TRUE)
  /\ step' = "remove"
  /\ UNCHANGED <<v2, v1, v2aside, v1aside, command, loaded, migrates, counts, history>>

Remove ==
  /\ step = "remove"
  /\ v2' = Absent
  /\ step' = "rename"
  /\ UNCHANGED <<v1, v2aside, v1aside, draft, command, loaded, migrates, counts, history>>

Rename ==
  /\ step = "rename"
  /\ v2' = draft /\ draft' = Absent
  /\ IF migrates
     THEN /\ step' = "apply" /\ migrates' = FALSE
          /\ UNCHANGED <<command, loaded, history>>
     ELSE Fulfil
  /\ UNCHANGED <<v1, v2aside, v1aside, counts>>

-----------------------------------------------------------------------------
(* What goes wrong.                                                        *)

NoPromises == [id \in Ids |-> {}]

(* Nothing is promised any more once the old file is removed and the new   *)
(* one not in its place: the next load finds the legacy file or none.      *)
(* What is left of the temporary file is never read and is forgotten here. *)
BrokenOff ==
  /\ Idle /\ draft' = Absent
  /\ IF step = "rename" /\ ~migrates
     THEN promised' = NoPromises /\ deleted' = {}
     ELSE UNCHANGED <<promised, deleted>>
  /\ UNCHANGED first

Fails ==
  /\ command # Absent /\ step # "apply" /\ faults < MaxFaults
  /\ faults' = faults + 1
  /\ BrokenOff
  /\ UNCHANGED <<v2, v1, v2aside, v1aside, harms, crashes>>

Crash ==
  /\ command # Absent /\ crashes < MaxCrashes
  /\ crashes' = crashes + 1
  /\ BrokenOff
  /\ UNCHANGED <<v2, v1, v2aside, v1aside, harms, faults>>

(* Damage to the file in use: what it held is promised no longer.          *)
Damage ==
  /\ command = Absent /\ harms < MaxHarms
  /\ harms' = harms + 1
  /\ \/ /\ v2 # Absent /\ v2.valid
        /\ v2' = File(v2.state, FALSE)
        /\ first' = IF first = Absent THEN v2' ELSE first
        /\ UNCHANGED v1
     \/ /\ v1 # Absent /\ v1.valid
        /\ v1' = File(v1.state, FALSE)
        /\ UNCHANGED <<v2, first>>
  /\ IF v2' = v2 /\ v2 # Absent
     THEN UNCHANGED <<promised, deleted>>
     ELSE promised' = NoPromises /\ deleted' = {}
  /\ UNCHANGED <<v2aside, v1aside, draft, command, step, loaded, migrates, faults,
                 crashes>>

-----------------------------------------------------------------------------
(* The start: no files, those of this program, the legacy ones, or both.   *)
States == {Put(Empty, id, text) : id \in Ids, text \in Texts \ {NoText}}

Files == {Absent} \cup {File(state, TRUE) : state \in States}

LegacyFiles ==
  {Absent} \cup {File([state EXCEPT !.active = Absent], TRUE) : state \in States}

Promises(file) ==
  [id \in Ids |-> IF file # Absent /\ id \in DOMAIN file.state.talks
                  THEN {file.state.talks[id]} ELSE {}]

Init ==
  /\ v2 \in Files /\ v1 \in LegacyFiles
  /\ v2aside = Absent /\ v1aside = Absent /\ draft = Absent
  /\ command = Absent /\ step = "idle" /\ loaded = Empty /\ migrates = FALSE
  /\ harms = 0 /\ faults = 0 /\ crashes = 0
  /\ promised = Promises(IF v2 = Absent THEN v1 ELSE v2)
  /\ deleted = {} /\ first = Absent

Next ==
  \/ \E c \in Commands : Begin(c)
  \/ LoadCurrent \/ LoadLegacy \/ Apply
  \/ Create \/ Write \/ Remove \/ Rename
  \/ Fails \/ Crash \/ Damage

Spec == Init /\ [][Next]_vars

-----------------------------------------------------------------------------
(* Properties.                                                             *)

(* The file that counts: while it is replaced, the new one.                *)
Effective ==
  IF step = "rename" /\ ~migrates THEN draft
  ELSE IF v2 # Absent THEN v2 ELSE v1

(* A conversation whose save was confirmed, or that came with an earlier   *)
(* file, keeps its last messages until another command on it is begun,     *)
(* through migrations, failed commands, crashes and damages to the legacy  *)
(* file; and one that a command has deleted does not come back, not even   *)
(* from the legacy file, which still has it.  Only a damage to the file in *)
(* use, and an end between the removal of the old file and the renaming of *)
(* the new, are excepted.                                                  *)
FileFollowsCommands ==
  \A id \in Ids :
    /\ promised[id] # {} =>
         /\ Effective # Absent /\ Effective.valid
         /\ id \in DOMAIN Effective.state.talks
         /\ Effective.state.talks[id] \in promised[id]
    /\ id \in deleted /\ Effective # Absent /\ Effective.valid =>
         id \notin DOMAIN Effective.state.talks

(* The first file that was damaged stays on the disk, where it was or in   *)
(* the backup, whatever is saved and damaged afterwards.  (Of a second one *)
(* the code keeps nothing: "the existing recovery backup prevents another  *)
(* automatic quarantine", conversations.rs:195.)                           *)
FirstDamageKept == first # Absent => first \in {v2, v2aside}
=============================================================================
