----------------------------- MODULE HostFiles -----------------------------
(***************************************************************************)
(* The files of the Tauri host that the commands replace: the core book    *)
(* with its manager (CoreBook) and the conversations (ConversationFile).   *)
(* The two share no state, so that a behaviour follows one of them.        *)
(***************************************************************************)
EXTENDS CoreBook

CONSTANTS Conversations, Default, Texts, NoText, Absent, MaxHarms

VARIABLES
  subject, \* the files this behaviour is about
  v2, v1, v2aside, v1aside, draft, command, step, loaded, migrates, harms,
  mishaps, ends, promised, deleted, first

fileVars == <<v2, v1, v2aside, v1aside, draft, command, step, loaded, migrates,
              harms, mishaps, ends, promised, deleted, first>>
hostVars == <<vars, fileVars, subject>>

Talks ==
  INSTANCE ConversationFile WITH
    Ids <- Conversations, faults <- mishaps, crashes <- ends

ASSUME TalksAssumption == Talks!Assumptions

NoFiles ==
  /\ v2 = Absent /\ v1 = Absent /\ v2aside = Absent /\ v1aside = Absent
  /\ draft = Absent /\ command = Absent /\ step = "idle"
  /\ loaded = Talks!Empty /\ migrates = FALSE
  /\ harms = 0 /\ mishaps = 0 /\ ends = 0
  /\ promised = Talks!NoPromises /\ deleted = {} /\ first = Absent

HostInit ==
  /\ Init
  /\ \/ subject = "core book" /\ NoFiles
     \/ subject = "conversations" /\ Talks!Init

HostNext ==
  /\ UNCHANGED subject
  /\ \/ subject = "core book" /\ Next /\ UNCHANGED fileVars
     \/ subject = "conversations" /\ Talks!Next /\ UNCHANGED vars

HostSpec == HostInit /\ [][HostNext]_hostVars

-----------------------------------------------------------------------------
(* What commands have confirmed is in the file, and what they have deleted *)
(* is not (see ConversationFile).                                          *)
FileFollowsCommands == Talks!FileFollowsCommands

(* The first damaged file is kept (see ConversationFile).                  *)
FirstDamageKept == Talks!FirstDamageKept
=============================================================================
