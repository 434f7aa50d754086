-------------------------- MODULE ProviderPresets --------------------------
(***************************************************************************)
(* The provider presets and credential profiles of the user interface:     *)
(* what App (apps/desktop-ui/src/main.tsx) keeps of them, the files and    *)
(* the credential store on the host, and the renewal of the runtime which  *)
(* follows a change.  Every operation reads the state App keeps, computes  *)
(* the next one, saves it, and only then keeps it; nothing prevents a      *)
(* second operation meanwhile, or one before the startup has loaded        *)
(* anything, as the settings are shown at any time.                        *)
(*                                                                         *)
(* A preset is its identifier and the credential profile it names; address *)
(* and model are left out.  A credential profile and its secret go by the  *)
(* one name they share.  Which preset of a list comes first is left open.  *)
(*                                                                         *)
(* The host performs a command in steps of its own: a save writes a        *)
(* temporary file (left out, nobody reads it), removes the file that is    *)
(* there, and renames.  It may fail before each of them and the program    *)
(* may end there, and an answer reaches App any time after it was given.   *)
(*                                                                         *)
(* promised, missing, overlapped and unstarted are no state of the         *)
(* program.  They record what the user was told is saved, which files a    *)
(* save has removed and none has put back, whether operations have come    *)
(* into each other's way, and whether the last renewal failed.             *)
(***************************************************************************)
EXTENDS Naturals, Sequences

CONSTANTS Presets,      \* identifiers of presets
          Migrated,     \* the identifier the migration gives its preset
          Credentials,  \* identifiers of credential profiles
          Configurations, \* credentials that the configuration of an older
                        \* version may name, NewChoice for no configuration
          Callers,      \* operations of the user that may be under way at once
          Startup,      \* the effect that starts the application
          None,         \* null or undefined
          NewChoice,    \* "__new__", an entry of the choice of credentials
          MaxRuntimes,  \* bound: runtimes there may be at once
          MaxOperations, \* bound: operations of the user
          MaxOverlapping, \* bound: the same once some have overlapped
          MaxFaults,    \* bound: commands and starts that fail
          MaxCrashes    \* bound: ends of the program

ASSUME PresetsAssumption ==
    /\ Migrated \in Presets
    /\ Startup \notin Callers
    /\ None \notin Presets \cup Credentials \cup {NewChoice}
    /\ NewChoice \notin Credentials
    /\ Configurations \subseteq Credentials \cup {None, NewChoice}
    /\ MaxRuntimes \in Nat \ {0}
    /\ MaxOperations \in Nat
    /\ MaxOverlapping \in Nat
    /\ MaxFaults \in Nat
    /\ MaxCrashes \in Nat

VARIABLES
    legacy,        \* the configuration of an older version: its credential
    presetFile,    \* provider-presets-v1.json, None when there is no file
    profileFile,   \* credential-profiles-v1.json
    secrets,       \* credentials whose secret the credential store holds
    presetState,   \* providerPresetStateRef
    profileState,  \* credentialProfileStateRef
    loaded,        \* the startup has set the two
    leftover,      \* credential of a draft whose preset was the last one
    foundation,    \* foundationRef: the runtime in use, 0 for none
    running,       \* runtimes that were started and not stopped
    serves,        \* what the runtime in use was started with
    calls,         \* the operations under way, each at its await
    queue,         \* their commands to the host, which takes one at a time
    operations, faults, crashes,
    promised, missing, overlapped, unstarted

hostVars == <<legacy, presetFile, profileFile, secrets>>
refVars == <<presetState, profileState, loaded, leftover>>
runtimeVars == <<foundation, running, serves, unstarted>>
countVars == <<operations, faults, crashes>>
historyVars == <<promised, missing, overlapped>>
presetsVars == <<hostVars, refVars, runtimeVars, calls, queue, countVars,
                 historyVars>>

-----------------------------------------------------------------------------
Everyone == Callers \cup {Startup}
CredentialChoices == Credentials \cup {None, NewChoice}
NoLegacy == NewChoice  \* no such configuration
NoOne == [p \in {} |-> None]
NoPresets == [of |-> NoOne, active |-> None]

\* A list of presets and the active one, which is among them.
PresetLists ==
    {s \in [of : UNION {[D -> CredentialChoices] : D \in SUBSET Presets},
            active : Presets \cup {None}] :
        s.active \in DOMAIN s.of \cup {None}}

\* A file that is not there is told from any content.
ASSUME NoFileAssumption ==
    /\ \A s \in PresetLists : s # None
    /\ \A profiles \in SUBSET Credentials : profiles # None

Idle == [pc |-> "idle"]

Put(of, p, x) == [q \in DOMAIN of \cup {p} |-> IF q = p THEN x ELSE of[q]]
Drop(of, p) == [q \in DOMAIN of \ {p} |-> of[q]]
Uses(of, x) == \E p \in DOMAIN of : of[p] = x

\* A preset whose credential profile is not there goes without a credential.
Materialize(of, profiles) ==
    [p \in DOMAIN of |-> IF of[p] \in profiles THEN of[p] ELSE None]

Saved == IF presetFile = None THEN NoOne ELSE presetFile.of
SavedProfiles == IF profileFile = None THEN {} ELSE profileFile

\* The next thing c awaits is a command, or nothing of the host's.
Invokes(c, call) == /\ calls' = [calls EXCEPT ![c] = call]
                    /\ queue' = Append(queue, c)
Goes(c, call) == /\ calls' = [calls EXCEPT ![c] = call]
                 /\ queue' = queue

\* The host has the command of c at hand, and answers it.
Turn(c, pc) == queue # << >> /\ Head(queue) = c /\ calls[c].pc = pc
Answered(c, call) == /\ calls' = [calls EXCEPT ![c] = call]
                     /\ queue' = Tail(queue)

\* Mutant: the runtime in use is left alone.
FaultyRenewing(s, profiles) ==
    [pc |-> "start", state |-> s, profiles |-> profiles]

\* refreshRuntime up to its first await.
Renewing(s, profiles) ==
    IF foundation = 0 THEN [pc |-> "start", state |-> s, profiles |-> profiles]
    ELSE [pc |-> "stop", state |-> s, profiles |-> profiles,
          runtime |-> foundation]

PresetsInit ==
    /\ legacy \in Configurations /\ secrets = {legacy} \cap Credentials
    /\ presetFile = None /\ profileFile = None
    /\ presetState = NoPresets /\ profileState = {} /\ loaded = FALSE
    /\ leftover = None
    /\ foundation = 0 /\ running = {} /\ serves = NoPresets
    /\ calls = [c \in Everyone |->
                    IF c = Startup THEN [pc |-> "loadLegacy"] ELSE Idle]
    /\ queue = <<Startup>>
    /\ operations = 0 /\ faults = 0 /\ crashes = 0
    /\ promised = NoOne /\ missing = {} /\ overlapped = FALSE
    /\ unstarted = FALSE

-----------------------------------------------------------------------------
(***************************************************************************)
(* Operations of the user, up to their first command.                      *)
(***************************************************************************)
Begin(c, call) ==
    /\ calls[c] = Idle
    /\ Invokes(c, call)
    /\ overlapped' = \/ overlapped \/ ~loaded
                     \/ \E d \in Everyone : calls[d] # Idle
    /\ operations < IF overlapped' THEN MaxOverlapping ELSE MaxOperations
    /\ operations' = operations + 1
    /\ promised' = IF overlapped' THEN NoOne ELSE promised
    /\ UNCHANGED <<hostVars, refVars, runtimeVars, faults, crashes, missing>>

Saving(p, next, renew) ==
    [pc |-> "savePresets", preset |-> p, next |-> next, renew |-> renew]

\* Save, and Save & activate.  The choice of the credential lists "__new__".
SavePreset(c) ==
    \E p \in Presets, x \in profileState \cup {None, NewChoice},
       activate \in BOOLEAN :
       Begin(c, Saving(p,
            [of |-> Put(presetState.of, p, x),
             active |-> IF activate THEN p ELSE presetState.active],
            activate \/ presetState.active = p))

\* Save as new preset takes the credential of the draft, not the chosen one.
DraftCredentials ==
    {None} \cup {presetState.of[p] : p \in DOMAIN presetState.of}
           \cup (IF DOMAIN presetState.of = {} THEN {leftover} ELSE {})

SaveAsNew(c) ==
    \E p \in Presets \ DOMAIN presetState.of, x \in DraftCredentials :
       Begin(c, Saving(p, [presetState EXCEPT !.of = Put(@, p, x)], FALSE))

ActivatePreset(c) ==
    \E p \in DOMAIN presetState.of :
       Begin(c, Saving(p, [presetState EXCEPT !.active = p], TRUE))

\* Who is active after p is gone.
Successors(p) ==
    IF presetState.active # p THEN {presetState.active}
    ELSE IF DOMAIN presetState.of = {p} THEN {None}
    ELSE DOMAIN presetState.of \ {p}

DeletePreset(c) ==
    \E p \in DOMAIN presetState.of : \E a \in Successors(p) :
       Begin(c, Saving(p, [of |-> Drop(presetState.of, p), active |-> a],
                       TRUE))

\* An identifier with the time of day in it.
Fresh(x) ==
    /\ x \notin secrets \cup profileState \cup {legacy, leftover}
    /\ ~Uses(presetState.of, x) /\ ~Uses(Saved, x) /\ x \notin SavedProfiles
    /\ \A d \in Everyone :
          /\ calls[d].pc \in {"setSecret", "secretSet", "verify",
                             "secretVerified", "deleteSecret", "secretDeleted"}
                => calls[d].credential # x
          /\ calls[d].pc \in {"saveProfiles", "profilesSaved"}
                => x \notin calls[d].next

CreateCredential(c) ==
    \E x \in Credentials :
       Fresh(x) /\ Begin(c, [pc |-> "setSecret", credential |-> x])

\* Mutant: nobody asks who uses the credential.
FaultyDeleteCredential(c) ==
    \E x \in profileState :
       Begin(c, [pc |-> "deleteSecret", credential |-> x])

DeleteCredential(c) ==
    \E x \in profileState :
       /\ ~Uses(presetState.of, x)
       /\ Begin(c, [pc |-> "deleteSecret", credential |-> x])

-----------------------------------------------------------------------------
(***************************************************************************)
(* The host.  A save of either file removes it, if it is there, and        *)
(* renames the temporary file into its place.                              *)
(***************************************************************************)
PresetSaves == {"savePresets", "migratePresets", "fixActive"}
ProfileSaves == {"saveProfiles", "migrateProfiles"}

\* The await an answered command takes its operation to.
Settled == [savePresets |-> "presetsSaved", migratePresets |-> "presetsMigrated",
            fixActive |-> "activeFixed", saveProfiles |-> "profilesSaved",
            migrateProfiles |-> "profilesMigrated", setSecret |-> "secretSet",
            deleteSecret |-> "secretDeleted", verify |-> "secretVerified",
            exists |-> "secretsAsked"]

Settles(c) == Answered(c, [calls[c] EXCEPT !.pc = Settled[@]])

HostRemovesPresets(c) ==
    /\ \E pc \in PresetSaves : Turn(c, pc)
    /\ presetFile # None
    /\ presetFile' = None /\ missing' = missing \cup {"presets"}
    /\ UNCHANGED <<legacy, profileFile, secrets, refVars, runtimeVars, calls,
                   queue, countVars, promised, overlapped>>

HostRenamesPresets(c) ==
    /\ \E pc \in PresetSaves : Turn(c, pc)
    /\ presetFile = None
    /\ presetFile' = calls[c].next /\ missing' = missing \ {"presets"}
    /\ Settles(c)
    /\ UNCHANGED <<legacy, profileFile, secrets, refVars, runtimeVars,
                   countVars, promised, overlapped>>

HostRemovesProfiles(c) ==
    /\ \E pc \in ProfileSaves : Turn(c, pc)
    /\ profileFile # None
    /\ profileFile' = None /\ missing' = missing \cup {"profiles"}
    /\ UNCHANGED <<legacy, presetFile, secrets, refVars, runtimeVars, calls,
                   queue, countVars, promised, overlapped>>

HostRenamesProfiles(c) ==
    /\ \E pc \in ProfileSaves : Turn(c, pc)
    /\ profileFile = None
    /\ profileFile' = IF calls[c].pc = "saveProfiles" THEN calls[c].next
                      ELSE calls[c].profiles
    /\ missing' = missing \ {"profiles"}
    /\ Settles(c)
    /\ UNCHANGED <<legacy, presetFile, secrets, refVars, runtimeVars,
                   countVars, promised, overlapped>>

HostSetsSecret(c) ==
    /\ Turn(c, "setSecret")
    /\ secrets' = secrets \cup {calls[c].credential}
    /\ Settles(c)
    /\ UNCHANGED <<legacy, presetFile, profileFile, refVars, runtimeVars,
                   countVars, historyVars>>

HostDeletesSecret(c) ==
    /\ Turn(c, "deleteSecret")
    /\ secrets' = secrets \ {calls[c].credential}
    /\ Settles(c)
    /\ UNCHANGED <<legacy, presetFile, profileFile, refVars, runtimeVars,
                   countVars, historyVars>>

\* The operation ends when the secret that was set is not found.
HostFindsSecret(c) ==
    /\ Turn(c, "verify")
    /\ IF calls[c].credential \in secrets THEN Settles(c) ELSE Answered(c, Idle)
    /\ UNCHANGED <<hostVars, refVars, runtimeVars, countVars, historyVars>>

HostFindsSecrets ==
    /\ Turn(Startup, "exists")
    /\ Settles(Startup)
    /\ UNCHANGED <<hostVars, refVars, runtimeVars, countVars, historyVars>>

HostLoadsLegacy ==
    /\ Turn(Startup, "loadLegacy")
    /\ Answered(Startup, [pc |-> "legacyLoaded", legacy |-> legacy])
    /\ UNCHANGED <<hostVars, refVars, runtimeVars, countVars, historyVars>>

\* loadProviderConfigurationSafely answers without a configuration.
HostCannotLoadLegacy ==
    /\ Turn(Startup, "loadLegacy")
    /\ faults < MaxFaults /\ faults' = faults + 1
    /\ Answered(Startup, [pc |-> "legacyLoaded", legacy |-> NoLegacy])
    /\ UNCHANGED <<hostVars, refVars, runtimeVars, operations, crashes,
                   historyVars>>

HostLoadsProfiles ==
    /\ Turn(Startup, "loadProfiles")
    /\ Answered(Startup, [pc |-> "profilesLoaded",
                          legacy |-> calls[Startup].legacy,
                          profiles |-> SavedProfiles])
    /\ UNCHANGED <<hostVars, refVars, runtimeVars, countVars, historyVars>>

HostLoadsPresets ==
    /\ Turn(Startup, "loadPresets")
    /\ Answered(Startup, [pc |-> "presetsLoaded",
                          legacy |-> calls[Startup].legacy,
                          profiles |-> calls[Startup].profiles,
                          presets |-> presetFile])
    /\ UNCHANGED <<hostVars, refVars, runtimeVars, countVars, historyVars>>

\* A command is refused: the operation ends there.  A save that has removed
\* the file and cannot rename leaves none.
CommandFails(c) ==
    /\ queue # << >> /\ Head(queue) = c
    /\ calls[c].pc \notin {"loadLegacy", "exists"}
    /\ faults < MaxFaults /\ faults' = faults + 1
    /\ Answered(c, Idle)
    /\ UNCHANGED <<hostVars, refVars, runtimeVars, operations, crashes,
                   historyVars>>

-----------------------------------------------------------------------------
(***************************************************************************)
(* The answers reach the operations of the user, which go on.              *)
(***************************************************************************)
PresetsSaved(c) ==
    /\ calls[c].pc = "presetsSaved"
    /\ LET p == calls[c].preset
           next == calls[c].next
       IN  /\ presetState' = next
           /\ leftover' = IF DOMAIN next.of = {} /\ p \in DOMAIN presetState.of
                          THEN presetState.of[p] ELSE None
           /\ promised' = IF overlapped THEN promised
                          ELSE IF p \in DOMAIN next.of
                          THEN Put(promised, p, next.of[p])
                          ELSE Drop(promised, p)
           /\ Goes(c, IF calls[c].renew THEN Renewing(next, profileState)
                      ELSE Idle)
    /\ UNCHANGED <<hostVars, profileState, loaded, runtimeVars, countVars,
                   missing, overlapped>>

SecretSet(c) ==
    /\ calls[c].pc = "secretSet"
    /\ Invokes(c, [calls[c] EXCEPT !.pc = "verify"])
    /\ UNCHANGED <<hostVars, refVars, runtimeVars, countVars, historyVars>>

SecretVerified(c) ==
    /\ calls[c].pc = "secretVerified"
    /\ Invokes(c, [pc |-> "saveProfiles",
                   next |-> profileState \cup {calls[c].credential}])
    /\ UNCHANGED <<hostVars, refVars, runtimeVars, countVars, historyVars>>

SecretDeleted(c) ==
    /\ calls[c].pc = "secretDeleted"
    /\ Invokes(c, [pc |-> "saveProfiles",
                   next |-> profileState \ {calls[c].credential}])
    /\ UNCHANGED <<hostVars, refVars, runtimeVars, countVars, historyVars>>

ProfilesSaved(c) ==
    /\ calls[c].pc = "profilesSaved"
    /\ profileState' = calls[c].next
    /\ Goes(c, Idle)
    /\ UNCHANGED <<hostVars, presetState, loaded, leftover, runtimeVars,
                   countVars, historyVars>>

-----------------------------------------------------------------------------
(***************************************************************************)
(* They reach the startup.                                                 *)
(***************************************************************************)
LegacyLoaded ==
    /\ calls[Startup].pc = "legacyLoaded"
    /\ Invokes(Startup, [calls[Startup] EXCEPT !.pc = "loadProfiles"])
    /\ UNCHANGED <<hostVars, refVars, runtimeVars, countVars, historyVars>>

ProfilesLoaded ==
    /\ calls[Startup].pc = "profilesLoaded"
    /\ Invokes(Startup, [calls[Startup] EXCEPT !.pc = "loadPresets"])
    /\ UNCHANGED <<hostVars, refVars, runtimeVars, countVars, historyVars>>

\* The startup keeps what it has loaded and renews the runtime.
Enter(s, profiles) ==
    /\ presetState' = s /\ profileState' = profiles /\ loaded' = TRUE
    /\ Goes(Startup, Renewing(s, profiles))
    /\ UNCHANGED leftover

\* It asks for every secret before that.
AskSecrets(s, profiles) ==
    IF profiles = {} THEN Enter(s, profiles)
    ELSE /\ Invokes(Startup, [pc |-> "exists", next |-> s,
                              profiles |-> profiles])
         /\ UNCHANGED refVars

\* Presets of which none is active get an active one.
ChooseActive(s, profiles) ==
    IF s.active # None \/ DOMAIN s.of = {} THEN AskSecrets(s, profiles)
    ELSE /\ \E p \in DOMAIN s.of :
              Invokes(Startup, [pc |-> "fixActive",
                                next |-> [s EXCEPT !.active = p],
                                profiles |-> profiles])
         /\ UNCHANGED refVars

\* Mutant: the migration is repeated with every start.
FaultyMigrates(presets, old) == old # NoLegacy

Migrates(presets, old) == presets = None /\ old # NoLegacy

PresetsLoaded ==
    /\ calls[Startup].pc = "presetsLoaded"
    /\ LET profiles == calls[Startup].profiles
           presets == calls[Startup].presets
           old == calls[Startup].legacy
       IN  IF Migrates(presets, old)
           THEN /\ Invokes(Startup,
                     [pc |-> "migrateProfiles", preset |-> Migrated,
                      next |-> [of |-> Put(NoOne, Migrated, old),
                                active |-> Migrated],
                      profiles |-> profiles \cup ({old} \ {None})])
                /\ UNCHANGED refVars
           ELSE ChooseActive(IF presets = None THEN NoPresets ELSE presets,
                             profiles)
    /\ UNCHANGED <<hostVars, runtimeVars, countVars, historyVars>>

ProfilesMigrated ==
    /\ calls[Startup].pc = "profilesMigrated"
    /\ Invokes(Startup, [calls[Startup] EXCEPT !.pc = "migratePresets"])
    /\ UNCHANGED <<hostVars, refVars, runtimeVars, countVars, historyVars>>

PresetsMigrated ==
    /\ calls[Startup].pc = "presetsMigrated"
    /\ promised' =
           IF overlapped THEN promised
           ELSE Put(promised, Migrated, calls[Startup].next.of[Migrated])
    /\ AskSecrets(calls[Startup].next, calls[Startup].profiles)
    /\ UNCHANGED <<hostVars, runtimeVars, countVars, missing, overlapped>>

ActiveFixed ==
    /\ calls[Startup].pc = "activeFixed"
    /\ AskSecrets(calls[Startup].next, calls[Startup].profiles)
    /\ UNCHANGED <<hostVars, runtimeVars, countVars, historyVars>>

SecretsAsked ==
    /\ calls[Startup].pc = "secretsAsked"
    /\ Enter(calls[Startup].next, calls[Startup].profiles)
    /\ UNCHANGED <<hostVars, runtimeVars, countVars, historyVars>>

-----------------------------------------------------------------------------
(***************************************************************************)
(* The renewal of the runtime, and the end of the program.                 *)
(***************************************************************************)
RuntimeStopped(c) ==
    /\ calls[c].pc = "stop"
    /\ running' = running \ {calls[c].runtime}
    /\ calls' = [calls EXCEPT ![c] = [pc |-> "start", state |-> @.state,
                                      profiles |-> @.profiles]]
    /\ UNCHANGED <<hostVars, refVars, foundation, serves, unstarted, queue,
                   countVars, historyVars>>

Unused(r) ==
    /\ r \notin running \cup {foundation}
    /\ \A c \in Everyone : calls[c].pc = "stop" => calls[c].runtime # r

RuntimeStarted(c) ==
    /\ calls[c].pc = "start"
    /\ \E r \in 1..MaxRuntimes :
          /\ Unused(r) /\ \A q \in 1..(r - 1) : ~Unused(q)
          /\ foundation' = r /\ running' = running \cup {r}
    /\ serves' = [of |-> Materialize(calls[c].state.of, calls[c].profiles),
                  active |-> calls[c].state.active]
    /\ unstarted' = FALSE
    /\ calls' = [calls EXCEPT ![c] = Idle]
    /\ UNCHANGED <<hostVars, refVars, queue, countVars, historyVars>>

\* The characters cannot be loaded, for instance.
StartFails(c) ==
    /\ calls[c].pc = "start"
    /\ faults < MaxFaults /\ faults' = faults + 1
    /\ unstarted' = TRUE
    /\ calls' = [calls EXCEPT ![c] = Idle]
    /\ UNCHANGED <<hostVars, refVars, foundation, running, serves, queue,
                   operations, crashes, historyVars>>

\* Presets whose save was sent and whose answer has not reached App.
Unanswered ==
    {calls[c].preset : c \in {d \in Everyone :
        calls[d].pc \in {"savePresets", "presetsSaved", "migratePresets",
                         "presetsMigrated"}}}

\* The files stay as they are at that moment: without one that was removed.
\* What was promised stays promised, unless nothing is on file any more.
Crash ==
    /\ crashes < MaxCrashes /\ crashes' = crashes + 1
    /\ presetState' = NoPresets /\ profileState' = {} /\ loaded' = FALSE
    /\ leftover' = None
    /\ foundation' = 0 /\ running' = {} /\ serves' = NoPresets
    /\ unstarted' = FALSE
    /\ calls' = [c \in Everyone |->
                    IF c = Startup THEN [pc |-> "loadLegacy"] ELSE Idle]
    /\ queue' = <<Startup>>
    /\ promised' =
           IF overlapped \/ "presets" \in missing THEN Saved
           ELSE [p \in (DOMAIN promised \ Unanswered)
                        \cup (DOMAIN Saved \cap Unanswered) |->
                    IF p \in Unanswered THEN Saved[p] ELSE promised[p]]
    /\ missing' = {} /\ overlapped' = FALSE
    /\ UNCHANGED <<hostVars, operations, faults>>

UserStep(c) == \/ SavePreset(c) \/ SaveAsNew(c) \/ ActivatePreset(c)
               \/ DeletePreset(c) \/ CreateCredential(c) \/ DeleteCredential(c)
UserGoesOn(c) == \/ PresetsSaved(c) \/ SecretSet(c) \/ SecretVerified(c)
                 \/ SecretDeleted(c) \/ ProfilesSaved(c)
StartupGoesOn == \/ LegacyLoaded \/ ProfilesLoaded \/ PresetsLoaded
                 \/ ProfilesMigrated \/ PresetsMigrated
                 \/ ActiveFixed \/ SecretsAsked
HostReads == \/ HostLoadsLegacy \/ HostCannotLoadLegacy \/ HostLoadsProfiles
             \/ HostLoadsPresets \/ HostFindsSecrets
HostStep(c) == \/ HostRemovesPresets(c) \/ HostRenamesPresets(c)
               \/ HostRemovesProfiles(c) \/ HostRenamesProfiles(c)
               \/ HostSetsSecret(c) \/ HostDeletesSecret(c)
               \/ HostFindsSecret(c) \/ CommandFails(c)

PresetsNext ==
    \/ \E c \in Callers : UserStep(c) \/ UserGoesOn(c)
    \/ StartupGoesOn
    \/ HostReads
    \/ \E c \in Everyone : \/ HostStep(c) \/ RuntimeStopped(c)
                           \/ RuntimeStarted(c) \/ StartFails(c)
    \/ Crash

PresetsSpec == PresetsInit /\ [][PresetsNext]_presetsVars

-----------------------------------------------------------------------------
(***************************************************************************)
(* Properties.                                                             *)
(***************************************************************************)
PresetsTypeOK ==
    /\ legacy \in CredentialChoices /\ secrets \subseteq Credentials
    /\ presetFile \in PresetLists \cup {None}
    /\ profileFile \in (SUBSET Credentials) \cup {None}
    /\ presetState \in PresetLists /\ profileState \subseteq Credentials
    /\ loaded \in BOOLEAN /\ leftover \in CredentialChoices
    /\ foundation \in 0..MaxRuntimes /\ running \subseteq 1..MaxRuntimes
    /\ serves \in PresetLists
    /\ DOMAIN calls = Everyone /\ queue \in Seq(Everyone)
    /\ missing \subseteq {"presets", "profiles"}
    /\ \A c \in Everyone :
          calls[c].pc \in PresetSaves \cup {"presetsSaved", "presetsMigrated",
                                            "activeFixed", "migrateProfiles",
                                            "profilesMigrated", "exists",
                                            "secretsAsked"}
              => calls[c].next \in PresetLists

\* Of a preset with credential x, {x}, and of one that is not there {}.
Entry(of, p) == {of[q] : q \in DOMAIN of \cap {p}}

\* The file holds the presets the user was told are saved, each with the
\* credential it was saved with, and no other, or what a save holds whose
\* answer App has yet to see: none is lost or comes back, also over a restart,
\* a command refused before the file was touched, or an interrupted migration.
\* Three things lose one.  Operations that overlap or come before the startup
\* has loaded; and the window in which a save has removed the file and not yet
\* renamed the new one into its place.  A rename refused there leaves no file
\* until the next save, which writes all of them again, as App has kept them;
\* and when the program ends first they are all lost, and the promise starts
\* anew with nothing.
FileHoldsConfirmed ==
    ~overlapped /\ "presets" \notin missing =>
        \A p \in Presets :
            \/ Entry(Saved, p) = Entry(promised, p)
            \/ \E c \in Everyone :
                  /\ calls[c].pc \in {"presetsSaved", "presetsMigrated"}
                  /\ calls[c].preset = p
                  /\ Entry(Saved, p) = Entry(calls[c].next.of, p)

\* What is on file, or would be had no save been stopped halfway.
Kept == IF "presets" \in missing THEN presetState.of ELSE Saved
KeptProfiles == IF "profiles" \in missing THEN profileState ELSE SavedProfiles

\* Unless operations overlap, no secret is deleted that a preset on file
\* uses, also when the deletion stops halfway and is tried again.
SecretsInUseStay ==
    [][\A x \in secrets \ secrets' : overlapped \/ ~Uses(Kept, x)]_presetsVars

\* When nothing is under way and the last renewal did not fail, the runtime
\* in use runs, whatever overlapped before.  If nothing did, it is the only
\* one, and was started with the active preset as it is on file, with its
\* credential exactly if there is a profile of it; of a file that a refused
\* rename has taken away, as App keeps it.
Quiet == loaded /\ ~unstarted /\ \A c \in Everyone : calls[c] = Idle

RuntimeServesActive ==
    /\ Quiet => foundation \in running
    /\ Quiet /\ ~overlapped
        => /\ running = {foundation}
           /\ LET a == presetState.active
              IN  /\ serves.active = a
                  /\ a # None => /\ a \in DOMAIN Kept
                                 /\ serves.of[a] =
                                      Materialize(Kept, KeptProfiles)[a]

=============================================================================
