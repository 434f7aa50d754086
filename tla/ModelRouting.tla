---------------------------- MODULE ModelRouting ----------------------------
(***************************************************************************)
(* Which model a request names and which provider gets it: buildRequest    *)
(* and the call after it in core/src/chat-session.ts, and the resolution   *)
(* of providers in runtime/bootstrap/src (index.ts and                     *)
(* provider-configuration.ts), for both of the runtime's calls, stream and  *)
(* chat.  The session asks a preset, or a provider,  *)
(* for its model and awaits the answer; then it sends the request to the   *)
(* preset of the profile, or to the active one, which it reads once more.  *)
(* Meanwhile the user saves another profile, or other presets, for which   *)
(* the interface starts another runtime.                                   *)
(*                                                                         *)
(* Of a configuration the model keeps whether the address and the timeout  *)
(* are accepted, the credential's presence, the model and what the server  *)
(* may list.  The 60 seconds for which a provider remembers a listing are  *)
(* left out: what is remembered is one of the listings that were possible. *)
(*                                                                         *)
(* Definitions whose name begins with Faulty are defective variants of the *)
(* definition that follows them.  No action uses them: they are there to   *)
(* show that the properties tell the two apart.                            *)
(***************************************************************************)
EXTENDS FiniteSets

CONSTANTS
  Profiles, \* model profiles: [model, preset, provider], each may be None
  Setups,   \* runtimes: [presets, active, base]; presets is a function to
            \* configurations [sound, enabled, credential, model, lists], base
            \* a configuration or None
  Models,   \* names of models
  None      \* absent

VARIABLES
  streamed, \* the runtime offers stream; who uses the module says so
  at,      \* "idle"; "choosing", "asking", "asked", "sent"; then "done"
  profile, \* ChatSessionController.modelProfile
  setup,   \* the runtime the interface refers to
  default, \* the model the interface has passed to the run
  own,     \* the profile buildRequest has read
  asked,   \* whom it awaits: a preset, a provider or None
  offers,  \* the answers that are possible
  request, \* [model, provider] of the request
  preset,  \* the preset it was sent to, or None
  server,  \* the provider that gets it, or None
  altered  \* history: profile or runtime were changed meanwhile

vars == <<at, profile, setup, default, own, asked, offers, request, preset,
          server, altered>>

Real == "openai-compatible"
Fake == "fake.chat"
FakeModel == "fake-chat"

Or(x, y) == IF x = None THEN y ELSE x

-----------------------------------------------------------------------------
(* The runtime.                                                            *)

(* activeProviderId: the base configuration is enabled and valid, which a  *)
(* preset's needs not be.                                                  *)
Usable(c) == c # None /\ c.enabled /\ c.sound /\ c.credential /\ c.model # None

ActiveModel(s) == IF Usable(s.base) THEN s.base.model ELSE FakeModel

(* The chat providers of the registry, of which the first one registered   *)
(* is the fake one.                                                        *)
Registered(s) == {Fake} \cup (IF Usable(s.base) THEN {Real} ELSE {})

(* listModels names some models, or none when it fails or times out: the   *)
(* first, or else the configured one.                                      *)
Listed(lists, otherwise) == lists \cup {otherwise}

(* buildProviderForDiscovery: neither model nor credential are needed.     *)
Discoverable(c) == c.sound

ModelsForPreset(s, p) ==
  IF p \notin DOMAIN s.presets THEN {FakeModel}
  ELSE LET c == s.presets[p] IN
       Listed(IF Discoverable(c) THEN c.lists ELSE {}, Or(c.model, FakeModel))

ModelsForProvider(s, id) ==
  CASE id = Fake -> {FakeModel}
    [] id = Real /\ Real \in Registered(s) -> Listed(s.base.lists, ActiveModel(s))
    [] OTHER -> {ActiveModel(s)}

(* buildProviderForPreset, for a configuration that has got the model of   *)
(* the request; it need not be enabled nor have a credential.              *)
Buildable(c, model) == c.sound /\ model # None

(* stream: with a preset, a provider of its own is made from the preset's  *)
(* configuration and no other will do; without one the registry is asked,  *)
(* for the request's provider or for the first.                            *)
Resolve(s, p, r) ==
  IF p # None
  THEN IF p \in DOMAIN s.presets /\ Buildable(s.presets[p], r.model)
       THEN Real ELSE None
  ELSE IF Or(r.provider, Fake) \in Registered(s) THEN Or(r.provider, Fake) ELSE None

(* chat, which a session calls that has no stream: the same, except that a *)
(* request without a provider goes to the one the configuration selects.   *)
ActiveProvider(s) == IF Usable(s.base) THEN Real ELSE Fake

ResolveChat(s, p, r) ==
  Resolve(s, p, [r EXCEPT !.provider = Or(@, ActiveProvider(s))])

-----------------------------------------------------------------------------
(* The session.                                                            *)

Compose(model) ==
  /\ request' = [model |-> Or(own'.model, model), provider |-> own'.provider]
  /\ at' = "asked"

FaultyChoose ==
  /\ at = "choosing"
  /\ own' = profile
  /\ LET p == Or(setup.active, profile.preset) IN
     CASE profile.model = None /\ p # None ->
            /\ at' = "asking"
            /\ asked' = p /\ offers' = ModelsForPreset(setup, p)
            /\ UNCHANGED request
       [] profile.model = None /\ p = None /\ profile.provider # None ->
            /\ at' = "asking"
            /\ asked' = profile.provider
            /\ offers' = ModelsForProvider(setup, profile.provider)
            /\ UNCHANGED request
       [] OTHER -> Compose(default) /\ UNCHANGED <<asked, offers>>
  /\ UNCHANGED <<profile, setup, default, preset, server, altered>>

(* buildRequest up to its await, or to its end when there is none.  The    *)
(* runtime asked is the one of this moment, and answers for it.            *)
Choose ==
  /\ at = "choosing"
  /\ own' = profile
  /\ LET p == Or(profile.preset, setup.active) IN
     CASE profile.model = None /\ p # None ->
            /\ at' = "asking"
            /\ asked' = p /\ offers' = ModelsForPreset(setup, p)
            /\ UNCHANGED request
       [] profile.model = None /\ p = None /\ profile.provider # None ->
            /\ at' = "asking"
            /\ asked' = profile.provider
            /\ offers' = ModelsForProvider(setup, profile.provider)
            /\ UNCHANGED request
       [] OTHER -> Compose(default) /\ UNCHANGED <<asked, offers>>
  /\ UNCHANGED <<profile, setup, default, preset, server, altered>>

Offered(model) ==
  /\ at = "asking" /\ model \in offers
  /\ UNCHANGED own
  /\ Compose(model)
  /\ offers' = {}
  /\ UNCHANGED <<profile, setup, default, asked, preset, server, altered>>

(* run goes on: it reads profile and runtime again, for the preset.        *)
Send ==
  /\ at = "asked"
  /\ preset' = Or(profile.preset, setup.active)
  /\ server' = IF streamed THEN Resolve(setup, preset', request)
               ELSE ResolveChat(setup, preset', request)
  /\ at' = "sent"
  /\ UNCHANGED <<profile, setup, default, own, asked, offers, request, altered>>

-----------------------------------------------------------------------------
(* The user.                                                               *)

Pending == at \in {"choosing", "asking", "asked"}

SetModelProfile(p) ==
  /\ Pending /\ p # profile
  /\ profile' = p
  /\ altered' = TRUE
  /\ UNCHANGED <<at, setup, default, own, asked, offers, request, preset, server>>

RenewRuntime(s) ==
  /\ Pending /\ s # setup
  /\ setup' = s
  /\ altered' = TRUE
  /\ UNCHANGED <<at, profile, default, own, asked, offers, request, preset, server>>

-----------------------------------------------------------------------------
(* No request is being made any more.                                      *)
Blank(stage) ==
  /\ at' = stage
  /\ profile' = None /\ setup' = None /\ default' = None /\ own' = None
  /\ asked' = None /\ offers' = {} /\ request' = None /\ preset' = None
  /\ server' = None /\ altered' = FALSE

Init ==
  /\ at = "idle"
  /\ profile = None /\ setup = None /\ default = None /\ own = None
  /\ asked = None /\ offers = {} /\ request = None /\ preset = None
  /\ server = None /\ altered = FALSE

(* A request is to be made: with the profile and the runtime of now, and   *)
(* the model which was the active one when the run began.                  *)
Start(p, s, model) ==
  /\ at = "idle"
  /\ at' = "choosing"
  /\ profile' = p /\ setup' = s /\ default' = model
  /\ UNCHANGED <<own, asked, offers, request, preset, server, altered>>

(* The steps that wait for no more than a listing of models, which has a   *)
(* timeout.                                                                *)
OwnStep ==
  \/ Choose
  \/ \E model \in offers : Offered(model)
  \/ Send

Next ==
  \/ OwnStep
  \/ \E p \in Profiles : SetModelProfile(p)
  \/ \E s \in Setups : RenewRuntime(s)

-----------------------------------------------------------------------------
(* Properties.                                                             *)

(* A request that is sent names the model of its profile, if that has one. *)
(* Unless profile or runtime were changed while the model was asked for,   *)
(* it goes to the preset of the profile, or to the active one, and names a *)
(* model that this very preset lists or is configured with; without presets *)
(* it goes to the provider that was asked.  And a preset that cannot be    *)
(* used is refused: a request with a preset never ends up with the fake    *)
(* provider.  ("pinned Model Profile uses its provider preset" and "pinned *)
(* preset supplies discovered model",                                      *)
(* tests/integration/model-profile-runtime.integration.test.ts:67 and 79.) *)
ModelFitsDestination ==
  at = "sent" =>
    /\ own.model # None => request.model = own.model
    /\ preset # None => server # Fake
    /\ ~altered =>
         /\ preset = IF profile.preset # None THEN profile.preset ELSE setup.active
         /\ preset # None /\ own.model = None =>
              \/ request.model \in {FakeModel}
                 /\ (preset \notin DOMAIN setup.presets
                       \/ setup.presets[preset].model = None)
              \/ /\ preset \in DOMAIN setup.presets
                 /\ request.model \in setup.presets[preset].lists
                                        \cup {setup.presets[preset].model}
         /\ preset = None /\ asked # None => server \in {asked, None}
=============================================================================
