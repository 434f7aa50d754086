--------------------------- MODULE SecurityProofs ---------------------------
(***************************************************************************)
(* Proofs about what guards the program's actions and its credentials:     *)
(* the action broker with its scopes, for any invocations, tools,          *)
(* identities and rules, then the provider presets, for any presets and    *)
(* credentials.  The two share no state.                                   *)
(*                                                                         *)
(* The invariant of the broker says of every call what it has passed by    *)
(* the stage it has reached, and of every result that it tells what became *)
(* of the driver.                                                          *)
(***************************************************************************)
EXTENDS ScopedBroker, ProviderPresets, FiniteSetTheorems, SequenceTheorems,
        WellFoundedInduction, TLAPS

Before == {"none", "identity", "target", "foreground", "confirmation", "driver"}

\* What the checks that need no await have found.
Known(c) ==
  /\ Identities[asked[c].actor].trusted
  /\ ToolOf(c).capability \in Identities[asked[c].actor].capabilities

\* The permission was there at some moment since the call was made.
Allowed(c) ==
  /\ asked[c].target.kind = ToolOf(c).kind
  /\ \E n \in since[c]..Len(rules) : Permitted(SubSeq(rules, 1, n), asked[c])

Passed(c) ==
  /\ stage[c] \in {"target", "foreground", "confirmation", "driver"} => Known(c)
  /\ stage[c] \in {"foreground", "confirmation", "driver"} => Allowed(c)
  /\ stage[c] \in {"confirmation", "driver"} => "foreground" \in granted[c]
  /\ stage[c] = "driver" /\ NeedsConfirmation(ToolOf(c)) =>
       "confirmation" \in granted[c]
  /\ drove[c] # "not" =>
       /\ Known(c) /\ Allowed(c) /\ "foreground" \in granted[c]
       /\ NeedsConfirmation(ToolOf(c)) => "confirmation" \in granted[c]

Honest(c) ==
  /\ stage[c] \in Before => drove[c] = "not"
  /\ stage[c] = "postcondition" => drove[c] = "fulfilled"
  /\ stage[c] = "audit" \/ outcome[c] = "fulfilled" =>
       /\ result[c].status # "none"
       /\ result[c].status = "denied" <=> drove[c] = "not"
       /\ result[c].status = "success" <=> drove[c] = "fulfilled"

Entries(c) == {i \in DOMAIN audit : audit[i].call = c}

Recorded(c) ==
  /\ outcome[c] # "none" => stage[c] = "done"
  /\ outcome[c] # "fulfilled" => Entries(c) = {}
  /\ outcome[c] = "fulfilled" =>
       \E i \in DOMAIN audit :
         Entries(c) = {i} /\ audit[i].status = result[c].status

Inv ==
  /\ TypeOK
  /\ \A c \in Calls :
       since[c] <= Len(rules) /\ Passed(c) /\ Honest(c) /\ Recorded(c)

-----------------------------------------------------------------------------
(* Helpers.                                                                *)

\* Nothing is objected to a request of a trusted actor with the capability.
LEMMA NoObjection ==
  ASSUME NEW request, Objection(request) = "none"
  PROVE  /\ Identities[request.actor].trusted
         /\ Tools[request.tool].capability
              \in Identities[request.actor].capabilities
  BY DEF Objection

\* An objection is one of the codes.
LEMMA ObjectionIsCode ==
  ASSUME NEW request
  PROVE  Objection(request) \in Codes
  BY DEF Objection, Codes

\* What check allows is permitted by the rules there are.
LEMMA DecisionPermits ==
  ASSUME NEW list \in Seq(Rules), NEW request,
         Decision(list, request.actor, Tools[request.tool], request.target)
  PROVE  Permitted(list, request)
  <1> DEFINE tool == Tools[request.tool]
             F == Fitting(list, request.actor, tool, request.target)
  <1>1. PICK i \in F : list[i].allow /\ \A j \in F : j <= i
    BY DEF Decision
  <1>2. \A j \in DOMAIN list : j > i => j \notin F
    <2>1. DOMAIN list \subseteq Nat
      OBVIOUS
    <2>2. i \in DOMAIN list
      BY DEF Fitting
    <2> HIDE DEF F
    <2> QED BY <1>1, <2>1, <2>2
  <1> QED BY <1>1, <1>2 DEF Fitting, Permitted

\* A permission that has been there once is not forgotten.
LEMMA AllowedIsKept ==
  ASSUME Inv, NEW c \in Calls, Allowed(c), NEW rule \in Rules,
         rules' = Append(rules, rule), UNCHANGED <<asked, since>>
  PROVE  Allowed(c)'
  <1>1. PICK n \in since[c]..Len(rules) : Permitted(SubSeq(rules, 1, n), asked[c])
    BY DEF Allowed
  <1>2. since[c] \in Nat /\ rules \in Seq(Rules) /\ Len(rules) \in Nat
    BY DEF Inv, TypeOK
  <1>3. SubSeq(rules', 1, n) = SubSeq(rules, 1, n)
    BY <1>2
  <1>4. n \in since'[c]..Len(rules')
    BY <1>2
  <1>5. Permitted(SubSeq(rules', 1, n), asked'[c])
    BY <1>1, <1>3
  <1> QED BY <1>4, <1>5 DEF Allowed, ToolOf

\* A step of one call that adds no rule leaves to the others what they have.
LEMMA OthersAreKept ==
  ASSUME Inv, NEW c \in Calls, NEW d \in Calls, d # c,
         UNCHANGED <<rules, audit>>,
         asked'[d] = asked[d], stage'[d] = stage[d], result'[d] = result[d],
         outcome'[d] = outcome[d], since'[d] = since[d],
         granted'[d] = granted[d], drove'[d] = drove[d]
  PROVE  since'[d] <= Len(rules') /\ Passed(d)' /\ Honest(d)' /\ Recorded(d)'
  <1>1. Passed(d)'
    BY DEF Inv, Passed, Known, Allowed, ToolOf
  <1>2. Honest(d)'
    BY DEF Inv, Honest
  <1>3. Recorded(d)'
    BY DEF Inv, Recorded, Entries
  <1> QED BY <1>1, <1>2, <1>3 DEF Inv

-----------------------------------------------------------------------------
(* Steps.                                                                  *)

\* A call is made: nothing is claimed of it yet, and the rules are counted.
LEMMA ExecuteStep ==
  ASSUME Inv, NEW c \in Calls, NEW request \in Requests, Execute(c, request)
  PROVE  Inv'
  <1> USE DEF Inv
  <1>1. TypeOK'
    BY DEF TypeOK, Execute, Move, Stages, services
  <1>2. stage'[c] = "identity" /\ drove'[c] = "not" /\ since'[c] = Len(rules)
        /\ UNCHANGED <<rules, audit, result, outcome, drove>> /\ outcome[c] = "none"
    BY DEF TypeOK, Execute, Move, services, Honest, Before, Recorded
  <1>3. Passed(c)' /\ Honest(c)' /\ Recorded(c)' /\ since'[c] <= Len(rules')
    BY <1>2 DEF Passed, Honest, Recorded, Entries, Before, TypeOK
  <1>4. \A d \in Calls \ {c} :
          since'[d] <= Len(rules') /\ Passed(d)' /\ Honest(d)' /\ Recorded(d)'
    BY OthersAreKept DEF TypeOK, Execute, Move, services
  <1> QED BY <1>1, <1>3, <1>4
\* A step of a call before its driver has run, which may grant something.
LEMMA CheckStep ==
  ASSUME Inv, NEW c \in Calls, stage[c] \in Before, drove' = drove,
         UNCHANGED <<asked, outcome, services, since>>,
         TypeOK', \A d \in Calls \ {c} : stage'[d] = stage[d]
                                         /\ granted'[d] = granted[d]
                                         /\ result'[d] = result[d],
         Passed(c)',
         \/ stage'[c] \in Before
         \/ stage'[c] = "audit" /\ result'[c].status = "denied"
  PROVE  Inv'
  <1> USE DEF Inv
  <1>1. Honest(c)'
    BY DEF Honest, Before, Recorded
  <1>2. outcome[c] = "none"
    BY DEF TypeOK, Recorded, Before
  <1>3. Recorded(c)' /\ since'[c] <= Len(rules')
    BY <1>2 DEF Recorded, Entries, services
  <1>4. \A d \in Calls \ {c} :
          since'[d] <= Len(rules') /\ Passed(d)' /\ Honest(d)' /\ Recorded(d)'
    BY OthersAreKept DEF services
  <1> QED BY <1>1, <1>3, <1>4

\* A denial before the driver has run keeps the invariant.
LEMMA DenialStep ==
  ASSUME Inv, NEW c \in Calls, NEW code \in Codes, stage[c] \in Before,
         Conclude(c, stage[c], Result("denied", code)),
         UNCHANGED <<asked, outcome, services, history>>
  PROVE  Inv'
  <1>1. TypeOK'
    BY DEF Inv, TypeOK, Conclude, Move, Result, Stages, services, history
  <1>2. stage'[c] = "audit" /\ result'[c].status = "denied" /\ drove[c] = "not"
    BY DEF Inv, TypeOK, Conclude, Move, Result, Honest
  <1>3. Passed(c)'
    BY <1>2 DEF Passed, history
  <1>4. \A d \in Calls \ {c} : stage'[d] = stage[d] /\ granted'[d] = granted[d]
                               /\ result'[d] = result[d]
    BY DEF Inv, TypeOK, Conclude, Move, history
  <1> QED BY <1>1, <1>2, <1>3, <1>4, CheckStep DEF history

\* A request without an objection comes from a trusted actor with the capability.
LEMMA IdentityStep ==
  ASSUME Inv, NEW c \in Calls, IdentityResolved(c)
  PROVE  Inv'
  <1>1. CASE Objection(asked[c]) = "none"
    <2>1. stage[c] = "identity" /\ stage' = [stage EXCEPT ![c] = "target"]
          /\ UNCHANGED <<asked, result, outcome, services, history>>
      BY <1>1 DEF IdentityResolved, Move
    <2>2. TypeOK' /\ stage'[c] = "target"
      BY <2>1 DEF Inv, TypeOK, Stages, services, history
    <2>3. Known(c)' /\ drove'[c] = "not"
      BY <1>1, <2>1, NoObjection DEF Known, ToolOf, history, Inv, Honest, Before
    <2>4. Passed(c)'
      BY <2>2, <2>3 DEF Passed
    <2>5. \A d \in Calls \ {c} : stage'[d] = stage[d] /\ granted'[d] = granted[d]
                                 /\ result'[d] = result[d]
      BY <2>1 DEF Inv, TypeOK, history
    <2> QED BY <2>1, <2>2, <2>4, <2>5, CheckStep DEF history, Before
  <1>2. CASE Objection(asked[c]) # "none"
    <2>1. Objection(asked[c]) \in Codes
      BY ObjectionIsCode
    <2>2. stage[c] \in Before
          /\ Conclude(c, stage[c], Result("denied", Objection(asked[c])))
          /\ UNCHANGED <<asked, outcome, services, history>>
      BY <1>2 DEF IdentityResolved, Before
    <2> QED BY <2>1, <2>2, DenialStep
  <1> QED BY <1>1, <1>2

\* A permission granted now is one of those since the call was made.
LEMMA TargetStep ==
  ASSUME Inv, NEW c \in Calls, TargetResolved(c)
  PROVE  Inv'
  <1> DEFINE may == /\ asked[c].target.kind = ToolOf(c).kind
                    /\ Decision(rules, asked[c].actor, ToolOf(c), asked[c].target)
  <1>0. stage[c] = "target" /\ stage[c] \in Before
        /\ UNCHANGED <<asked, outcome, services, history>>
    BY DEF TargetResolved, Before
  <1>1. CASE may
    <2>1. stage' = [stage EXCEPT ![c] = "foreground"] /\ result' = result
      BY <1>1 DEF TargetResolved, Move
    <2>2. TypeOK' /\ stage'[c] = "foreground"
      BY <1>0, <2>1 DEF Inv, TypeOK, Stages, services, history
    <2>3. Permitted(rules, asked[c])
      BY <1>1, DecisionPermits DEF Inv, TypeOK, ToolOf
    <2>4. rules = SubSeq(rules, 1, Len(rules)) /\ Len(rules) \in since[c]..Len(rules)
      BY DEF Inv, TypeOK
    <2>5. Allowed(c) /\ Known(c)
      BY <1>0, <1>1, <2>3, <2>4 DEF Allowed, Inv, Passed
    <2>6. Passed(c)'
      BY <1>0, <2>2, <2>5 DEF Passed, Known, Allowed, ToolOf, history, services,
                              Inv, Honest
    <2>7. \A d \in Calls \ {c} : stage'[d] = stage[d] /\ granted'[d] = granted[d]
                                 /\ result'[d] = result[d]
      BY <1>0, <2>1 DEF Inv, TypeOK, history
    <2> QED BY <1>0, <2>2, <2>6, <2>7, CheckStep DEF history, Before
  <1>2. CASE ~may
    <2>1. CASE asked[c].target.kind # ToolOf(c).kind
      <3>1. Conclude(c, "target", Result("denied", "SCOPE_DENIED"))
        BY <2>1 DEF TargetResolved
      <3> QED BY <1>0, <3>1, DenialStep DEF Codes
    <2>2. CASE asked[c].target.kind = ToolOf(c).kind
      <3>1. Conclude(c, "target", Result("denied", "PERMISSION_DENIED"))
        BY <1>2, <2>2 DEF TargetResolved
      <3> QED BY <1>0, <3>1, DenialStep DEF Codes
    <2> QED BY <2>1, <2>2
  <1> QED BY <1>1, <1>2

\* A target that cannot be resolved ends the call before the driver.
LEMMA RefusalStep ==
  ASSUME Inv, NEW c \in Calls, TargetRefused(c)
  PROVE  Inv'
  <1>1. stage[c] = "target"
        /\ Conclude(c, "target", Result("denied", "TARGET_RESOLUTION_FAILED"))
        /\ UNCHANGED <<asked, outcome, services, history>>
    BY DEF TargetRefused, Conclude, Move
  <1> QED BY <1>1, DenialStep DEF Before, Codes

\* The foreground check and the confirmation, when they grant.
LEMMA GrantStep ==
  ASSUME Inv, NEW c \in Calls,
         \/ ForegroundVerified(c, TRUE)
         \/ Confirmed(c, TRUE)
  PROVE  Inv'
  <1> USE DEF Inv
  <1> DEFINE gift == IF stage[c] = "foreground" THEN "foreground" ELSE "confirmation"
  <1>1. /\ stage[c] \in {"foreground", "confirmation"}
        /\ stage' = [stage EXCEPT ![c] =
                       IF stage[c] = "foreground" /\ NeedsConfirmation(ToolOf(c))
                       THEN "confirmation" ELSE "driver"]
        /\ granted' = [granted EXCEPT ![c] = @ \cup {gift}]
        /\ UNCHANGED <<asked, result, outcome, services, since, drove>>
    <2>1. CASE ForegroundVerified(c, TRUE)
      BY <2>1 DEF ForegroundVerified, Move
    <2>2. CASE Confirmed(c, TRUE)
      BY <2>2 DEF Confirmed, Move
    <2> QED BY <2>1, <2>2
  <1>2. stage'[c] \in {"confirmation", "driver"} /\ granted'[c] = granted[c] \cup {gift}
    BY <1>1 DEF TypeOK
  <1>3. TypeOK'
    BY <1>1 DEF TypeOK, Stages, services
  <1>4. UNCHANGED <<rules, audit>> /\ drove[c] = "not"
    BY <1>1 DEF services, Honest, Before
  <1>5. Known(c)' /\ Allowed(c)'
    BY <1>1, <1>4 DEF Passed, Known, Allowed, ToolOf
  <1>6. Passed(c)'
    <2>1. stage[c] = "foreground" => "foreground" \in granted'[c]
      BY <1>2
    <2>2. stage[c] = "confirmation" =>
            {"foreground", "confirmation"} \subseteq granted'[c]
      BY <1>2 DEF Passed
    <2>3. stage[c] = "foreground" /\ stage'[c] = "driver" =>
            ~NeedsConfirmation(ToolOf(c)')
      BY <1>1 DEF TypeOK, ToolOf
    <2> QED BY <1>1, <1>2, <1>4, <1>5, <2>1, <2>2, <2>3 DEF Passed
  <1>7. \A d \in Calls \ {c} : stage'[d] = stage[d] /\ granted'[d] = granted[d]
                               /\ result'[d] = result[d]
    BY <1>1 DEF TypeOK
  <1> QED BY <1>1, <1>2, <1>3, <1>6, <1>7, CheckStep DEF Before

\* A check that fails ends the call before the driver.
LEMMA CheckDenies ==
  ASSUME Inv, NEW c \in Calls,
         \/ ForegroundVerified(c, FALSE)
         \/ Confirmed(c, FALSE)
  PROVE  Inv'
  <1>1. CASE ForegroundVerified(c, FALSE)
    <2>1. Conclude(c, stage[c], Result("denied", "FOREGROUND_DENIED"))
          /\ stage[c] \in Before /\ UNCHANGED <<asked, outcome, services, history>>
      BY <1>1 DEF ForegroundVerified, Before, history
    <2> QED BY <2>1, DenialStep DEF Codes
  <1>2. CASE Confirmed(c, FALSE)
    <2>1. Conclude(c, stage[c], Result("denied", "CONFIRMATION_REQUIRED"))
          /\ stage[c] \in Before /\ UNCHANGED <<asked, outcome, services, history>>
      BY <1>2 DEF Confirmed, Before, history
    <2> QED BY <2>1, DenialStep DEF Codes
  <1> QED BY <1>1, <1>2

\* The driver and its postcondition.
LEMMA DriverStep ==
  ASSUME Inv, NEW c \in Calls,
         \/ DriverFulfils(c)
         \/ DriverFails(c)
         \/ \E holds \in BOOLEAN : PostconditionChecked(c, holds)
  PROVE  Inv'
  <1> USE DEF Inv
  <1>1. /\ stage[c] \in {"driver", "postcondition"}
        /\ UNCHANGED <<asked, outcome, services, since, granted>>
    BY DEF DriverFulfils, DriverFails, PostconditionChecked, Conclude, Move
  <1>2. \/ /\ stage' = [stage EXCEPT ![c] = "postcondition"] /\ result' = result
           /\ drove' = [drove EXCEPT ![c] = "fulfilled"]
        \/ /\ stage' = [stage EXCEPT ![c] = "audit"]
           /\ result' = [result EXCEPT ![c] = Result("success", "none")]
           /\ drove' = [drove EXCEPT ![c] = "fulfilled"]
        \/ /\ stage' = [stage EXCEPT ![c] = "audit"]
           /\ \E code \in Codes : result' = [result EXCEPT ![c] = Result("error", code)]
           /\ drove' = [drove EXCEPT ![c] = "failed"]
    <2>1. CASE DriverFulfils(c)
      BY <2>1 DEF DriverFulfils, Conclude, Move
    <2>2. CASE DriverFails(c)
      BY <2>2 DEF DriverFails, Conclude, Move, Codes
    <2>3. CASE PostconditionChecked(c, TRUE)
      <3>1. drove[c] = "fulfilled"
        BY <2>3 DEF PostconditionChecked, Conclude, Move, Honest
      <3>2. [drove EXCEPT ![c] = @] = [drove EXCEPT ![c] = "fulfilled"]
        BY <3>1
      <3> QED BY <2>3, <3>2 DEF PostconditionChecked, Conclude, Move
    <2>4. CASE PostconditionChecked(c, FALSE)
      BY <2>4 DEF PostconditionChecked, Conclude, Move, Codes
    <2> QED BY <2>1, <2>2, <2>3, <2>4
  <1>3. TypeOK'
    <2>1. stage' \in [Calls -> Stages]
          /\ drove' \in [Calls -> {"not", "fulfilled", "failed"}]
      BY <1>2 DEF TypeOK, Stages
    <2>2. \A code \in Codes :
            {Result("success", "none"), Result("error", code)}
              \subseteq [status : {"none", "success", "denied", "error"}, code : Codes]
      BY DEF Result, Codes
    <2>3. result' \in [Calls -> [status : {"none", "success", "denied", "error"},
                                code : Codes]]
      <3>1. \E r \in [status : {"none", "success", "denied", "error"}, code : Codes] :
              result' = result \/ result' = [result EXCEPT ![c] = r]
        <4>1. "none" \in Codes
          BY DEF Codes
        <4>2. CASE \E code \in Codes :
                     result' = [result EXCEPT ![c] = Result("error", code)]
          BY <2>2, <4>2
        <4>3. CASE result' \in {result, [result EXCEPT ![c] = Result("success", "none")]}
          BY <2>2, <4>1, <4>3
        <4> QED BY <1>2, <4>2, <4>3
      <3> QED BY <3>1 DEF TypeOK
    <2> QED BY <1>1, <2>1, <2>3 DEF TypeOK, services
  <1>4. UNCHANGED <<rules, audit>>
    BY <1>1 DEF services
  <1>5. /\ Known(c)' /\ Allowed(c)' /\ "foreground" \in granted'[c]
        /\ NeedsConfirmation(ToolOf(c))' => "confirmation" \in granted'[c]
    <2>1. /\ Known(c) /\ Allowed(c) /\ "foreground" \in granted[c]
          /\ NeedsConfirmation(ToolOf(c)) => "confirmation" \in granted[c]
      BY <1>1 DEF Passed, Honest
    <2> QED BY <1>1, <1>4, <2>1 DEF Known, Allowed, ToolOf
  <1>6. stage'[c] \in {"postcondition", "audit"}
    BY <1>2 DEF TypeOK
  <1>7. Passed(c)'
    BY <1>5, <1>6 DEF Passed
  <1>8. outcome[c] = "none"
    BY <1>1 DEF TypeOK, Recorded
  <1>9. Honest(c)'
    BY <1>1, <1>2, <1>6, <1>8 DEF TypeOK, Honest, Result, Before
  <1>10. Recorded(c)' /\ since'[c] <= Len(rules')
    BY <1>1, <1>4, <1>8 DEF Recorded, Entries
  <1>11. \A d \in Calls \ {c} :
           since'[d] <= Len(rules') /\ Passed(d)' /\ Honest(d)' /\ Recorded(d)'
    BY <1>1, <1>2, <1>4, OthersAreKept DEF TypeOK
  <1> QED BY <1>3, <1>7, <1>9, <1>10, <1>11

\* Steps that settle a call.
LEMMA RecordedStep ==
  ASSUME Inv, NEW c \in Calls, AuditRecorded(c)
  PROVE  Inv'
  <1> USE DEF Inv
  <1> DEFINE entry == [call |-> c, status |-> result[c].status]
             m == Len(audit) + 1
  <1>1. /\ stage[c] = "audit" /\ stage' = [stage EXCEPT ![c] = "done"]
        /\ audit' = Append(audit, entry)
        /\ outcome' = [outcome EXCEPT ![c] = "fulfilled"]
        /\ UNCHANGED <<asked, result, rules, since, granted, drove>>
    BY DEF AuditRecorded, Move, history
  <1>2. outcome[c] = "none" /\ Entries(c) = {}
    BY <1>1 DEF TypeOK, Recorded
  <1>3. result[c].status \in {"success", "denied", "error"}
    BY <1>1 DEF TypeOK, Honest
  <1>4. audit \in Seq([call : Calls, status : {"success", "denied", "error"}])
        /\ entry \in [call : Calls, status : {"success", "denied", "error"}]
    BY <1>3 DEF TypeOK
  <1> HIDE DEF entry
  <1>5. audit' \in Seq([call : Calls, status : {"success", "denied", "error"}])
        /\ DOMAIN audit' = DOMAIN audit \cup {m} /\ m \notin DOMAIN audit
        /\ audit'[m] = entry
        /\ \A i \in DOMAIN audit : audit'[i] = audit[i]
    BY <1>1, <1>4
  <1>6. TypeOK'
    BY <1>1, <1>5 DEF TypeOK, Stages
  <1>7. \A d \in Calls : Entries(d)' = Entries(d) \cup (IF d = c THEN {m} ELSE {})
    BY <1>5 DEF Entries, entry
  <1>8. Recorded(c)'
    <2>1. Entries(c)' = {m} /\ m \in DOMAIN audit'
          /\ audit'[m].status = result'[c].status
      BY <1>1, <1>2, <1>5, <1>7 DEF entry
    <2>2. outcome'[c] = "fulfilled" /\ stage'[c] = "done"
      BY <1>1 DEF TypeOK
    <2> QED BY <2>1, <2>2 DEF Recorded
  <1>9. Passed(c)' /\ Honest(c)' /\ since'[c] <= Len(rules')
    BY <1>1 DEF TypeOK, Passed, Honest, Known, Allowed, ToolOf, Before
  <1>10. ASSUME NEW d \in Calls \ {c}
         PROVE  since'[d] <= Len(rules') /\ Passed(d)' /\ Honest(d)' /\ Recorded(d)'
    <2>1. stage'[d] = stage[d] /\ outcome'[d] = outcome[d] /\ Entries(d)' = Entries(d)
      BY <1>1, <1>7, <1>10 DEF TypeOK
    <2>2. Passed(d)' /\ Honest(d)' /\ since'[d] <= Len(rules')
      BY <1>1, <2>1 DEF Passed, Honest, Known, Allowed, ToolOf
    <2>3. Recorded(d)'
      <3>1. CASE outcome[d] = "fulfilled"
        <4>1. PICK i \in DOMAIN audit :
                Entries(d) = {i} /\ audit[i].status = result[d].status
          BY <3>1 DEF Recorded
        <4>2. i \in DOMAIN audit' /\ audit'[i] = audit[i]
          BY <1>5
        <4> QED BY <1>1, <2>1, <4>1, <4>2 DEF Recorded
      <3>2. CASE outcome[d] # "fulfilled"
        BY <2>1, <3>2 DEF Recorded
      <3> QED BY <3>1, <3>2
    <2> QED BY <2>2, <2>3
  <1> QED BY <1>6, <1>8, <1>9, <1>10

\* A rejected call leaves no entry.
LEMMA RejectedStep ==
  ASSUME Inv, NEW c \in Calls, AuditFails(c) \/ ServiceFails(c)
  PROVE  Inv'
  <1> USE DEF Inv
  <1>1. /\ stage[c] \in {"audit", "identity", "foreground", "confirmation"}
        /\ stage' = [stage EXCEPT ![c] = "done"]
        /\ outcome' = [outcome EXCEPT ![c] = "rejected"]
        /\ UNCHANGED <<asked, result, rules, audit, since, granted, drove>>
    BY DEF AuditFails, ServiceFails, Move, services, history
  <1>2. TypeOK'
    BY <1>1 DEF TypeOK, Stages
  <1>3. Passed(c)' /\ Honest(c)' /\ Recorded(c)' /\ since'[c] <= Len(rules')
    <2>1. stage'[c] = "done" /\ outcome'[c] = "rejected" /\ outcome[c] = "none"
      BY <1>1 DEF TypeOK, Recorded
    <2>2. Passed(c)'
      BY <1>1, <2>1 DEF Passed, Known, Allowed, ToolOf
    <2>3. Honest(c)' /\ Recorded(c)'
      BY <1>1, <2>1 DEF Honest, Before, Recorded, Entries
    <2> QED BY <1>1, <2>2, <2>3
  <1>4. \A d \in Calls \ {c} :
          since'[d] <= Len(rules') /\ Passed(d)' /\ Honest(d)' /\ Recorded(d)'
    BY <1>1, OthersAreKept DEF TypeOK
  <1> QED BY <1>2, <1>3, <1>4

\* A rule more takes nothing back that was permitted before it came.
LEMMA RuleStep ==
  ASSUME Inv, NEW rule \in Rules, AddRule(rule)
  PROVE  Inv'
  <1> USE DEF Inv
  <1>1. rules' = Append(rules, rule)
        /\ UNCHANGED <<asked, stage, result, outcome, audit, since, granted, drove>>
    BY DEF AddRule, history
  <1>2. TypeOK' /\ Len(rules') = Len(rules) + 1
    BY <1>1 DEF TypeOK
  <1>3. ASSUME NEW c \in Calls
        PROVE  since'[c] <= Len(rules') /\ Passed(c)' /\ Honest(c)' /\ Recorded(c)'
    <2>1. Allowed(c) => Allowed(c)'
      BY <1>1, AllowedIsKept
    <2>2. Passed(c)'
      BY <1>1, <2>1 DEF Passed, Known, ToolOf
    <2>3. Honest(c)' /\ Recorded(c)'
      BY <1>1 DEF Honest, Recorded, Entries
    <2> QED BY <1>1, <1>2, <2>2, <2>3 DEF TypeOK
  <1> QED BY <1>2, <1>3

-----------------------------------------------------------------------------
(* Theorems.                                                               *)

\* The inductive invariant: what a call has passed at each of its stages.
THEOREM BrokerInvariance == Spec => []Inv
  <1>1. Init => Inv
    <2> SUFFICES ASSUME Init PROVE Inv
      OBVIOUS
    <2>1. TypeOK
      BY DEF Init, TypeOK, NoResult, Stages, Codes
    <2>2. \A c \in Calls : Passed(c) /\ Honest(c) /\ Recorded(c)
      BY DEF Init, Passed, Honest, Recorded, Entries
    <2> QED BY <2>1, <2>2 DEF Inv, Init
  <1>2. Inv /\ [Next]_vars => Inv'
    <2> SUFFICES ASSUME Inv, [Next]_vars PROVE Inv'
      OBVIOUS
    <2>1. CASE UNCHANGED vars
      <3>1. UNCHANGED <<asked, stage, result, outcome, rules, audit, since,
                        granted, drove>>
        BY <2>1 DEF vars, services, history
      <3>2. TypeOK'
        BY <3>1 DEF Inv, TypeOK
      <3>3. ASSUME NEW c \in Calls
            PROVE  Passed(c)' /\ Honest(c)' /\ Recorded(c)'
        <4>1. Passed(c)'
          BY <3>1 DEF Inv, Passed, Known, Allowed, ToolOf
        <4> QED BY <3>1, <4>1 DEF Inv, Honest, Recorded, Entries
      <3> QED BY <3>1, <3>2, <3>3 DEF Inv
    <2>2. ASSUME NEW rule \in Rules, AddRule(rule) PROVE Inv'
      BY <2>2, RuleStep
    <2>3. ASSUME NEW c \in Calls, NEW request \in Requests, Execute(c, request)
          PROVE  Inv'
      BY <2>3, ExecuteStep
    <2>4. ASSUME NEW c \in Calls,
                 \/ IdentityResolved(c)
                 \/ TargetResolved(c) \/ TargetRefused(c)
                 \/ \E yes \in BOOLEAN : ForegroundVerified(c, yes)
                 \/ \E yes \in BOOLEAN : Confirmed(c, yes)
          PROVE  Inv'
      BY <2>4, IdentityStep, TargetStep, RefusalStep, GrantStep, CheckDenies
    <2>5. ASSUME NEW c \in Calls,
                 \/ DriverFulfils(c) \/ DriverFails(c)
                 \/ \E holds \in BOOLEAN : PostconditionChecked(c, holds)
                 \/ AuditRecorded(c) \/ AuditFails(c) \/ ServiceFails(c)
          PROVE  Inv'
      BY <2>5, DriverStep, RecordedStep, RejectedStep
    <2> QED BY <2>1, <2>2, <2>3, <2>4, <2>5 DEF Next
  <1> QED BY <1>1, <1>2, PTL DEF Spec

\* The variables of the broker keep their types.
THEOREM BrokerTypeCorrect == Spec => []TypeOK
  <1>1. Inv => TypeOK
    BY DEF Inv
  <1> QED BY <1>1, BrokerInvariance, PTL

\* No driver runs for a call that has not passed every check.
THEOREM RunsOnlyClearedHolds == Spec => []RunsOnlyCleared
  <1>1. Inv => RunsOnlyCleared
    BY DEF Inv, RunsOnlyCleared, Passed, Known, Allowed, ToolOf, NeedsConfirmation
  <1> QED BY <1>1, BrokerInvariance, PTL

\* A call that is fulfilled is in the audit once, and truly.
THEOREM RecordedOnceHolds == Spec => []RecordedOnce
  <1>1. Inv => RecordedOnce
    <2> SUFFICES ASSUME Inv, NEW c \in Calls
                 PROVE  /\ Cardinality(Entries(c)) =
                             IF outcome[c] = "fulfilled" THEN 1 ELSE 0
                        /\ \A i \in Entries(c) :
                             /\ audit[i].status = result[c].status
                             /\ audit[i].status = "denied" <=> drove[c] = "not"
                             /\ audit[i].status = "success" <=> drove[c] = "fulfilled"
      BY DEF RecordedOnce, Entries
    <2>1. CASE outcome[c] = "fulfilled"
      <3>1. PICK i \in DOMAIN audit :
              Entries(c) = {i} /\ audit[i].status = result[c].status
        BY <2>1 DEF Inv, Recorded
      <3> QED BY <2>1, <3>1, FS_Singleton DEF Inv, Honest
    <2>2. CASE outcome[c] # "fulfilled"
      BY <2>2, FS_EmptySet DEF Inv, Recorded
    <2> QED BY <2>1, <2>2
  <1> QED BY <1>1, BrokerInvariance, PTL

-----------------------------------------------------------------------------
(* Normalized paths.                                                       *)

\* A set of numbers that has 0, and with each number the next, has all.
LEMMA Induct ==
  \A T \in SUBSET Nat : 0 \in T /\ (\A n \in T : n + 1 \in T) => T = Nat
<1> SUFFICES ASSUME NEW T \in SUBSET Nat, 0 \in T, \A n \in T : n + 1 \in T, T # Nat
             PROVE FALSE
  OBVIOUS
<1> DEFINE R == OpToRel(<, Nat)
<1>1. IsWellFoundedOn(R, Nat)
  BY NatLessThanWellFounded
<1> DEFINE U == Nat \ T
<1>2. U \subseteq Nat /\ U # {}
  OBVIOUS
<1>3. \E x \in U : \A y \in U : ~ (<<y, x>> \in R)
  <2> HIDE DEF R, U
  <2> QED BY <1>1, <1>2, WFMin
<1>4. \A y, x \in Nat : y < x => <<y, x>> \in R
  BY DEF OpToRel
<1>5. PICK x \in U : \A y \in U : ~ (<<y, x>> \in R)
  BY <1>3
<1>6. x # 0 /\ x - 1 \in Nat /\ x - 1 < x
  <2>1. x \in Nat /\ x \notin T
    OBVIOUS
  <2> QED BY <2>1
<1>7. x - 1 \notin U
  BY <1>4, <1>5, <1>6
<1>8. x - 1 \in T
  BY <1>6, <1>7
<1>9. (x - 1) + 1 \in T
  BY <1>8
<1>10. (x - 1) + 1 = x
  <2>1. x \in Nat
    OBVIOUS
  <2> QED BY <2>1
<1> QED BY <1>9, <1>10

\* The stack before the first part.
Empty(root) == [root |-> root, parts |-> <<>>, leaves |-> FALSE]

\* The stacks after the first parts of a path.
Stacks(after, root, parts, N) ==
  after = [n \in 0..N |-> IF n = 0 THEN Empty(root)
                          ELSE Pushed(after[n - 1], parts[n])]

\* There is a stack after each of the parts.
LEMMA StacksExist ==
  ASSUME NEW root, NEW parts, NEW N \in Nat
  PROVE  \E after : Stacks(after, root, parts, N)
  <1> DEFINE Made(m) == \E after : Stacks(after, root, parts, m)
             T == {m \in Nat : Made(m)}
  <1> USE DEF Stacks
  <1>1. 0 \in T
    <2>1. [n \in 0..0 |-> Empty(root)] = [n \in 0..0 |->
                               IF n = 0 THEN Empty(root)
                               ELSE Pushed([m \in 0..0 |-> Empty(root)][n - 1], parts[n])]
      OBVIOUS
    <2> QED BY <2>1
  <1>2. ASSUME NEW m \in T PROVE m + 1 \in T
    <2>1. PICK after : Stacks(after, root, parts, m)
      OBVIOUS
    <2> DEFINE on == [n \in 0..(m + 1) |->
                        IF n = m + 1 THEN Pushed(after[m], parts[m + 1]) ELSE after[n]]
    <2>2. \A n \in 0..m : on[n] = after[n]
      OBVIOUS
    <2>3. \A n \in 0..(m + 1) :
            on[n] = IF n = 0 THEN Empty(root) ELSE Pushed(on[n - 1], parts[n])
      <3> SUFFICES ASSUME NEW n \in 0..(m + 1)
                   PROVE  on[n] = IF n = 0 THEN Empty(root)
                                  ELSE Pushed(on[n - 1], parts[n])
        OBVIOUS
      <3>1. CASE n = m + 1
        <4>1. on[n] = Pushed(after[m], parts[m + 1]) /\ on[n-1] = after[m]
          BY <3>1, <2>2
        <4> QED BY <3>1, <4>1
      <3>2. CASE n # m + 1 /\ n # 0
        <4>1. n \in 0..m /\ n - 1 \in 0..m
          BY <3>2
        <4>2. on[n] = after[n] /\ on[n - 1] = after[n - 1]
          BY <4>1, <2>2
        <4>3. after[n] = Pushed(after[n - 1], parts[n])
          BY <2>1, <3>2, <4>1
        <4> QED BY <4>2, <4>3, <3>2
      <3>3. CASE n = 0
        <4>1. 0 \in 0..m
          OBVIOUS
        <4>2. after[0] = Empty(root)
          BY <2>1, <4>1
        <4> QED BY <4>1, <4>2, <2>2, <3>3
      <3> QED BY <3>1, <3>2, <3>3
    <2>4. on = [n \in 0..(m + 1) |-> IF n = 0 THEN Empty(root)
                                     ELSE Pushed(on[n - 1], parts[n])]
      <3>1. on = [n \in 0..(m + 1) |-> on[n]]
        OBVIOUS
      <3> HIDE DEF on
      <3> QED BY <3>1, <2>3
    <2>5. Made(m + 1)
      <3> HIDE DEF on
      <3> QED BY <2>4
    <2> QED BY <2>5
  <1>3. T = Nat
    <2> HIDE DEF T
    <2>1. T \in SUBSET Nat
      BY DEF T
    <2> QED BY <1>1, <1>2, <2>1, Induct
  <1> QED BY <1>3

\* The stacks after each of the parts of a path.
LEMMA NormalizedParts ==
  ASSUME NEW path, Len(path.parts) \in Nat
  PROVE  \E after :
           /\ after[0] = Empty(path.root)
           /\ \A n \in 1..Len(path.parts) : after[n] = Pushed(after[n - 1], path.parts[n])
           /\ Normalized(path) = after[Len(path.parts)]
  <1> DEFINE N == Len(path.parts)
             after == CHOOSE g : Stacks(g, path.root, path.parts, N)
  <1>1. Stacks(after, path.root, path.parts, N)
    BY StacksExist
  <1>2. Normalized(path) = after[N]
    BY DEF Normalized, Empty, Stacks
  <1> HIDE DEF after
  <1>3. \A n \in 0..N : after[n] = IF n = 0 THEN Empty(path.root)
                               ELSE Pushed(after[n - 1], path.parts[n])
    BY <1>1 DEF Stacks
  <1> QED BY <1>2, <1>3
-----------------------------------------------------------------------------
(* Where a path leads.                                                     *)

Entered(parts, n) ==
  {i \in 1..n : IsName(parts[i]) /\ \A j \in i..n : Depth(parts, i, j) > 0}

\* w lists in their order the m directories that were entered and not left.
Lists(w, m, parts, n) ==
  /\ w \in [1..m -> 1..n]
  /\ \A j, k \in 1..m : j < k => w[j] < w[k]
  /\ Entered(parts, n) = {w[k] : k \in 1..m}
  /\ \A k \in 1..m : Depth(parts, w[k], n) = m - k + 1

\* One more part.
LEMMA DepthStep ==
  ASSUME NEW parts, NEW i \in Nat, NEW j \in Nat, i <= j + 1
  PROVE  /\ Depth(parts, i, j) \in Int
         /\ Depth(parts, i, j + 1) =
              IF IsName(parts[j + 1]) THEN Depth(parts, i, j) + 1
              ELSE IF parts[j + 1] = ".." THEN Depth(parts, i, j) - 1
              ELSE Depth(parts, i, j)
  <1> DEFINE Names(k) == {l \in i..k : IsName(parts[l])}
             Ups(k) == {l \in i..k : parts[l] = ".."}
  <1>1. IsFiniteSet(Names(j)) /\ IsFiniteSet(Ups(j))
    <2>1. IsFiniteSet(i..j)
      BY FS_Interval
    <2>2. Names(j) \in SUBSET (i..j) /\ Ups(j) \in SUBSET (i..j)
      OBVIOUS
    <2> HIDE DEF Names, Ups
    <2> QED BY <2>1, <2>2, FS_Subset
  <1>2. Cardinality(Names(j)) \in Nat /\ Cardinality(Ups(j)) \in Nat
    <2> HIDE DEF Names, Ups
    <2> QED BY <1>1, FS_CardinalityType
  <1>3. i..(j + 1) = (i..j) \cup {j + 1}
    OBVIOUS
  <1>4. Names(j + 1) = IF IsName(parts[j + 1]) THEN Names(j) \cup {j + 1} ELSE Names(j)
    BY <1>3
  <1>5. Ups(j + 1) = IF parts[j + 1] = ".." THEN Ups(j) \cup {j + 1} ELSE Ups(j)
    BY <1>3
  <1>6. j + 1 \notin Names(j) /\ j + 1 \notin Ups(j)
    OBVIOUS
  <1>7. /\ Cardinality(Names(j) \cup {j + 1}) = Cardinality(Names(j)) + 1
        /\ Cardinality(Ups(j) \cup {j + 1}) = Cardinality(Ups(j)) + 1
    <2> HIDE DEF Names, Ups
    <2> QED BY <1>1, <1>6, FS_AddElement
  <1>8. \A k : Depth(parts, i, k) = Cardinality(Names(k)) - Cardinality(Ups(k))
    BY DEF Depth
  <1>9. IsName(parts[j + 1]) => parts[j + 1] # ".."
    BY DEF IsName
  <1> HIDE DEF Names, Ups
  <1> QED BY <1>2, <1>4, <1>5, <1>7, <1>8, <1>9

\* A directory is entered.
LEMMA DepthAtName ==
  ASSUME NEW parts, NEW i \in Nat, IsName(parts[i])
  PROVE  Depth(parts, i, i) = 1
  <1>1. {k \in i..i : IsName(parts[k])} = {i}
    OBVIOUS
  <1>2. {k \in i..i : parts[k] = ".."} = {}
    <2>1. parts[i] # ".."
      BY DEF IsName
    <2> QED BY <2>1
  <1>3. Cardinality({i}) = 1 /\ Cardinality({}) = 0
    BY FS_Singleton, FS_EmptySet
  <1> QED BY <1>1, <1>2, <1>3 DEF Depth

\* What one more part makes of the directories one stands in.
LEMMA EnteredStep ==
  ASSUME NEW parts, NEW n \in Nat
  PROVE  Entered(parts, n + 1) =
           {i \in Entered(parts, n) : Depth(parts, i, n + 1) > 0}
             \cup (IF IsName(parts[n + 1]) THEN {n + 1} ELSE {})
  <1>1. ASSUME NEW i \in 1..n
        PROVE  i \in Entered(parts, n + 1) <=>
                 i \in Entered(parts, n) /\ Depth(parts, i, n + 1) > 0
    <2>1. i..(n + 1) = (i..n) \cup {n + 1}
      OBVIOUS
    <2> QED BY <2>1 DEF Entered
  <1>2. n + 1 \in Entered(parts, n + 1) <=> IsName(parts[n + 1])
    <2>1. (n + 1)..(n + 1) = {n + 1} /\ n + 1 \in 1..(n + 1)
      OBVIOUS
    <2> QED BY <2>1, DepthAtName DEF Entered
  <1>3. /\ Entered(parts, n + 1) \subseteq 1..(n + 1)
        /\ Entered(parts, n) \subseteq 1..n
        /\ 1..(n + 1) = (1..n) \cup {n + 1}
        /\ n + 1 \notin 1..n
    BY DEF Entered
  <1> QED BY <1>1, <1>2, <1>3

\* A name is entered, and the last directory left.
LEMMA ListsStep ==
  ASSUME NEW parts, NEW n \in Nat, NEW m \in Nat, NEW w, Lists(w, m, parts, n)
  PROVE  /\ IsName(parts[n + 1]) =>
              Lists([k \in 1..(m + 1) |-> IF k = m + 1 THEN n + 1 ELSE w[k]],
                    m + 1, parts, n + 1)
         /\ parts[n + 1] = ".." /\ m > 0 =>
              Lists([k \in 1..(m - 1) |-> w[k]], m - 1, parts, n + 1)
         /\ ~IsName(parts[n + 1]) /\ parts[n + 1] # ".." =>
              Lists(w, m, parts, n + 1)
  <1>1. /\ w \in [1..m -> 1..n]
        /\ \A j, k \in 1..m : j < k => w[j] < w[k]
        /\ Entered(parts, n) = {w[k] : k \in 1..m}
        /\ \A k \in 1..m : Depth(parts, w[k], n) = m - k + 1
    BY DEF Lists
  <1>2. \A k \in 1..m :
          Depth(parts, w[k], n + 1) =
            IF IsName(parts[n + 1]) THEN m - k + 2
            ELSE IF parts[n + 1] = ".." THEN m - k
            ELSE m - k + 1
    <2> SUFFICES ASSUME NEW k \in 1..m
                 PROVE Depth(parts, w[k], n + 1) =
                         IF IsName(parts[n + 1]) THEN m - k + 2
                         ELSE IF parts[n + 1] = ".." THEN m - k
                         ELSE m - k + 1
      OBVIOUS
    <2>1. w[k] \in Nat /\ w[k] <= n + 1 /\ Depth(parts, w[k], n) = m - k + 1
      BY <1>1
    <2>2. Depth(parts, w[k], n + 1) =
            IF IsName(parts[n + 1]) THEN Depth(parts, w[k], n) + 1
            ELSE IF parts[n + 1] = ".." THEN Depth(parts, w[k], n) - 1
            ELSE Depth(parts, w[k], n)
      <3> DEFINE i == w[k]
      <3>1. i \in Nat /\ i <= n + 1
        BY <2>1
      <3> HIDE DEF i
      <3>2. Depth(parts, i, n + 1) =
            IF IsName(parts[n + 1]) THEN Depth(parts, i, n) + 1
            ELSE IF parts[n + 1] = ".." THEN Depth(parts, i, n) - 1
            ELSE Depth(parts, i, n)
        BY <3>1, DepthStep
      <3> QED BY <3>2 DEF i
    <2> QED BY <2>1, <2>2
  <1> DEFINE Still == {i \in Entered(parts, n) : Depth(parts, i, n + 1) > 0}
  <1>6. Entered(parts, n + 1) =
          Still \cup (IF IsName(parts[n + 1]) THEN {n + 1} ELSE {})
    BY EnteredStep
  <1>7. \A i : i \in Still <=> \E k \in 1..m : i = w[k] /\ Depth(parts, w[k], n + 1) > 0
    BY <1>1
  <1> HIDE DEF Still
  <1>3. ASSUME IsName(parts[n + 1])
        PROVE Lists([k \in 1..(m + 1) |-> IF k = m + 1 THEN n + 1 ELSE w[k]],
                    m + 1, parts, n + 1)
    <2> DEFINE v == [k \in 1..(m + 1) |-> IF k = m + 1 THEN n + 1 ELSE w[k]]
    <2>1. v[m + 1] = n + 1 /\ \A k \in 1..m : v[k] = w[k]
      OBVIOUS
    <2>2. 1..(m + 1) = (1..m) \cup {m + 1} /\ m + 1 \notin 1..m
      OBVIOUS
    <2>3. v \in [1..(m + 1) -> 1..(n + 1)]
      BY <1>1
    <2> HIDE DEF v
    <2>4. \A j, k \in 1..(m + 1) : j < k => v[j] < v[k]
      <3> SUFFICES ASSUME NEW j \in 1..(m + 1), NEW k \in 1..(m + 1), j < k
                   PROVE  v[j] < v[k]
        OBVIOUS
      <3>1. j \in 1..m /\ v[j] = w[j] /\ w[j] \in 1..n
        BY <1>1, <2>1
      <3>2. CASE k = m + 1
        BY <3>1, <3>2, <2>1
      <3>3. CASE k # m + 1
        <4>1. k \in 1..m /\ v[k] = w[k]
          BY <3>3, <2>1
        <4> QED BY <3>1, <4>1, <1>1
      <3> QED BY <3>2, <3>3
    <2>5. Entered(parts, n + 1) = Entered(parts, n) \cup {n + 1}
      <3>1. \A k \in 1..m : Depth(parts, w[k], n + 1) > 0
        <4> TAKE k \in 1..m
        <4>1. Depth(parts, w[k], n + 1) = (m - k + 1) + 1
          BY <1>2, <1>3
        <4> QED BY <4>1
      <3>2. Still = Entered(parts, n)
        BY <1>1, <1>7, <3>1
      <3> QED BY <1>3, <1>6, <3>2
    <2>6. Entered(parts, n + 1) = {v[k] : k \in 1..(m + 1)}
      BY <1>1, <2>1, <2>2, <2>5
    <2>7. \A k \in 1..(m + 1) : Depth(parts, v[k], n + 1) = (m + 1) - k + 1
      <3>1. Depth(parts, n + 1, n + 1) = 1
        BY <1>3, DepthAtName
      <3> QED BY <1>2, <1>3, <2>1, <2>2, <3>1
    <2> QED BY <2>3, <2>4, <2>6, <2>7 DEF Lists, v
  <1>4. ASSUME parts[n + 1] = "..", m > 0
        PROVE Lists([k \in 1..(m - 1) |-> w[k]], m - 1, parts, n + 1)
    <2> DEFINE v == [k \in 1..(m - 1) |-> w[k]]
    <2>1. \A k \in 1..(m - 1) : v[k] = w[k] /\ k \in 1..m
      OBVIOUS
    <2>2. 1..m = (1..(m - 1)) \cup {m} /\ m \notin 1..(m - 1) /\ m - 1 \in Nat
      BY <1>4
    <2>3. v \in [1..(m - 1) -> 1..(n + 1)]
      BY <1>1, <2>1
    <2> HIDE DEF v
    <2>4. \A j, k \in 1..(m - 1) : j < k => v[j] < v[k]
      BY <1>1, <2>1
    <2>5. ~IsName(parts[n + 1])
      BY <1>4 DEF IsName
    <2>6. \A k \in 1..m : Depth(parts, w[k], n + 1) > 0 <=> k \in 1..(m - 1)
      BY <1>2, <1>4, <2>2, <2>5
    <2>7. Entered(parts, n + 1) = {w[k] : k \in 1..(m - 1)}
      <3>1. \A i : i \in Still <=> \E k \in 1..(m - 1) : i = w[k]
        BY <1>7, <2>1, <2>6
      <3> QED BY <1>6, <2>5, <3>1
    <2>8. Entered(parts, n + 1) = {v[k] : k \in 1..(m - 1)}
      BY <2>1, <2>7
    <2>9. \A k \in 1..(m - 1) : Depth(parts, v[k], n + 1) = (m - 1) - k + 1
      BY <1>2, <1>4, <2>1, <2>5
    <2> QED BY <2>3, <2>4, <2>8, <2>9 DEF Lists, v
  <1>5. ASSUME ~IsName(parts[n + 1]), parts[n + 1] # ".."
        PROVE Lists(w, m, parts, n + 1)
    <2>1. w \in [1..m -> 1..(n + 1)]
      BY <1>1
    <2>2. \A k \in 1..m : Depth(parts, w[k], n + 1) = m - k + 1 /\ m - k + 1 > 0
      BY <1>2, <1>5
    <2>3. Entered(parts, n + 1) = Entered(parts, n)
      <3>1. Still = Entered(parts, n)
        BY <1>1, <1>7, <2>2
      <3> QED BY <1>5, <1>6, <3>1
    <2> QED BY <1>1, <2>1, <2>2, <2>3 DEF Lists
  <1> QED BY <1>3, <1>4, <1>5

FirstOf(w, k) == {w[l] : l \in 1..k}

\* As many places as the list is long.
LEMMA ListCounted ==
  ASSUME NEW m \in Nat, NEW N, NEW w \in [1..m -> 1..N], N \in Nat,
         \A j, k \in 1..m : j < k => w[j] < w[k], NEW k \in 0..m
  PROVE  Cardinality(FirstOf(w, k)) = k
  <1> DEFINE S == {w[l] : l \in 1..k}
             f == [l \in 1..k |-> w[l]]
  <1>1. 1..k \subseteq 1..m
    OBVIOUS
  <1>2. f \in Injection(1..k, S)
    <2>1. f \in [1..k -> S]
      OBVIOUS
    <2>2. ASSUME NEW a \in 1..k, NEW b \in 1..k, a # b PROVE f[a] # f[b]
      <3>1. a \in 1..m /\ b \in 1..m /\ (a < b \/ b < a)
        BY <1>1, <2>2
      <3>2. w[a] \in Nat /\ w[b] \in Nat /\ w[a] # w[b]
        BY <3>1
      <3> QED BY <3>2
    <2> HIDE DEF f, S
    <2> QED BY <2>1, <2>2 DEF Injection, IsInjective
  <1>3. f \in Surjection(1..k, S)
    <2>1. f \in [1..k -> S] /\ \A s \in S : \E l \in 1..k : f[l] = s
      OBVIOUS
    <2> HIDE DEF f, S
    <2> QED BY <2>1 DEF Surjection
  <1>4. ExistsBijection(1..k, S)
    <2> HIDE DEF f, S
    <2> QED BY <1>2, <1>3 DEF ExistsBijection, Bijection
  <1>5. k \in Nat
    OBVIOUS
  <1>6. Cardinality(S) = k
    <2> HIDE DEF S
    <2> QED BY <1>4, <1>5, FS_CountingElements
  <1> QED BY <1>6 DEF FirstOf

\* Where a path leads, by the list of what was entered.
LEMMA LocationListed ==
  ASSUME NEW parts \in Seq(STRING), NEW m \in Nat, NEW w,
         Lists(w, m, parts, Len(parts))
  PROVE  Location(parts) = [k \in 1..m |-> parts[w[k]]]
  <1> DEFINE N == Len(parts)
             E == {i \in DOMAIN parts : IsName(parts[i])
                                        /\ \A j \in i..N : Depth(parts, i, j) > 0}
  <1>1. /\ w \in [1..m -> 1..N] /\ N \in Nat
        /\ \A j, k \in 1..m : j < k => w[j] < w[k]
        /\ E = {w[k] : k \in 1..m}
    <2>1. DOMAIN parts = 1..N /\ N \in Nat
      OBVIOUS
    <2>2. E = Entered(parts, N)
      BY <2>1 DEF Entered
    <2> HIDE DEF E
    <2> QED BY <2>1, <2>2 DEF Lists
  <1>2. Location(parts) = [n \in 1..Cardinality(E) |->
          parts[CHOOSE i \in E : Cardinality({j \in E : j <= i}) = n]]
    BY DEF Location
  <1> HIDE DEF E, N
  <1>6. \A k \in 0..m : Cardinality(FirstOf(w, k)) = k
    BY <1>1, ListCounted
  <1>3. Cardinality(E) = m
    BY <1>1, <1>6 DEF FirstOf
  <1>4. ASSUME NEW k \in 1..m PROVE Cardinality({j \in E : j <= w[k]}) = k
    <2>1. \A l \in 1..m : w[l] <= w[k] <=> l <= k
      <3> SUFFICES ASSUME NEW l \in 1..m PROVE w[l] <= w[k] <=> l <= k
        OBVIOUS
      <3>1. w[l] \in Int /\ w[k] \in Int /\ (l < k \/ l = k \/ k < l)
        BY <1>1
      <3>2. (l < k => w[l] < w[k]) /\ (k < l => w[k] < w[l])
        BY <1>1
      <3> QED BY <3>1, <3>2
    <2>2. {j \in E : j <= w[k]} = FirstOf(w, k)
      BY <1>1, <2>1 DEF FirstOf
    <2>3. Cardinality(FirstOf(w, k)) = k
      BY <1>6
    <2> QED BY <2>2, <2>3, Zenon
  <1>5. ASSUME NEW k \in 1..m
        PROVE (CHOOSE i \in E : Cardinality({j \in E : j <= i}) = k) = w[k]
    <2>1. w[k] \in E
      BY <1>1
    <2>2. ASSUME NEW i \in E, Cardinality({j \in E : j <= i}) = k PROVE i = w[k]
      <3>1. PICK l \in 1..m : i = w[l]
        BY <1>1
      <3> QED BY <1>4, <2>2, <3>1
    <2> QED BY <1>4, <2>1, <2>2
  <1> QED BY <1>2, <1>3, <1>5

\* What the stack holds after n parts: where the path has led so far.
Holds(stack, path, n) ==
  /\ stack \in [root : STRING, parts : Seq(STRING), leaves : BOOLEAN]
  /\ stack.root = path.root
  /\ stack.leaves => stack.parts = <<>>
  /\ ~stack.leaves =>
       \E m \in Nat : \E w :
         /\ Lists(w, m, path.parts, n)
         /\ stack.parts = [k \in 1..m |-> path.parts[w[k]]]

\* One part does to the stack what it does to the place.
LEMMA PushedHolds ==
  ASSUME NEW path \in Paths, NEW n \in Nat, n < Len(path.parts), NEW stack,
         Holds(stack, path, n)
  PROVE  Holds(Pushed(stack, path.parts[n + 1]), path, n + 1)
  <1> DEFINE part == path.parts[n + 1]
             next == Pushed(stack, part)
  <1> SUFFICES Holds(next, path, n + 1)
    OBVIOUS
  <1>1. path.parts \in Seq(STRING) /\ part \in STRING
    BY DEF Paths
  <1>2. /\ stack \in [root : STRING, parts : Seq(STRING), leaves : BOOLEAN]
        /\ stack.root = path.root
    BY DEF Holds
  <1>3. CASE stack.leaves
    BY <1>3, <1>2 DEF Holds, Pushed
  <1>4. CASE ~stack.leaves
    <2>9. PICK m \in Nat : \E w :
            /\ Lists(w, m, path.parts, n)
            /\ stack.parts = [k \in 1..m |-> path.parts[w[k]]]
      BY <1>4 DEF Holds
    <2>1. PICK w : /\ Lists(w, m, path.parts, n)
                   /\ stack.parts = [k \in 1..m |-> path.parts[w[k]]]
      BY <2>9
    <2>2. /\ w \in [1..m -> 1..n] /\ Len(stack.parts) = m
      BY <1>2, <2>1 DEF Lists
    <2>3. CASE part \in {"", "."}
      <3>1. next = stack
        BY <2>3 DEF Pushed
      <3>2. ~IsName(part) /\ part # ".."
        BY <2>3 DEF IsName
      <3>3. Lists(w, m, path.parts, n + 1)
        BY <2>1, <3>2, ListsStep
      <3> QED BY <1>2, <1>4, <2>1, <3>1, <3>3 DEF Holds
    <2>4. CASE part \notin {"", ".", ".."}
      <3> DEFINE v == [k \in 1..(m + 1) |-> IF k = m + 1 THEN n + 1 ELSE w[k]]
      <3>1. next = [stack EXCEPT !.parts = Append(@, part)]
        BY <1>4, <2>4 DEF Pushed
      <3>2. IsName(part)
        BY <2>4 DEF IsName
      <3>3. Lists(v, m + 1, path.parts, n + 1)
        BY <2>1, <3>2, ListsStep
      <3>4. Append(stack.parts, part) = [k \in 1..(m + 1) |-> path.parts[v[k]]]
        <4>1. /\ Append(stack.parts, part) \in Seq(STRING)
              /\ Len(Append(stack.parts, part)) = m + 1
              /\ \A k \in 1..m : Append(stack.parts, part)[k] = stack.parts[k]
              /\ Append(stack.parts, part)[m + 1] = part
          BY <1>1, <1>2, <2>2
        <4>2. \A k \in 1..m : stack.parts[k] = path.parts[v[k]]
          BY <2>1, <2>2
        <4>3. part = path.parts[v[m + 1]]
          OBVIOUS
        <4>4. 1..(m + 1) = (1..m) \cup {m + 1}
          OBVIOUS
        <4> HIDE DEF v, part
        <4> QED BY <4>1, <4>2, <4>3, <4>4
      <3>5. /\ next \in [root : STRING, parts : Seq(STRING), leaves : BOOLEAN]
            /\ next.root = path.root /\ ~next.leaves
            /\ next.parts = Append(stack.parts, part)
        <4> DEFINE longer == Append(stack.parts, part)
        <4>1. longer \in Seq(STRING)
          BY <1>1, <1>2
        <4>2. next = [stack EXCEPT !.parts = longer]
          BY <3>1
        <4> HIDE DEF longer, next
        <4>3. /\ next \in [root : STRING, parts : Seq(STRING), leaves : BOOLEAN]
              /\ next.root = path.root /\ ~next.leaves
              /\ next.parts = longer
          BY <1>2, <1>4, <4>1, <4>2
        <4> QED BY <4>3 DEF longer
      <3> HIDE DEF v, next
      <3> QED BY <3>3, <3>4, <3>5 DEF Holds
    <2>5. CASE part = ".." /\ m > 0
      <3> DEFINE v == [k \in 1..(m - 1) |-> w[k]]
      <3>1. next = [stack EXCEPT !.parts = Front(@)]
        <4>1. stack.parts # <<>>
          BY <2>2, <2>5
        <4> QED BY <1>4, <2>5, <4>1 DEF Pushed
      <3>3. Lists(v, m - 1, path.parts, n + 1)
        BY <2>1, <2>5, ListsStep
      <3>4. Front(stack.parts) \in Seq(STRING)
            /\ Front(stack.parts) = [k \in 1..(m - 1) |-> path.parts[v[k]]]
        <4>1. Front(stack.parts) = SubSeq(stack.parts, 1, m - 1)
          BY <2>2 DEF Front
        <4>2. /\ Front(stack.parts) \in Seq(STRING)
              /\ Len(Front(stack.parts)) = m - 1
              /\ \A k \in 1..(m - 1) : Front(stack.parts)[k] = stack.parts[k]
          BY <1>2, <2>2, <2>5, <4>1
        <4>3. \A k \in 1..(m - 1) : stack.parts[k] = path.parts[v[k]]
          BY <2>1, <2>2
        <4> HIDE DEF v
        <4> QED BY <4>2, <4>3
      <3>5. /\ next \in [root : STRING, parts : Seq(STRING), leaves : BOOLEAN]
            /\ next.root = path.root /\ ~next.leaves
            /\ next.parts = Front(stack.parts)
        BY <1>2, <1>4, <3>1, <3>4
      <3>6. m - 1 \in Nat
        BY <2>5
      <3> HIDE DEF v, next
      <3> QED BY <3>3, <3>4, <3>5, <3>6 DEF Holds
    <2>6. CASE part = ".." /\ m = 0
      <3>1. stack.parts = <<>>
        BY <1>2, <2>2, <2>6
      <3>2. next = [stack EXCEPT !.leaves = TRUE]
        BY <1>4, <2>6, <3>1 DEF Pushed
      <3> QED BY <1>2, <3>1, <3>2 DEF Holds
    <2>7. m > 0 \/ m = 0
      OBVIOUS
    <2> HIDE DEF part, next
    <2>8. part \in {"", "."} \/ part = ".." \/ part \notin {"", ".", ".."}
      OBVIOUS
    <2> QED BY <2>3, <2>4, <2>5, <2>6, <2>7, <2>8
  <1> QED BY <1>3, <1>4

\* The normalized form of a path that stays below its root is where it leads.
LEMMA NormalizedIsLocation ==
  ASSUME NEW path \in Paths
  PROVE  /\ Normalized(path).root = path.root
         /\ Normalized(path).parts \in Seq(STRING)
         /\ IF Normalized(path).leaves THEN Normalized(path).parts = <<>>
            ELSE Normalized(path).parts = Location(path.parts)
  <1> DEFINE N == Len(path.parts)
  <1>1. path.root \in STRING /\ path.parts \in Seq(STRING) /\ N \in Nat
    BY DEF Paths
  <1>2. PICK after :
           /\ after[0] = Empty(path.root)
           /\ \A n \in 1..N : after[n] = Pushed(after[n - 1], path.parts[n])
           /\ Normalized(path) = after[N]
    BY <1>1, NormalizedParts
  <1> DEFINE T == {n \in Nat : n <= N => Holds(after[n], path, n)}
  <1>3. 0 \in T
    <2>1. Empty(path.root) \in [root : STRING, parts : Seq(STRING), leaves : BOOLEAN]
          /\ Empty(path.root).root = path.root /\ ~Empty(path.root).leaves
          /\ Empty(path.root).parts = <<>>
      BY <1>1 DEF Empty
    <2>2. Lists(<<>>, 0, path.parts, 0)
      BY DEF Lists, Entered
    <2>3. <<>> = [k \in 1..0 |-> path.parts[<<>>[k]]]
      OBVIOUS
    <2>4. Holds(Empty(path.root), path, 0)
      BY <2>1, <2>2, <2>3 DEF Holds
    <2> QED BY <1>2, <2>4
  <1>4. ASSUME NEW n \in T PROVE n + 1 \in T
    <2> SUFFICES ASSUME n + 1 <= N PROVE Holds(after[n + 1], path, n + 1)
      OBVIOUS
    <2>1. n \in Nat /\ n < N /\ Holds(after[n], path, n)
      BY <1>1
    <2>2. n + 1 \in 1..N /\ (n + 1) - 1 = n
      BY <1>1, <2>1
    <2>3. after[n + 1] = Pushed(after[n], path.parts[n + 1])
      BY <1>2, <2>2
    <2> QED BY <2>1, <2>3, PushedHolds
  <1>5. T = Nat
    <2>1. T \in SUBSET Nat
      OBVIOUS
    <2> HIDE DEF T
    <2> QED BY <1>3, <1>4, <2>1, Induct
  <1>6. Holds(Normalized(path), path, N)
    <2>1. N \in T
      BY <1>1, <1>5
    <2> QED BY <1>1, <1>2, <2>1
  <1>7. ~Normalized(path).leaves => Normalized(path).parts = Location(path.parts)
    <2> SUFFICES ASSUME ~Normalized(path).leaves
                 PROVE  Normalized(path).parts = Location(path.parts)
      OBVIOUS
    <2>1. PICK m \in Nat : \E w :
            /\ Lists(w, m, path.parts, N)
            /\ Normalized(path).parts = [k \in 1..m |-> path.parts[w[k]]]
      BY <1>6 DEF Holds
    <2>2. PICK w : /\ Lists(w, m, path.parts, N)
                   /\ Normalized(path).parts = [k \in 1..m |-> path.parts[w[k]]]
      BY <2>1
    <2>3. Location(path.parts) = [k \in 1..m |-> path.parts[w[k]]]
      BY <1>1, <2>2, LocationListed
    <2> QED BY <2>2, <2>3
  <1> QED BY <1>6, <1>7 DEF Holds

\* Where a path leads is a sequence, also when it leaves its root.
LEMMA LocationIsSequence ==
  ASSUME NEW parts \in Seq(STRING)
  PROVE  Len(Location(parts)) \in Nat
  <1> DEFINE N == Len(parts)
             E == {i \in DOMAIN parts : IsName(parts[i])
                                        /\ \A j \in i..N : Depth(parts, i, j) > 0}
             Part(n) == parts[CHOOSE i \in E : Cardinality({j \in E : j <= i}) = n]
             m == Cardinality(E)
  <1>1. m \in Nat
    <2>1. IsFiniteSet(1..N) /\ DOMAIN parts = 1..N
      BY FS_Interval
    <2>2. E \in SUBSET (1..N)
      BY <2>1
    <2> HIDE DEF E, N
    <2> QED BY <2>1, <2>2, FS_Subset, FS_CardinalityType
  <1>2. Location(parts) = [n \in 1..m |-> Part(n)]
    BY DEF Location
  <1> HIDE DEF m, Part
  <1>3. Location(parts) \in [1..m -> {Part(n) : n \in 1..m}]
    BY <1>2
  <1>4. Location(parts) \in Seq({Part(n) : n \in 1..m})
    <2> DEFINE S == {Part(n) : n \in 1..m}
    <2>1. Location(parts) \in [1..m -> S]
      BY <1>3
    <2> HIDE DEF S
    <2>2. Location(parts) \in Seq(S)
      BY <1>1, <2>1
    <2> QED BY <2>2 DEF S
  <1> QED BY <1>4

-----------------------------------------------------------------------------
(* What a scope covers.                                                    *)

\* What ends in a sequence lies behind some of its elements.
LEMMA SuffixBehind ==
  ASSUME NEW s \in Seq(STRING), NEW t \in Seq(STRING), IsSuffix(s, t)
  PROVE  \E n \in 0..Len(t) : s = SubSeq(t, n + 1, Len(t))
  <1> DEFINE n == Len(t) - Len(s)
             r == Reverse(s)
             q == Reverse(t)
  <1>1. /\ r \in Seq(STRING) /\ Len(r) = Len(s)
        /\ \A i \in 1..Len(s) : r[i] = s[Len(s) - i + 1]
    BY DEF Reverse
  <1>2. /\ q \in Seq(STRING) /\ Len(q) = Len(t)
        /\ \A i \in 1..Len(t) : q[i] = t[Len(t) - i + 1]
    BY DEF Reverse
  <1>3. Len(r) <= Len(q) /\ SubSeq(r, 1, Len(r)) = SubSeq(q, 1, Len(r))
    BY DEF IsSuffix, IsPrefix
  <1> HIDE DEF r, q
  <1>4. \A i \in 1..Len(s) : r[i] = q[i]
    <2> SUFFICES ASSUME NEW i \in 1..Len(s) PROVE r[i] = q[i]
      OBVIOUS
    <2>1. SubSeq(r, 1, Len(r))[i] = r[i]
      BY <1>1
    <2>2. SubSeq(q, 1, Len(r))[i] = q[i]
      BY <1>1, <1>2, <1>3
    <2> QED BY <1>3, <2>1, <2>2
  <1>5. n \in 0..Len(t)
    BY <1>1, <1>2, <1>3
  <1>6. \A j \in 1..Len(s) : s[j] = t[n + j]
    <2> SUFFICES ASSUME NEW j \in 1..Len(s) PROVE s[j] = t[n + j]
      OBVIOUS
    <2> DEFINE i == Len(s) - j + 1
    <2>1. /\ i \in 1..Len(s) /\ i \in 1..Len(t)
          /\ Len(s) - i + 1 = j /\ Len(t) - i + 1 = n + j
      BY <1>5
    <2> HIDE DEF i
    <2> QED BY <1>1, <1>2, <1>4, <2>1
  <1>7. /\ SubSeq(t, n + 1, Len(t)) \in Seq(STRING)
        /\ Len(SubSeq(t, n + 1, Len(t))) = Len(s)
        /\ \A j \in 1..Len(s) : SubSeq(t, n + 1, Len(t))[j] = t[n + j]
    <2>1. n + 1 \in Int /\ Len(t) \in Int /\ Len(t) - (n + 1) + 1 = Len(s)
          /\ (n + 1 <= Len(t) <=> Len(s) > 0) /\ Len(s) \in Nat
      BY <1>5
    <2>2. \A i \in (n + 1)..Len(t) : t[i] \in STRING
      BY <1>5
    <2>3. \A j \in 1..Len(s) : (n + 1) + j - 1 = n + j
      BY <1>5
    <2> HIDE DEF n
    <2> QED BY <2>1, <2>2, <2>3, SubSeqProperties
  <1>8. s = SubSeq(t, n + 1, Len(t))
    <2> DEFINE u == SubSeq(t, n + 1, Len(t))
    <2>1. u \in Seq(STRING) /\ Len(u) = Len(s) /\ \A j \in 1..Len(s) : s[j] = u[j]
      BY <1>6, <1>7
    <2> HIDE DEF u
    <2>2. s = u
      BY <2>1, SeqEqual
    <2> QED BY <2>2 DEF u
  <1> QED BY <1>5, <1>8

\* A scope that matches a target covers it.
LEMMA MatchesCovers ==
  ASSUME NEW scope, NEW target, WellFormedScope(scope), WellFormedTarget(target),
         Matches(scope, target)
  PROVE  Covers(scope, target)
  <1>1. CASE scope.all
    BY <1>1 DEF Covers
  <1>2. CASE ~scope.all /\ target.kind = "domain"
    <2>1. DomainAllowed(target.labels, scope.domains)
      BY <1>2 DEF Matches
    <2>2. PICK base \in scope.domains : IsSuffix(base, target.labels)
      BY <2>1 DEF DomainAllowed
    <2>3. base \in Seq(STRING) /\ target.labels \in Seq(STRING)
      BY <1>2 DEF WellFormedScope, WellFormedTarget
    <2> QED BY <1>2, <2>2, <2>3, SuffixBehind DEF Covers
  <1>3. CASE ~scope.all /\ target.kind = "filesystem"
    <2>1. target.canonical # Unknown /\ PathAllowed(target.canonical, scope.roots)
      BY <1>3 DEF Matches
    <2> DEFINE path == target.canonical
    <2>2. PICK root \in scope.roots :
            /\ Normalized(root).root = Normalized(path).root
            /\ IsPrefix(Normalized(root).parts, Normalized(path).parts)
      BY <2>1 DEF PathAllowed
    <2>3. root \in Paths /\ path \in Paths /\ ~Normalized(root).leaves
      BY <1>3 DEF WellFormedScope, WellFormedTarget
    <2> DEFINE r == Normalized(root).parts
               p == Normalized(path).parts
    <2>4. /\ root.root = path.root /\ r = Location(root.parts)
          /\ r \in Seq(STRING) /\ p \in Seq(STRING)
          /\ IF Normalized(path).leaves THEN p = <<>> ELSE p = Location(path.parts)
      BY <2>2, <2>3, NormalizedIsLocation
    <2>5. Len(r) <= Len(p) /\ SubSeq(r, 1, Len(r)) = SubSeq(p, 1, Len(r))
      BY <2>2 DEF IsPrefix
    <2> HIDE DEF r, p, path
    <2>6. Len(r) \in 0..Len(p) /\ r = SubSeq(p, 1, Len(r))
      BY <2>4, <2>5
    <2>7. \E n \in 0..Len(Location(path.parts)) :
            Location(root.parts) = SubSeq(Location(path.parts), 1, n)
      <3>1. CASE Normalized(path).leaves
        <4>1. r = <<>>
          BY <2>4, <2>6, <3>1
        <4>2. SubSeq(Location(path.parts), 1, 0) = <<>>
          BY SubSeqEmpty
        <4>3. 0 \in 0..Len(Location(path.parts))
          BY <2>3, LocationIsSequence
        <4> QED BY <2>4, <4>1, <4>2, <4>3
      <3>2. CASE ~Normalized(path).leaves
        BY <2>4, <2>6, <3>2
      <3> QED BY <3>1, <3>2
    <2> QED BY <1>3, <2>1, <2>4, <2>7 DEF Covers, path
  <1>4. CASE ~scope.all /\ target.kind = "application"
    <2>1. ApplicationAllowed(target, scope)
      BY <1>4 DEF Matches
    <2> QED BY <1>4, <2>1 DEF ApplicationAllowed, Covers
  <1>5. CASE ~scope.all /\ target.kind \notin {"domain", "filesystem", "application"}
    BY <1>5 DEF Matches
  <1> QED BY <1>1, <1>2, <1>3, <1>4, <1>5

\* Every call under way has its request.
Made == \A c \in Calls : stage[c] # "none" => asked[c] \in Requests

\* A call that is under way has a request, and keeps it.
THEOREM MadeHolds == Spec => []Made
  <1>1. Init => Made
    BY DEF Init, Made
  <1>2. Inv /\ Made /\ [Next]_vars => Made'
    <2> SUFFICES ASSUME Inv, Made, [Next]_vars PROVE Made'
      OBVIOUS
    <2>1. ASSUME NEW c \in Calls, NEW request \in Requests, Execute(c, request)
          PROVE  Made'
      BY <2>1 DEF Execute, Move, Made, Inv, TypeOK
    <2>2. ASSUME UNCHANGED asked,
                 \A c \in Calls : stage[c] = "none" => stage'[c] = "none"
          PROVE  Made'
      BY <2>2 DEF Made
    <2>3. CASE UNCHANGED vars
      BY <2>2, <2>3 DEF vars
    <2>4. ASSUME NEW rule \in Rules, AddRule(rule) PROVE Made'
      BY <2>2, <2>4 DEF AddRule
    <2>5. ASSUME NEW c \in Calls,
                 \/ IdentityResolved(c)
                 \/ TargetResolved(c) \/ TargetRefused(c)
                 \/ \E yes \in BOOLEAN : ForegroundVerified(c, yes)
                 \/ \E yes \in BOOLEAN : Confirmed(c, yes)
                 \/ DriverFulfils(c) \/ DriverFails(c)
                 \/ \E holds \in BOOLEAN : PostconditionChecked(c, holds)
                 \/ AuditRecorded(c) \/ AuditFails(c) \/ ServiceFails(c)
          PROVE  Made'
      <3>1. UNCHANGED asked /\ stage[c] # "none"
            /\ \A d \in Calls \ {c} : stage'[d] = stage[d]
        BY <2>5 DEF Inv, TypeOK, IdentityResolved, TargetResolved, TargetRefused,
           ForegroundVerified, Confirmed, DriverFulfils, DriverFails,
           PostconditionChecked, AuditRecorded, AuditFails, ServiceFails,
           Conclude, Move
      <3> QED BY <2>2, <3>1
    <2> QED BY <2>1, <2>3, <2>4, <2>5 DEF Next
  <1> QED BY <1>1, <1>2, BrokerInvariance, PTL DEF Spec

\* A driver is called only under a rule whose scope the target lies in.
THEOREM RunsInScopeHolds == Spec => []RunsInScope
  <1>1. Inv /\ Made => RunsInScope
    <2> SUFFICES ASSUME Inv, Made, NEW c \in Calls,
                        stage[c] = "driver" \/ drove[c] # "not"
                 PROVE  LET tool == Tools[asked[c].tool] IN
                        \E i \in DOMAIN rules :
                          /\ rules[i].allow /\ rules[i].subject = asked[c].actor
                          /\ rules[i].kind = tool.kind /\ rules[i].action = tool.action
                          /\ Covers(rules[i].scope, asked[c].target)
      BY DEF RunsInScope
    <2>1. Allowed(c)
      BY DEF Inv, Passed
    <2>2. asked[c] \in Requests
      BY DEF Inv, Made, Honest, Before
    <2>3. PICK n \in since[c]..Len(rules) :
            Permitted(SubSeq(rules, 1, n), asked[c])
      BY <2>1 DEF Allowed
    <2>4. n \in 0..Len(rules) /\ rules \in Seq(Rules)
      BY DEF Inv, TypeOK
    <2>5. PICK i \in DOMAIN SubSeq(rules, 1, n) :
            LET rule == SubSeq(rules, 1, n)[i]
                tool == Tools[asked[c].tool] IN
            /\ rule.subject = asked[c].actor
            /\ rule.kind = tool.kind /\ rule.action = tool.action
            /\ MatchesScope(rule.scope, asked[c].target) /\ rule.allow
      BY <2>3 DEF Permitted
    <2>6. i \in DOMAIN rules /\ SubSeq(rules, 1, n)[i] = rules[i]
      BY <2>4
    <2>7. rules[i].scope \in RuleScopes /\ asked[c].target \in Targets
      <3>1. rules[i] \in Rules
        BY <2>4, <2>6
      <3> QED BY <2>2, <3>1, RequestsAssumption, RulesAssumption
    <2>8. Covers(rules[i].scope, asked[c].target)
      BY <2>5, <2>6, <2>7, MatchesCovers, ScopesAssumption
    <2> QED BY <2>5, <2>6, <2>8
  <1> QED BY <1>1, BrokerInvariance, MadeHolds, PTL

-----------------------------------------------------------------------------
(* The provider presets.                                                   *)
(*                                                                         *)
(* PresetsInv has two parts.  PresetsSafe always holds: types, what each   *)
(* operation waits for, and that its command is in the queue once.  While  *)
(* no operations have overlapped, OneByOne says in addition what the state *)
(* App keeps, the files and the promise have to do with each other at      *)
(* every await, also while a save has removed a file.                      *)

\* What an operation of the user may be waiting for, and what the startup.
Waits(c) ==
  IF c = Startup
  THEN {"loadLegacy", "loadProfiles", "loadPresets", "migrateProfiles",
        "migratePresets", "fixActive", "exists"}
  ELSE {"savePresets", "setSecret", "verify", "deleteSecret", "saveProfiles"}

\* Where it may be once the host has answered.
Answers(c) ==
  IF c = Startup
  THEN {"legacyLoaded", "profilesLoaded", "presetsLoaded", "profilesMigrated",
        "presetsMigrated", "activeFixed", "secretsAsked"}
  ELSE {"presetsSaved", "secretSet", "secretVerified", "secretDeleted",
        "profilesSaved"}

\* Every command in the queue is the one its operation waits for.
Queued ==
  /\ \A i \in 1..Len(queue) : calls[queue[i]].pc \in Waits(queue[i])
  /\ \A i, j \in 1..Len(queue) : queue[i] = queue[j] => i = j

\* Awaits at which an operation holds a list of presets, or the profiles.
WithNext == {"savePresets", "presetsSaved", "migrateProfiles", "profilesMigrated",
             "migratePresets", "presetsMigrated", "fixActive", "activeFixed",
             "exists", "secretsAsked"}
WithProfiles == {"profilesLoaded", "loadPresets", "presetsLoaded",
                 "migrateProfiles", "profilesMigrated", "migratePresets",
                 "presetsMigrated", "fixActive", "activeFixed", "exists",
                 "secretsAsked", "stop", "start"}
WithSecret == {"setSecret", "secretSet", "verify", "secretVerified",
               "deleteSecret", "secretDeleted"}
Migrating == {"migrateProfiles", "profilesMigrated", "migratePresets",
              "presetsMigrated"}

\* What the record of an operation holds at each of its awaits.
Shaped(c) ==
  LET call == calls[c] IN
  /\ "pc" \in DOMAIN call
  /\ call = Idle \/ call.pc \in Waits(c) \cup Answers(c) \cup {"stop", "start"}
  /\ call.pc \in WithNext => call.next \in PresetLists
  /\ call.pc \in {"savePresets", "presetsSaved"} => call.preset \in Presets
  /\ call.pc \in WithSecret => call.credential \in Credentials
  /\ call.pc \in {"saveProfiles", "profilesSaved"} => call.next \subseteq Credentials
  /\ call.pc \in {"legacyLoaded", "loadProfiles", "profilesLoaded", "loadPresets",
                  "presetsLoaded"} => call.legacy \in CredentialChoices
  /\ call.pc \in WithProfiles => call.profiles \subseteq Credentials
  /\ call.pc = "presetsLoaded" => call.presets \in PresetLists \cup {None}
  /\ call.pc \in {"stop", "start"} => call.state \in PresetLists
  /\ call.pc \in Migrating => call.preset = Migrated

\* The runtime in use runs, or one is about to, or the last did not start.
Renewed ==
  loaded \/ foundation # 0 =>
    \/ foundation \in running \/ unstarted
    \/ \E c \in Everyone : calls[c].pc = "start"

-----------------------------------------------------------------------------
(* While operations come one by one.                                       *)

Alone ==
  /\ \A c, d \in Everyone : calls[c] # Idle /\ calls[d] # Idle => c = d
  /\ \A c \in Callers : calls[c] # Idle => loaded
  /\ loaded => calls[Startup].pc \in {"idle", "stop", "start"}

Listed == IF presetFile = None THEN NoPresets ELSE presetFile

\* What App keeps and the user was told is what the files hold, unless a save
\* has removed one, or its answer is on the way to c.
Agree(c) ==
  /\ \/ "presets" \in missing \/ calls[c].pc \in {"presetsSaved", "presetsMigrated"}
     \/ Saved = promised
  /\ loaded =>
       /\ presetState.of = promised
       /\ "presets" \in missing \/ calls[c].pc = "presetsSaved" \/ presetState = Listed
       /\ \/ "profiles" \in missing \/ calls[c].pc = "profilesSaved"
          \/ profileState = SavedProfiles

Stopped == running \subseteq {foundation}

Serving ==
  LET a == presetState.active IN
  /\ serves.active = a
  /\ a # None =>
       serves.of[a] = IF presetState.of[a] \in profileState
                      THEN presetState.of[a] ELSE None

\* Where an operation is, with nothing else under way.
Course(c) ==
  LET call == calls[c] IN
  /\ call.pc \in {"savePresets", "presetsSaved"} =>
       /\ call.next.of = IF call.preset \in DOMAIN call.next.of
                         THEN Put(presetState.of, call.preset,
                                  call.next.of[call.preset])
                         ELSE Drop(presetState.of, call.preset)
       /\ ~call.renew => /\ call.next.active = presetState.active
                         /\ call.preset # presetState.active
  /\ call.pc \in {"presetsSaved", "presetsMigrated", "activeFixed"} =>
       presetFile = call.next
  /\ call.pc \in WithSecret => ~Uses(presetState.of, call.credential)
  /\ call.pc \in {"saveProfiles", "profilesSaved"} =>
       \A x \in Credentials : Uses(presetState.of, x) =>
          (x \in call.next <=> x \in profileState)
  /\ call.pc = "profilesSaved" => profileFile = call.next
  /\ call.pc \in (Waits(Startup) \cup Answers(Startup)) \ {"fixActive"} =>
       "presets" \notin missing
  /\ call.pc \in WithProfiles \ {"migrateProfiles", "stop", "start"} =>
       call.profiles = SavedProfiles
  /\ call.pc = "presetsLoaded" => call.presets = presetFile
  /\ call.pc \in Migrating => DOMAIN call.next.of = {Migrated} /\ promised = NoOne
  /\ call.pc \in Migrating \ {"presetsMigrated"} => presetFile = None
  /\ call.pc \in {"fixActive", "activeFixed"} => call.next.of = promised
  /\ call.pc \in {"exists", "secretsAsked"} => call.next = Listed
  /\ call.pc \in {"stop", "start"} =>
       loaded /\ call.state = presetState /\ call.profiles = profileState
  /\ call.pc = "stop" => call.runtime = foundation
  /\ call.pc = "start" => running = {}

OneByOne ==
  /\ Alone /\ Stopped
  /\ \A c \in Everyone : Course(c)
  /\ \A c \in Everyone : (\A d \in Everyone : d # c => calls[d] = Idle) => Agree(c)
  /\ \/ ~loaded \/ unstarted \/ Serving
     \/ \E c \in Everyone : calls[c].pc \in {"stop", "start"}

PresetsSafe ==
  PresetsTypeOK /\ Queued /\ Renewed /\ \A c \in Everyone : Shaped(c)

PresetsInv == PresetsSafe /\ (~overlapped => OneByOne)

-----------------------------------------------------------------------------
(* Lists of presets.                                                       *)

\* What belongs to the type of a list.
LEMMA ListParts ==
  ASSUME NEW s \in PresetLists
  PROVE  /\ DOMAIN s.of \subseteq Presets /\ s.of \in [DOMAIN s.of -> CredentialChoices]
         /\ s.active \in DOMAIN s.of \cup {None}
         /\ s = [of |-> s.of, active |-> s.active]
  BY DEF PresetLists

\* What makes a list.
LEMMA ListMade ==
  ASSUME NEW D \in SUBSET Presets, NEW f \in [D -> CredentialChoices],
         NEW a \in D \cup {None}
  PROVE  [of |-> f, active |-> a] \in PresetLists
  BY DEF PresetLists

LEMMA NoPresetsIsList ==
  /\ NoPresets \in PresetLists /\ DOMAIN NoOne = {}
  /\ \A s \in PresetLists : DOMAIN s.of = {} => s.of = NoOne
  <1>1. NoOne \in [{} -> CredentialChoices] /\ DOMAIN NoOne = {}
    BY DEF NoOne
  <1>2. NoPresets \in PresetLists
    BY <1>1, ListMade, {} \in SUBSET Presets DEF NoPresets
  <1>3. \A s \in PresetLists : DOMAIN s.of = {} => s.of = NoOne
    BY ListParts DEF NoOne
  <1> QED BY <1>1, <1>2, <1>3

\* A list with a preset more, or with another credential for it.
LEMMA PutParts ==
  ASSUME NEW s \in PresetLists, NEW p \in Presets, NEW x \in CredentialChoices
  PROVE  /\ DOMAIN Put(s.of, p, x) = DOMAIN s.of \cup {p}
         /\ Put(s.of, p, x) \in [DOMAIN s.of \cup {p} -> CredentialChoices]
         /\ Put(s.of, p, x)[p] = x
         /\ \A q \in DOMAIN s.of : q # p => Put(s.of, p, x)[q] = s.of[q]
  BY ListParts DEF Put

LEMMA DropParts ==
  ASSUME NEW s \in PresetLists, NEW p \in Presets
  PROVE  /\ DOMAIN Drop(s.of, p) = DOMAIN s.of \ {p}
         /\ Drop(s.of, p) \in [DOMAIN s.of \ {p} -> CredentialChoices]
         /\ \A q \in DOMAIN s.of : q # p => Drop(s.of, p)[q] = s.of[q]
  BY ListParts DEF Drop

\* Putting what is there changes nothing.
LEMMA PutSame ==
  ASSUME NEW s \in PresetLists, NEW p \in DOMAIN s.of
  PROVE  Put(s.of, p, s.of[p]) = s.of
  BY ListParts DEF Put

\* The presets as the runtime gets them.
LEMMA MaterializeParts ==
  ASSUME NEW s \in PresetLists, NEW profiles \in SUBSET Credentials
  PROVE  /\ [of |-> Materialize(s.of, profiles), active |-> s.active] \in PresetLists
         /\ \A p \in DOMAIN s.of :
              Materialize(s.of, profiles)[p] =
                IF s.of[p] \in profiles THEN s.of[p] ELSE None
  <1>1. /\ DOMAIN s.of \in SUBSET Presets /\ s.of \in [DOMAIN s.of -> CredentialChoices]
        /\ s.active \in DOMAIN s.of \cup {None}
    BY ListParts
  <1>2. Materialize(s.of, profiles) \in [DOMAIN s.of -> CredentialChoices]
    BY <1>1 DEF Materialize, CredentialChoices
  <1>3. \A p \in DOMAIN s.of :
              Materialize(s.of, profiles)[p] =
                IF s.of[p] \in profiles THEN s.of[p] ELSE None
    BY DEF Materialize
  <1> QED BY <1>1, <1>2, <1>3, ListMade

\* A list that changes in one preset is the same for the others.
LEMMA OtherEntries ==
  ASSUME NEW s \in PresetLists, NEW p \in Presets, NEW x \in CredentialChoices,
         NEW q, q # p
  PROVE  /\ Entry(Put(s.of, p, x), q) = Entry(s.of, q)
         /\ Entry(Drop(s.of, p), q) = Entry(s.of, q)
  <1>1. ASSUME NEW f, NEW g, DOMAIN f \cap {q} = DOMAIN g \cap {q},
               \A r \in DOMAIN f \cap {q} : f[r] = g[r]
        PROVE  Entry(f, q) = Entry(g, q)
    BY <1>1 DEF Entry
  <1> DEFINE f == Put(s.of, p, x)
             g == Drop(s.of, p)
  <1>2. /\ DOMAIN f = DOMAIN s.of \cup {p}
        /\ \A r \in DOMAIN s.of : r # p => f[r] = s.of[r]
        /\ DOMAIN g = DOMAIN s.of \ {p}
        /\ \A r \in DOMAIN s.of : r # p => g[r] = s.of[r]
    BY DEF Put, Drop
  <1> HIDE DEF f, g
  <1>3. /\ DOMAIN f \cap {q} = DOMAIN s.of \cap {q}
        /\ DOMAIN g \cap {q} = DOMAIN s.of \cap {q}
    BY <1>2
  <1>4. /\ \A r \in DOMAIN f \cap {q} : f[r] = s.of[r]
        /\ \A r \in DOMAIN g \cap {q} : g[r] = s.of[r]
    BY <1>2
  <1>5. Entry(f, q) = Entry(s.of, q) /\ Entry(g, q) = Entry(s.of, q)
    BY <1>1, <1>3, <1>4
  <1> QED BY <1>5 DEF f, g

-----------------------------------------------------------------------------
(* The queue of commands.                                                  *)

FilesTyped ==
  /\ legacy \in CredentialChoices /\ secrets \subseteq Credentials
  /\ presetFile \in PresetLists \cup {None}
  /\ profileFile \in (SUBSET Credentials) \cup {None}

\* The operation alone moves.
Moves(c, call) ==
  /\ Queued' /\ queue' \in Seq(Everyone) /\ DOMAIN calls' = Everyone
  /\ calls'[c] = call
  /\ \A d \in Everyone : d # c => calls'[d] = calls[d]

\* An operation that no command in the queue is of sends one.
LEMMA Appending ==
  ASSUME PresetsSafe, NEW c \in Everyone, calls[c].pc \notin Waits(c), NEW call,
         call.pc \in Waits(c), Invokes(c, call)
  PROVE  Moves(c, call)
  <1> DEFINE n == Len(queue)
  <1>1. queue \in Seq(Everyone) /\ DOMAIN calls = Everyone /\ n \in Nat
    BY DEF PresetsSafe, PresetsTypeOK
  <1>2. queue' = Append(queue, c) /\ calls' = [calls EXCEPT ![c] = call]
    BY DEF Invokes
  <1>3. /\ queue' \in Seq(Everyone) /\ DOMAIN calls' = Everyone
        /\ calls'[c] = call
        /\ \A d \in Everyone : d # c => calls'[d] = calls[d]
    BY <1>1, <1>2
  <1>4. /\ Len(queue') = n + 1 /\ queue'[n + 1] = c
        /\ \A i \in 1..n : queue'[i] = queue[i] /\ queue[i] \in Everyone
    BY <1>1, <1>2
  <1>5. \A i \in 1..n : calls[queue[i]].pc \in Waits(queue[i])
    BY DEF PresetsSafe, Queued
  <1>6. \A i, j \in 1..n : queue[i] = queue[j] => i = j
    BY DEF PresetsSafe, Queued
  <1>7. \A i \in 1..n : queue[i] # c
    BY <1>5
  <1>8. \A i \in 1..n + 1 : i \in 1..n \/ i = n + 1
    BY <1>1
  <1>9. \A i \in 1..Len(queue') : calls'[queue'[i]].pc \in Waits(queue'[i])
    <2> HIDE DEF n
    <2> QED BY <1>3, <1>4, <1>5, <1>7, <1>8
  <1>10. \A i, j \in 1..Len(queue') : queue'[i] = queue'[j] => i = j
    <2> HIDE DEF n
    <2> QED BY <1>4, <1>6, <1>7, <1>8
  <1> QED BY <1>3, <1>9, <1>10 DEF Moves, Queued

\* Head and tail of the queue.
LEMMA QueueTail ==
  ASSUME PresetsSafe, NEW c, queue # <<>>, Head(queue) = c
  PROVE  /\ c \in Everyone /\ calls[c].pc \in Waits(c) /\ calls[c] # Idle
         /\ Tail(queue) \in Seq(Everyone)
         /\ Len(queue) \in Nat /\ Len(Tail(queue)) = Len(queue) - 1
         /\ \A i \in 1..Len(Tail(queue)) :
              i + 1 \in 1..Len(queue) /\ Tail(queue)[i] = queue[i + 1]
              /\ Tail(queue)[i] # c
  <1>1. queue \in Seq(Everyone) /\ Len(queue) \in Nat /\ 1 \in 1..Len(queue)
    BY DEF PresetsSafe, PresetsTypeOK
  <1>2. c = queue[1] /\ c \in Everyone
    BY <1>1
  <1>3. /\ Tail(queue) \in Seq(Everyone) /\ Len(Tail(queue)) = Len(queue) - 1
        /\ \A i \in 1..Len(Tail(queue)) :
              i + 1 \in 1..Len(queue) /\ Tail(queue)[i] = queue[i + 1]
    BY <1>1
  <1>4. \A i \in 1..Len(Tail(queue)) : i + 1 # 1
    BY <1>1
  <1>5. \A i \in 1..Len(Tail(queue)) : Tail(queue)[i] # c
    BY <1>1, <1>2, <1>3, <1>4 DEF PresetsSafe, Queued
  <1>6. calls[c].pc \in Waits(c)
    BY <1>1, <1>2 DEF PresetsSafe, Queued
  <1>7. calls[c] # Idle
    <2>1. "idle" \notin Waits(c)
      BY DEF Waits
    <2> QED BY <1>6, <2>1 DEF Idle
  <1> QED BY <1>1, <1>2, <1>3, <1>5, <1>6, <1>7

\* The host answers.
LEMMA Answering ==
  ASSUME PresetsSafe, NEW c, queue # <<>>, Head(queue) = c, NEW call,
         Answered(c, call)
  PROVE  Moves(c, call)
  <1> DEFINE t == Tail(queue)
             n == Len(t)
  <1>1. /\ c \in Everyone /\ t \in Seq(Everyone) /\ n \in Nat
        /\ \A i \in 1..n : t[i] # c /\ i + 1 \in 1..Len(queue) /\ t[i] = queue[i + 1]
    BY QueueTail
  <1>2. DOMAIN calls = Everyone
    BY DEF PresetsSafe, PresetsTypeOK
  <1>3. queue' = t /\ calls' = [calls EXCEPT ![c] = call]
    BY DEF Answered
  <1>4. \A i \in 1..n : calls[t[i]].pc \in Waits(t[i]) /\ t[i] \in Everyone
    BY <1>1 DEF PresetsSafe, Queued
  <1>5. \A i, j \in 1..n : t[i] = t[j] => i = j
    <2> SUFFICES ASSUME NEW i \in 1..n, NEW j \in 1..n, t[i] = t[j] PROVE i = j
      OBVIOUS
    <2>1. i + 1 = j + 1
      BY <1>1 DEF PresetsSafe, Queued
    <2> QED BY <2>1
  <1> HIDE DEF t
  <1>8. /\ DOMAIN calls' = Everyone /\ calls'[c] = call
        /\ \A d \in Everyone : d # c => calls'[d] = calls[d]
    BY <1>1, <1>2, <1>3
  <1> QED BY <1>1, <1>3, <1>4, <1>5, <1>8 DEF Moves, Queued

\* An operation that no command in the queue is of goes on without one.
LEMMA OutOfQueue ==
  ASSUME PresetsSafe, NEW c \in Everyone, calls[c].pc \notin Waits(c),
         NEW call, Goes(c, call)
  PROVE  Moves(c, call)
  <1>1. /\ queue \in Seq(Everyone) /\ DOMAIN calls = Everyone /\ Len(queue) \in Nat
    BY DEF PresetsSafe, PresetsTypeOK
  <1>2. calls' = [calls EXCEPT ![c] = call] /\ queue' = queue
    BY DEF Goes
  <1>3. \A i \in 1..Len(queue) : queue[i] \in Everyone
    BY <1>1
  <1>4. \A i \in 1..Len(queue) : queue[i] # c
    BY DEF PresetsSafe, Queued
  <1> QED BY <1>1, <1>2, <1>3, <1>4 DEF Moves, Queued, PresetsSafe

\* The host takes a step with the command at hand.
LEMMA Working ==
  ASSUME PresetsSafe, NEW c \in Everyone, UNCHANGED <<calls, queue>>
  PROVE  Moves(c, calls[c])
  BY DEF PresetsSafe, PresetsTypeOK, Moves, Queued

\* Awaits before and after the host has answered are not the same.
LEMMA AwaitsDiffer ==
  ASSUME NEW c
  PROVE  /\ \A pc \in Answers(c) : pc \notin Waits(c) \cup {"idle", "stop", "start"}
         /\ \A pc \in Waits(c) : pc \notin {"idle", "stop", "start"}
  BY DEF Answers, Waits

-----------------------------------------------------------------------------
(* What a step has to show.                                                *)

LEMMA SafeStep ==
  ASSUME PresetsSafe, NEW c \in Everyone, NEW call, Moves(c, call), Shaped(c)',
         Renewed', FilesTyped', missing' \subseteq {"presets", "profiles"},
         presetState' \in PresetLists, profileState' \subseteq Credentials,
         loaded' \in BOOLEAN, leftover' \in CredentialChoices,
         foundation' \in 0..MaxRuntimes, running' \subseteq 1..MaxRuntimes,
         serves' \in PresetLists
  PROVE  PresetsSafe'
  <1>1. \A d \in Everyone : Shaped(d)'
    <2> SUFFICES ASSUME NEW d \in Everyone, d # c PROVE Shaped(d)'
      OBVIOUS
    <2>1. calls'[d] = calls[d]
      BY DEF Moves
    <2>2. Shaped(d)
      BY DEF PresetsSafe
    <2> QED BY <2>1, <2>2 DEF Shaped
  <1>2. \A d \in Everyone : calls'[d].pc \in WithNext => calls'[d].next \in PresetLists
    BY <1>1 DEF Shaped
  <1>3. PresetsTypeOK'
    BY <1>2 DEF PresetsTypeOK, Moves, FilesTyped, WithNext, PresetSaves
  <1> QED BY <1>1, <1>3 DEF PresetsSafe, Moves

LEMMA RenewedStays ==
  ASSUME PresetsSafe, NEW c \in Everyone, NEW call, Moves(c, call),
         calls[c].pc # "start" \/ call.pc = "start",
         UNCHANGED <<foundation, running, unstarted>>,
         loaded' => loaded \/ foundation # 0 \/ call.pc = "start"
  PROVE  Renewed'
  <1>1. ASSUME NEW d \in Everyone, calls[d].pc = "start"
        PROVE  calls'[d].pc = "start"
    BY <1>1 DEF Moves
  <1>2. calls'[c] = call
    BY DEF Moves
  <1> QED BY <1>1, <1>2 DEF PresetsSafe, Renewed

\* Of an operation that is over nothing is claimed, before or after a step.
LEMMA IdleSays ==
  ASSUME NEW c
  PROVE  /\ calls[c] = Idle => Shaped(c) /\ Course(c)
         /\ calls'[c] = Idle => Shaped(c)' /\ Course(c)'
  <1>1. Idle.pc = "idle" /\ "pc" \in DOMAIN Idle
    BY DEF Idle
  <1>2. ASSUME calls[c] = Idle PROVE Shaped(c) /\ Course(c)
    BY <1>1, <1>2 DEF Shaped, Course, WithNext, WithSecret, WithProfiles, Migrating,
                      Waits, Answers
  <1>3. ASSUME calls'[c] = Idle PROVE Shaped(c)' /\ Course(c)'
    BY <1>1, <1>3 DEF Shaped, Course, WithNext, WithSecret, WithProfiles, Migrating,
                      Waits, Answers
  <1> QED BY <1>2, <1>3

LEMMA OthersIdle ==
  ASSUME OneByOne, NEW c \in Everyone, calls[c] # Idle, NEW d \in Everyone, d # c
  PROVE  calls[d] = Idle
  BY DEF OneByOne, Alone

LEMMA OneStep ==
  ASSUME NEW c \in Everyone, NEW call, Moves(c, call),
         \A d \in Everyone : d # c => calls[d] = Idle,
         Course(c)', Agree(c)', c = Startup \/ loaded',
         loaded' /\ c = Startup => call.pc \in {"idle", "stop", "start"},
         Stopped',
         \/ ~loaded' \/ unstarted' \/ Serving' \/ call.pc \in {"stop", "start"}
  PROVE  OneByOne'
  <1>1. \A d \in Everyone : d # c => calls'[d] = Idle
    BY DEF Moves
  <1>2. calls'[c] = call
    BY DEF Moves
  <1>3. \A d \in Everyone : Course(d)'
    <2> SUFFICES ASSUME NEW d \in Everyone, d # c PROVE Course(d)'
      OBVIOUS
    <2>1. calls'[d] = Idle
      BY <1>1
    <2> QED BY <2>1, IdleSays
  <1>4. Startup \in Everyone /\ Callers \subseteq Everyone /\ Startup \notin Callers
    BY PresetsAssumption DEF Everyone
  <1>5. Alone'
    <2>1. \A d, e \in Everyone : calls'[d] # Idle /\ calls'[e] # Idle => d = e
      BY <1>1
    <2>2. \A d \in Callers : calls'[d] # Idle => loaded'
      BY <1>1, <1>4
    <2>3. loaded' => calls'[Startup].pc \in {"idle", "stop", "start"}
      <3>1. CASE c = Startup
        BY <1>2, <3>1
      <3>2. CASE c # Startup
        BY <1>1, <1>4, <3>2 DEF Idle
      <3> QED BY <3>1, <3>2
    <2> QED BY <2>1, <2>2, <2>3 DEF Alone
  <1>6. ASSUME NEW d \in Everyone, \A e \in Everyone : e # d => calls'[e] = Idle
        PROVE  Agree(d)'
    <2>1. d = c \/ (calls'[c] = Idle /\ calls'[d] = Idle)
      BY <1>1, <1>6
    <2> QED BY <2>1 DEF Agree
  <1> QED BY <1>2, <1>3, <1>5, <1>6 DEF OneByOne

\* What is known of the operation at hand, with nothing else under way.
LEMMA Acting ==
  ASSUME PresetsInv, ~overlapped, NEW c \in Everyone, calls[c] # Idle
  PROVE  /\ OneByOne /\ Course(c) /\ Agree(c) /\ Stopped
         /\ \A d \in Everyone : d # c => calls[d] = Idle
         /\ c # Startup => loaded
         /\ calls[c].pc \notin {"idle", "stop", "start"} =>
              /\ c = Startup => ~loaded
              /\ ~loaded \/ unstarted \/ Serving
  <1>1. OneByOne
    BY DEF PresetsInv
  <1>2. \A d \in Everyone : d # c => calls[d] = Idle
    BY <1>1, OthersIdle
  <1>3. \A d \in Everyone : d # c => calls[d].pc = "idle"
    BY <1>2 DEF Idle
  <1> QED BY <1>1, <1>2, <1>3 DEF OneByOne, Alone, Everyone

\* A step that changes nothing App keeps, of the host's or of an operation
\* that goes on to its next command.
LEMMA QuietStep ==
  ASSUME PresetsInv, NEW c \in Everyone, calls[c].pc \in Waits(c) \cup Answers(c),
         NEW call, Moves(c, call), call.pc \in Waits(c) \cup Answers(c) \cup {"idle"},
         UNCHANGED <<refVars, runtimeVars, overlapped>>,
         FilesTyped', missing' \subseteq {"presets", "profiles"}, Shaped(c)',
         ~overlapped => Course(c)' /\ Agree(c)'
  PROVE  PresetsInv'
  <1>1. PresetsSafe /\ calls[c].pc \notin {"idle", "stop", "start"}
    BY AwaitsDiffer DEF PresetsInv
  <1>2. calls[c] # Idle
    BY <1>1 DEF Idle
  <1>3. UNCHANGED <<presetState, profileState, loaded, leftover, foundation,
                    running, serves, unstarted, overlapped>>
    BY DEF refVars, runtimeVars
  <1>4. PresetsSafe'
    <2>1. Renewed'
      BY <1>1, <1>3, RenewedStays
    <2> QED BY <1>1, <1>3, <2>1, SafeStep DEF PresetsSafe, PresetsTypeOK
  <1>5. ASSUME ~overlapped' PROVE OneByOne'
    <2>1. /\ ~overlapped /\ Stopped
          /\ \A d \in Everyone : d # c => calls[d] = Idle
          /\ c # Startup => loaded
          /\ c = Startup => ~loaded
          /\ ~loaded \/ unstarted \/ Serving
      BY <1>1, <1>2, <1>3, <1>5, Acting
    <2>2. Stopped' /\ (c = Startup \/ loaded') /\ (c = Startup => ~loaded')
          /\ (~loaded' \/ unstarted' \/ Serving')
      BY <1>3, <2>1 DEF Stopped, Serving
    <2> QED BY <2>1, <2>2, OneStep
  <1> QED BY <1>4, <1>5 DEF PresetsInv

-----------------------------------------------------------------------------
(* Operations of the user begin.                                           *)

\* What the state says to an operation that nothing overlaps.
LEMMA BeginsAlone ==
  ASSUME PresetsInv, NEW c \in Callers, NEW call, Begin(c, call), ~overlapped'
  PROVE  /\ ~overlapped /\ OneByOne /\ loaded /\ loaded' /\ calls[c] = Idle
         /\ \A d \in Everyone : calls[d] = Idle
         /\ UNCHANGED <<presetFile, profileFile, presetState, profileState,
                        running, foundation, serves, unstarted, promised, missing>>
         /\ unstarted \/ Serving
  <1>1. /\ ~overlapped /\ loaded /\ \A d \in Everyone : calls[d] = Idle
        /\ UNCHANGED <<presetFile, profileFile, presetState, profileState,
                        running, foundation, serves, unstarted, promised, loaded,
                        missing>>
    BY DEF Begin, hostVars, refVars, runtimeVars
  <1>2. OneByOne
    BY <1>1 DEF PresetsInv
  <1>3. unstarted \/ Serving
    BY <1>1, <1>2 DEF OneByOne, Idle
  <1> QED BY <1>1, <1>2, <1>3 DEF Begin

LEMMA BeginSafe ==
  ASSUME PresetsInv, NEW c \in Callers, NEW call, Begin(c, call),
         call.pc \in Waits(c), Shaped(c)'
  PROVE  PresetsSafe' /\ Moves(c, call)
  <1>1. c \in Everyone /\ PresetsSafe
    BY DEF Everyone, PresetsInv
  <1>2. calls[c].pc \notin Waits(c) /\ calls[c].pc # "start"
    BY AwaitsDiffer DEF Begin, Idle
  <1>3. Moves(c, call)
    BY <1>1, <1>2, Appending DEF Begin
  <1>4. Renewed'
    BY <1>1, <1>2, <1>3, RenewedStays DEF Begin, runtimeVars, refVars
  <1>5. PresetsSafe'
    BY <1>1, <1>3, <1>4, SafeStep
       DEF Begin, PresetsSafe, PresetsTypeOK, FilesTyped, hostVars, refVars,
           runtimeVars
  <1> QED BY <1>3, <1>5

LEMMA BeginOne ==
  ASSUME PresetsInv, NEW c \in Callers, NEW call, Begin(c, call), Moves(c, call),
         PresetsSafe', ~overlapped' => Course(c)', call.pc \in Waits(c)
  PROVE  PresetsInv'
  <1> SUFFICES ASSUME ~overlapped' PROVE OneByOne'
    BY DEF PresetsInv
  <1>1. /\ ~overlapped /\ OneByOne /\ loaded /\ loaded'
        /\ \A d \in Everyone : calls[d] = Idle
        /\ UNCHANGED <<presetFile, profileFile, presetState, profileState,
                       running, foundation, serves, unstarted, promised, missing>>
        /\ unstarted \/ Serving
    BY BeginsAlone
  <1>2. c \in Everyone /\ c # Startup
    BY PresetsAssumption DEF Everyone
  <1>3. Agree(c) /\ calls[c].pc = "idle"
    BY <1>1, <1>2 DEF OneByOne, Idle
  <1>4. Agree(c)' /\ Stopped' /\ (unstarted' \/ Serving')
    BY <1>1, <1>3 DEF OneByOne, Agree, Stopped, Saved, SavedProfiles, Listed, Serving
  <1> QED BY <1>1, <1>2, <1>4, OneStep

\* Any operation that saves the list with one change.
LEMMA BeginSave ==
  ASSUME PresetsInv, NEW c \in Callers, NEW p \in Presets,
         NEW next \in PresetLists, NEW renew,
         next.of = IF p \in DOMAIN next.of
                   THEN Put(presetState.of, p, next.of[p])
                   ELSE Drop(presetState.of, p),
         ~renew => next.active = presetState.active /\ p # presetState.active,
         Begin(c, Saving(p, next, renew))
  PROVE  PresetsInv'
  <1> DEFINE call == Saving(p, next, renew)
  <1>1. /\ call.pc = "savePresets" /\ call.next = next /\ call.preset = p
        /\ call.renew = renew /\ "pc" \in DOMAIN call
    BY DEF Saving
  <1>2. calls'[c] = call
    BY DEF Begin, Invokes, PresetsInv, PresetsSafe, PresetsTypeOK, Everyone
  <1>3. c # Startup
    BY PresetsAssumption
  <1> HIDE DEF call
  <1>4. call.pc \in Waits(c)
    BY <1>1, <1>3 DEF Waits
  <1>5. Shaped(c)'
    BY <1>1, <1>2, <1>4
       DEF Shaped, Waits, WithNext, WithSecret, WithProfiles, Migrating
  <1>6. PresetsSafe' /\ Moves(c, call)
    BY <1>4, <1>5, BeginSafe DEF call
  <1>7. ~overlapped' => Course(c)'
    <2> SUFFICES ASSUME ~overlapped' PROVE Course(c)'
      OBVIOUS
    <2>1. presetState' = presetState
      BY BeginsAlone
    <2> QED BY <1>1, <1>2, <2>1 DEF Course, WithSecret, WithProfiles, Migrating, Waits,
                                       Answers
  <1> QED BY <1>4, <1>6, <1>7, BeginOne DEF call

LEMMA BeginCredential ==
  ASSUME PresetsInv, NEW c \in Callers, NEW x \in Credentials,
         NEW pc \in {"setSecret", "deleteSecret"}, ~Uses(presetState.of, x),
         Begin(c, [pc |-> pc, credential |-> x])
  PROVE  PresetsInv'
  <1> DEFINE call == [pc |-> pc, credential |-> x]
  <1>1. call.pc = pc /\ call.credential = x /\ "pc" \in DOMAIN call
    OBVIOUS
  <1>2. calls'[c] = call
    BY DEF Begin, Invokes, PresetsInv, PresetsSafe, PresetsTypeOK, Everyone
  <1>3. c # Startup
    BY PresetsAssumption
  <1> HIDE DEF call
  <1>4. call.pc \in Waits(c)
    BY <1>1, <1>3 DEF Waits
  <1>5. Shaped(c)'
    BY <1>1, <1>2, <1>4
       DEF Shaped, Waits, WithNext, WithSecret, WithProfiles, Migrating
  <1>6. PresetsSafe' /\ Moves(c, call)
    BY <1>4, <1>5, BeginSafe DEF call
  <1>7. ~overlapped' => Course(c)'
    <2> SUFFICES ASSUME ~overlapped' PROVE Course(c)'
      OBVIOUS
    <2>1. presetState' = presetState
      BY BeginsAlone
    <2> QED BY <1>1, <1>2, <2>1 DEF Course, WithSecret, WithProfiles, Migrating, Waits,
                                       Answers
  <1> QED BY <1>4, <1>6, <1>7, BeginOne DEF call

LEMMA UserSteps ==
  ASSUME PresetsInv, NEW c \in Callers, UserStep(c)
  PROVE  PresetsInv'
  <1>1. presetState \in PresetLists /\ leftover \in CredentialChoices
        /\ profileState \subseteq Credentials
    BY DEF PresetsInv, PresetsSafe, PresetsTypeOK
  <1>2. /\ DOMAIN presetState.of \subseteq Presets
        /\ presetState.of \in [DOMAIN presetState.of -> CredentialChoices]
        /\ presetState.active \in DOMAIN presetState.of \cup {None}
        /\ presetState = [of |-> presetState.of, active |-> presetState.active]
    BY <1>1, ListParts
  <1>0. None \notin Presets
    BY PresetsAssumption
  <1>3. CASE SavePreset(c)
    <2>1. PICK p \in Presets, x \in profileState \cup {None, NewChoice},
               activate \in BOOLEAN :
            Begin(c, Saving(p, [of |-> Put(presetState.of, p, x),
                                active |-> IF activate THEN p
                                           ELSE presetState.active],
                            activate \/ presetState.active = p))
      BY <1>3 DEF SavePreset
    <2> DEFINE a == IF activate THEN p ELSE presetState.active
               f == Put(presetState.of, p, x)
               next == [of |-> f, active |-> a]
               renew == activate \/ presetState.active = p
    <2>2. x \in CredentialChoices
      BY <1>1 DEF CredentialChoices
    <2>3. DOMAIN f = DOMAIN presetState.of \cup {p} /\ f[p] = x
          /\ f \in [DOMAIN presetState.of \cup {p} -> CredentialChoices]
      BY <1>1, <2>2, PutParts
    <2>4. a \in DOMAIN presetState.of \cup {p} \cup {None}
      BY <1>2
    <2>5. ~renew => a = presetState.active /\ p # presetState.active
      OBVIOUS
    <2>6. Begin(c, Saving(p, next, renew))
      BY <2>1
    <2>7. next.of = f /\ next.active = a
      OBVIOUS
    <2> HIDE DEF a, renew
    <2>8. next \in PresetLists
      <3>1. DOMAIN presetState.of \cup {p} \in SUBSET Presets
        BY <1>2
      <3> HIDE DEF f
      <3> QED BY <2>3, <2>4, <3>1, ListMade
    <2>9. next.of = IF p \in DOMAIN next.of
                    THEN Put(presetState.of, p, next.of[p])
                    ELSE Drop(presetState.of, p)
      BY <2>3, <2>7
    <2> HIDE DEF next
    <2> QED BY <2>5, <2>6, <2>7, <2>8, <2>9, BeginSave
  <1>4. CASE SaveAsNew(c)
    <2>1. PICK p \in Presets \ DOMAIN presetState.of, x \in DraftCredentials :
            Begin(c, Saving(p, [presetState EXCEPT !.of = Put(@, p, x)], FALSE))
      BY <1>4 DEF SaveAsNew
    <2> DEFINE a == presetState.active
               f == Put(presetState.of, p, x)
               next == [of |-> f, active |-> a]
    <2>2. x \in CredentialChoices
      BY <1>1, <1>2 DEF CredentialChoices, DraftCredentials
    <2>3. DOMAIN f = DOMAIN presetState.of \cup {p} /\ f[p] = x
          /\ f \in [DOMAIN presetState.of \cup {p} -> CredentialChoices]
      BY <1>1, <2>2, PutParts
    <2>4. a \in DOMAIN presetState.of \cup {p} \cup {None} /\ p # a
      BY <1>0, <1>2
    <2>6. Begin(c, Saving(p, next, FALSE))
      <3>1. [presetState EXCEPT !.of = Put(@, p, x)] = next
        BY <1>2
      <3> QED BY <2>1, <3>1
    <2>7. next.of = f /\ next.active = presetState.active
      OBVIOUS
    <2>8. next \in PresetLists
      <3>1. DOMAIN presetState.of \cup {p} \in SUBSET Presets
        BY <1>2
      <3> HIDE DEF f
      <3> QED BY <2>3, <2>4, <3>1, ListMade
    <2>9. next.of = IF p \in DOMAIN next.of
                    THEN Put(presetState.of, p, next.of[p])
                    ELSE Drop(presetState.of, p)
      BY <2>3, <2>7
    <2> HIDE DEF next
    <2> QED BY <2>4, <2>6, <2>7, <2>8, <2>9, BeginSave
  <1>5. CASE ActivatePreset(c)
    <2>1. PICK p \in DOMAIN presetState.of :
            Begin(c, Saving(p, [presetState EXCEPT !.active = p], TRUE))
      BY <1>5 DEF ActivatePreset
    <2> DEFINE next == [of |-> presetState.of, active |-> p]
    <2>2. [presetState EXCEPT !.active = p] = next
      BY <1>2
    <2>3. next.of = presetState.of
      OBVIOUS
    <2>4. next \in PresetLists
      BY <1>2, ListMade
    <2>5. next.of = IF p \in DOMAIN next.of
                    THEN Put(presetState.of, p, next.of[p])
                    ELSE Drop(presetState.of, p)
      BY <1>1, <2>3, PutSame
    <2>6. Begin(c, Saving(p, next, TRUE)) /\ p \in Presets
      BY <1>2, <2>1, <2>2
    <2> HIDE DEF next
    <2> QED BY <2>4, <2>5, <2>6, BeginSave
  <1>6. CASE DeletePreset(c)
    <2>0. PICK p \in DOMAIN presetState.of : \E a \in Successors(p) :
            Begin(c, Saving(p, [of |-> Drop(presetState.of, p), active |-> a], TRUE))
      BY <1>6 DEF DeletePreset
    <2>1. PICK a \in Successors(p) :
            Begin(c, Saving(p, [of |-> Drop(presetState.of, p), active |-> a], TRUE))
      BY <2>0
    <2> DEFINE f == Drop(presetState.of, p)
               next == [of |-> f, active |-> a]
    <2>2. DOMAIN f = DOMAIN presetState.of \ {p} /\ p \in Presets
          /\ f \in [DOMAIN presetState.of \ {p} -> CredentialChoices]
      BY <1>1, <1>2, DropParts
    <2>3. a \in (DOMAIN presetState.of \ {p}) \cup {None}
      <3>1. CASE presetState.active # p
        BY <1>2, <3>1 DEF Successors
      <3>2. CASE presetState.active = p
        BY <3>2 DEF Successors
      <3> QED BY <3>1, <3>2
    <2>4. next.of = f
      OBVIOUS
    <2>5. next \in PresetLists
      <3>1. DOMAIN presetState.of \ {p} \in SUBSET Presets
        BY <1>2
      <3> HIDE DEF f
      <3> QED BY <2>2, <2>3, <3>1, ListMade
    <2>6. next.of = IF p \in DOMAIN next.of
                    THEN Put(presetState.of, p, next.of[p])
                    ELSE Drop(presetState.of, p)
      BY <2>2, <2>4
    <2>7. Begin(c, Saving(p, next, TRUE))
      BY <2>1
    <2> HIDE DEF next
    <2> QED BY <2>2, <2>5, <2>6, <2>7, BeginSave
  <1>7. CASE CreateCredential(c)
    BY <1>7, BeginCredential DEF CreateCredential, Fresh
  <1>8. CASE DeleteCredential(c)
    BY <1>1, <1>8, BeginCredential DEF DeleteCredential
  <1> QED BY <1>3, <1>4, <1>5, <1>6, <1>7, <1>8 DEF UserStep

-----------------------------------------------------------------------------
(* The host.                                                               *)

LEMMA SettledParts ==
  /\ DOMAIN Settled = {"savePresets", "migratePresets", "fixActive", "saveProfiles",
                       "migrateProfiles", "setSecret", "deleteSecret", "verify",
                       "exists"}
  /\ Settled["savePresets"] = "presetsSaved"
  /\ Settled["migratePresets"] = "presetsMigrated"
  /\ Settled["fixActive"] = "activeFixed"
  /\ Settled["saveProfiles"] = "profilesSaved"
  /\ Settled["migrateProfiles"] = "profilesMigrated"
  /\ Settled["setSecret"] = "secretSet"
  /\ Settled["deleteSecret"] = "secretDeleted"
  /\ Settled["verify"] = "secretVerified"
  /\ Settled["exists"] = "secretsAsked"
  BY DEF Settled

\* Only the await of the operation changes.
SameBut(call, old, pc) ==
  /\ call.pc = pc /\ "pc" \in DOMAIN call
  /\ call.next = old.next /\ call.preset = old.preset /\ call.renew = old.renew
  /\ call.credential = old.credential /\ call.profiles = old.profiles
  /\ call.legacy = old.legacy

LEMMA Retold ==
  ASSUME NEW call, "pc" \in DOMAIN call, NEW pc
  PROVE  SameBut([call EXCEPT !.pc = pc], call, pc)
  BY DEF SameBut

LEMMA Settling ==
  ASSUME PresetsSafe, NEW c \in Everyone, queue # <<>>, Head(queue) = c,
         calls[c].pc \in DOMAIN Settled, Settles(c)
  PROVE  /\ SameBut(calls'[c], calls[c], Settled[calls[c].pc])
         /\ calls'[c].pc \in Answers(c)
         /\ Moves(c, calls'[c]) /\ Shaped(c)'
  <1> DEFINE pc == calls[c].pc
             call == [calls[c] EXCEPT !.pc = Settled[pc]]
  <1>1. Shaped(c) /\ "pc" \in DOMAIN calls[c]
    BY DEF PresetsSafe, Shaped
  <1>2. Answered(c, call)
    BY DEF Settles
  <1>3. Moves(c, call)
    BY <1>2, Answering
  <1>4. SameBut(call, calls[c], Settled[pc])
    BY <1>1, Retold
  <1>5. calls'[c] = call
    BY <1>3 DEF Moves
  <1>6. pc \in Waits(c)
    BY QueueTail
  <1> HIDE DEF call
  <1>7. calls'[c].pc = Settled[pc] /\ calls'[c].pc \in Answers(c)
    BY <1>4, <1>5, <1>6, SettledParts DEF SameBut, Answers, Waits
  <1>8. Shaped(c)'
    BY <1>1, <1>4, <1>5, <1>6, <1>7, SettledParts
       DEF SameBut, Shaped, WithNext, WithSecret, WithProfiles, Migrating
  <1> QED BY <1>3, <1>4, <1>5, <1>7, <1>8

\* What is known when the host has a command at hand.
LEMMA AtHost ==
  ASSUME PresetsInv, NEW c \in Everyone, queue # <<>>, Head(queue) = c
  PROVE  /\ PresetsSafe /\ calls[c].pc \in Waits(c) /\ Shaped(c) /\ FilesTyped
         /\ missing \subseteq {"presets", "profiles"}
         /\ ~overlapped => Course(c) /\ Agree(c)
  <1>1. calls[c].pc \in Waits(c) /\ calls[c] # Idle
    BY QueueTail DEF PresetsInv
  <1> QED BY <1>1, Acting DEF PresetsInv, PresetsSafe, PresetsTypeOK, FilesTyped

\* A save has removed the file.
LEMMA RemovingSteps ==
  ASSUME PresetsInv, NEW c \in Everyone, HostRemovesPresets(c) \/ HostRemovesProfiles(c)
  PROVE  PresetsInv'
  <1>1. /\ queue # <<>> /\ Head(queue) = c
        /\ calls[c].pc \in PresetSaves \cup ProfileSaves
        /\ UNCHANGED <<legacy, secrets, refVars, runtimeVars, calls, queue,
                       promised, overlapped>>
        /\ missing' \subseteq missing \cup {"presets", "profiles"}
    BY DEF HostRemovesPresets, HostRemovesProfiles, Turn
  <1>2. /\ PresetsSafe /\ calls[c].pc \in Waits(c) /\ Shaped(c) /\ FilesTyped
        /\ missing \subseteq {"presets", "profiles"}
        /\ ~overlapped => Course(c) /\ Agree(c)
    BY <1>1, AtHost
  <1>3. Moves(c, calls[c]) /\ Shaped(c)'
    BY <1>1, <1>2, Working DEF Shaped
  <1>4. FilesTyped' /\ missing' \subseteq {"presets", "profiles"}
    BY <1>1, <1>2 DEF FilesTyped, HostRemovesPresets, HostRemovesProfiles
  <1>5. ASSUME ~overlapped PROVE Course(c)' /\ Agree(c)'
    <2>1. UNCHANGED <<presetState, profileState, loaded, running, foundation>>
      BY <1>1 DEF refVars, runtimeVars
    <2>2. CASE HostRemovesPresets(c)
      <3>1. /\ "presets" \in missing' /\ profileFile' = profileFile
            /\ missing' = missing \cup {"presets"}
            /\ calls[c].pc \in PresetSaves /\ presetFile # None
        BY <2>2 DEF HostRemovesPresets, Turn
      <3>2. Agree(c)'
        BY <1>1, <1>2, <1>5, <2>1, <3>1 DEF Agree, SavedProfiles
      <3>3. calls[c].pc # "migratePresets"
        BY <1>2, <1>5, <3>1 DEF Course, Migrating
      <3>4. Course(c)'
        BY <1>1, <1>2, <1>5, <2>1, <3>1, <3>3
           DEF Course, SavedProfiles, PresetSaves, WithSecret, WithProfiles,
               Migrating, Waits, Answers
      <3> QED BY <3>2, <3>4
    <2>3. CASE HostRemovesProfiles(c)
      <3>1. /\ missing' = missing \cup {"profiles"} /\ presetFile' = presetFile
            /\ calls[c].pc \in ProfileSaves
        BY <2>3 DEF HostRemovesProfiles, Turn
      <3>2. Agree(c)'
        BY <1>1, <1>2, <1>5, <2>1, <3>1 DEF Agree, Saved, Listed
      <3>3. Course(c)'
        BY <1>1, <1>2, <1>5, <2>1, <3>1
           DEF Course, ProfileSaves, WithSecret, WithProfiles, Migrating, Waits,
               Answers
      <3> QED BY <3>2, <3>3
    <2> QED BY <2>2, <2>3, <1>5 DEF HostRemovesPresets
  <1> QED BY <1>1, <1>2, <1>3, <1>4, <1>5, QuietStep

\* A save has put the new file in place.
LEMMA RenamesPresetsStep ==
  ASSUME PresetsInv, NEW c \in Everyone, HostRenamesPresets(c)
  PROVE  PresetsInv'
  <1>1. /\ queue # <<>> /\ Head(queue) = c /\ calls[c].pc \in PresetSaves
        /\ presetFile' = calls[c].next /\ missing' = missing \ {"presets"}
        /\ Settles(c)
        /\ UNCHANGED <<legacy, profileFile, secrets, refVars, runtimeVars,
                       promised, overlapped>>
    BY DEF HostRenamesPresets, Turn
  <1>2. /\ PresetsSafe /\ calls[c].pc \in Waits(c) /\ Shaped(c) /\ FilesTyped
        /\ missing \subseteq {"presets", "profiles"}
        /\ ~overlapped => Course(c) /\ Agree(c)
    BY <1>1, AtHost
  <1>3. calls[c].pc \in DOMAIN Settled
    BY <1>1, SettledParts DEF PresetSaves
  <1>4. /\ SameBut(calls'[c], calls[c], Settled[calls[c].pc])
        /\ calls'[c].pc \in Answers(c)
        /\ Moves(c, calls'[c]) /\ Shaped(c)'
    BY <1>1, <1>2, <1>3, Settling
  <1>5. calls[c].next \in PresetLists /\ calls[c].next # None
    BY <1>1, <1>2, NoFileAssumption DEF Shaped, PresetSaves, WithNext
  <1>6. FilesTyped' /\ missing' \subseteq {"presets", "profiles"}
    BY <1>1, <1>2, <1>5 DEF FilesTyped
  <1>7. ASSUME ~overlapped PROVE Course(c)' /\ Agree(c)'
    <2>1. /\ UNCHANGED <<presetState, profileState, loaded, running, foundation,
                         promised, profileFile>>
          /\ "presets" \notin missing' /\ ("profiles" \in missing => "profiles" \in missing')
      BY <1>1 DEF refVars, runtimeVars
    <2>2. Saved' = calls[c].next.of
      BY <1>1, <1>5 DEF Saved
    <2>3. Course(c) /\ Agree(c)
      BY <1>2, <1>7
    <2>4. CASE calls[c].pc = "savePresets"
      <3>1. calls'[c].pc = "presetsSaved"
        BY <1>4, <2>4, SettledParts DEF SameBut
      <3>2. Agree(c)'
        BY <2>1, <2>3, <2>4, <3>1 DEF Agree, SavedProfiles
      <3>3. Course(c)'
        BY <1>1, <1>4, <2>1, <2>3, <2>4, <3>1
           DEF SameBut, Course, WithSecret, WithProfiles, Migrating, Waits, Answers
      <3> QED BY <3>2, <3>3
    <2>5. CASE calls[c].pc = "migratePresets"
      <3>1. calls'[c].pc = "presetsMigrated"
        BY <1>4, <2>5, SettledParts DEF SameBut
      <3>2. c = Startup /\ ~loaded
        <4>1. c = Startup /\ calls[c] # Idle
              /\ calls[c].pc \notin {"idle", "stop", "start"}
          BY <1>2, <2>5 DEF Waits, Idle
        <4> QED BY <1>7, <4>1, Acting
      <3>3. Agree(c)'
        BY <2>1, <3>1, <3>2 DEF Agree
      <3>4. Course(c)'
        BY <1>1, <1>4, <2>1, <2>3, <2>5, <3>1
           DEF SameBut, Course, WithSecret, WithProfiles, Migrating, Waits, Answers,
               SavedProfiles
      <3> QED BY <3>3, <3>4
    <2>6. CASE calls[c].pc = "fixActive"
      <3>1. calls'[c].pc = "activeFixed"
        BY <1>4, <2>6, SettledParts DEF SameBut
      <3>2. c = Startup /\ ~loaded
        <4>1. c = Startup /\ calls[c] # Idle
              /\ calls[c].pc \notin {"idle", "stop", "start"}
          BY <1>2, <2>6 DEF Waits, Idle
        <4> QED BY <1>7, <4>1, Acting
      <3>3. calls[c].next.of = promised
        BY <2>3, <2>6 DEF Course
      <3>4. Agree(c)'
        BY <2>1, <2>2, <3>1, <3>2, <3>3 DEF Agree
      <3>5. Course(c)'
        BY <1>1, <1>4, <2>1, <2>3, <2>6, <3>1
           DEF SameBut, Course, WithSecret, WithProfiles, Migrating, Waits, Answers,
               SavedProfiles
      <3> QED BY <3>4, <3>5
    <2> QED BY <1>1, <2>4, <2>5, <2>6 DEF PresetSaves
  <1> QED BY <1>1, <1>2, <1>4, <1>6, <1>7, QuietStep

LEMMA RenamesProfilesStep ==
  ASSUME PresetsInv, NEW c \in Everyone, HostRenamesProfiles(c)
  PROVE  PresetsInv'
  <1>1. /\ queue # <<>> /\ Head(queue) = c /\ calls[c].pc \in ProfileSaves
        /\ profileFile' = IF calls[c].pc = "saveProfiles" THEN calls[c].next
                          ELSE calls[c].profiles
        /\ missing' = missing \ {"profiles"} /\ Settles(c)
        /\ UNCHANGED <<legacy, presetFile, secrets, refVars, runtimeVars,
                       promised, overlapped>>
    BY DEF HostRenamesProfiles, Turn
  <1>2. /\ PresetsSafe /\ calls[c].pc \in Waits(c) /\ Shaped(c) /\ FilesTyped
        /\ missing \subseteq {"presets", "profiles"}
        /\ ~overlapped => Course(c) /\ Agree(c)
    BY <1>1, AtHost
  <1>3. calls[c].pc \in DOMAIN Settled
    BY <1>1, SettledParts DEF ProfileSaves
  <1>4. /\ SameBut(calls'[c], calls[c], Settled[calls[c].pc])
        /\ calls'[c].pc \in Answers(c)
        /\ Moves(c, calls'[c]) /\ Shaped(c)'
    BY <1>1, <1>2, <1>3, Settling
  <1>5. profileFile' \subseteq Credentials /\ profileFile' # None
    BY <1>1, <1>2, NoFileAssumption DEF Shaped, ProfileSaves, WithProfiles
  <1>6. FilesTyped' /\ missing' \subseteq {"presets", "profiles"}
    BY <1>1, <1>2, <1>5 DEF FilesTyped
  <1>7. ASSUME ~overlapped PROVE Course(c)' /\ Agree(c)'
    <2>1. /\ UNCHANGED <<presetState, profileState, loaded, running, foundation,
                         promised, presetFile>>
          /\ "presets" \in missing' <=> "presets" \in missing
      BY <1>1 DEF refVars, runtimeVars
    <2>2. SavedProfiles' = profileFile'
      BY <1>5 DEF SavedProfiles
    <2>3. Course(c) /\ Agree(c)
      BY <1>2, <1>7
    <2>4. CASE calls[c].pc = "saveProfiles"
      <3>1. calls'[c].pc = "profilesSaved"
        BY <1>4, <2>4, SettledParts DEF SameBut
      <3>2. Agree(c)'
        BY <2>1, <2>3, <2>4, <3>1 DEF Agree, Saved, Listed
      <3>3. Course(c)'
        BY <1>1, <1>4, <2>1, <2>3, <2>4, <3>1
           DEF SameBut, Course, WithSecret, WithProfiles, Migrating, Waits, Answers
      <3> QED BY <3>2, <3>3
    <2>5. CASE calls[c].pc = "migrateProfiles"
      <3>1. calls'[c].pc = "profilesMigrated"
        BY <1>4, <2>5, SettledParts DEF SameBut
      <3>2. c = Startup /\ ~loaded
        <4>1. c = Startup /\ calls[c] # Idle
              /\ calls[c].pc \notin {"idle", "stop", "start"}
          BY <1>2, <2>5 DEF Waits, Idle
        <4> QED BY <1>7, <4>1, Acting
      <3>3. Agree(c)'
        BY <2>1, <2>3, <2>5, <3>2 DEF Agree, Saved
      <3>4. Course(c)'
        BY <1>1, <1>4, <2>1, <2>2, <2>3, <2>5, <3>1
           DEF SameBut, Course, WithSecret, WithProfiles, Migrating, Waits, Answers
      <3> QED BY <3>3, <3>4
    <2> QED BY <1>1, <2>4, <2>5 DEF ProfileSaves
  <1> QED BY <1>1, <1>2, <1>4, <1>6, <1>7, QuietStep

\* The steps with secrets, which no file and nothing App keeps depend on.
LEMMA SecretHostSteps ==
  ASSUME PresetsInv, NEW c \in Everyone,
         \/ HostSetsSecret(c) \/ HostDeletesSecret(c)
         \/ HostFindsSecret(c) /\ calls[c].credential \in secrets
         \/ HostFindsSecrets /\ c = Startup
  PROVE  PresetsInv'
  <1>1. /\ queue # <<>> /\ Head(queue) = c
        /\ calls[c].pc \in {"setSecret", "deleteSecret", "verify", "exists"}
        /\ Settles(c)
        /\ UNCHANGED <<legacy, presetFile, profileFile, refVars, runtimeVars,
                       promised, missing, overlapped>>
        /\ secrets' \in {secrets, secrets \cup {calls[c].credential},
                         secrets \ {calls[c].credential}}
        /\ secrets' \subseteq secrets \/ calls[c].pc = "setSecret"
    BY DEF HostSetsSecret, HostDeletesSecret, HostFindsSecret, HostFindsSecrets,
           Turn, hostVars, historyVars
  <1>2. /\ PresetsSafe /\ calls[c].pc \in Waits(c) /\ Shaped(c) /\ FilesTyped
        /\ missing \subseteq {"presets", "profiles"}
        /\ ~overlapped => Course(c) /\ Agree(c)
    BY <1>1, AtHost
  <1>3. calls[c].pc \in DOMAIN Settled
    BY <1>1, SettledParts
  <1>4. /\ SameBut(calls'[c], calls[c], Settled[calls[c].pc])
        /\ calls'[c].pc \in Answers(c)
        /\ Moves(c, calls'[c]) /\ Shaped(c)'
    BY <1>1, <1>2, <1>3, Settling
  <1>5. FilesTyped'
    <2>1. calls[c].pc = "setSecret" => calls[c].credential \in Credentials
      BY <1>2 DEF Shaped, WithSecret
    <2>2. secrets' \subseteq Credentials
      BY <1>1, <1>2, <2>1 DEF FilesTyped
    <2> QED BY <1>1, <1>2, <2>2 DEF FilesTyped
  <1>6. ASSUME ~overlapped PROVE Course(c)' /\ Agree(c)'
    <2>1. UNCHANGED <<presetState, profileState, loaded, running, foundation,
                      promised, presetFile, profileFile, missing>>
      BY <1>1 DEF refVars, runtimeVars
    <2>2. Course(c) /\ Agree(c)
      BY <1>2, <1>6
    <2>3. \/ /\ calls[c].pc \in {"setSecret", "deleteSecret", "verify"}
             /\ calls'[c].pc \in {"secretSet", "secretDeleted", "secretVerified"}
          \/ calls[c].pc = "exists" /\ calls'[c].pc = "secretsAsked"
      BY <1>1, <1>4, SettledParts DEF SameBut
    <2>4. Agree(c)'
      BY <1>1, <2>1, <2>2 DEF Agree, Saved, Listed, SavedProfiles
    <2>5. Course(c)'
      BY <1>4, <2>1, <2>2, <2>3
         DEF SameBut, Course, Saved, Listed, SavedProfiles, WithSecret, WithProfiles,
             Migrating, Waits, Answers
    <2> QED BY <2>4, <2>5
  <1> QED BY <1>1, <1>2, <1>4, <1>5, <1>6, QuietStep

\* The startup is told what is stored.
LEMMA LoadingHostSteps ==
  ASSUME PresetsInv, \/ HostLoadsLegacy \/ HostCannotLoadLegacy
                     \/ HostLoadsProfiles \/ HostLoadsPresets
  PROVE  PresetsInv'
  <1> DEFINE c == Startup
             call == calls'[c]
  <1>1. /\ queue # <<>> /\ Head(queue) = c /\ c \in Everyone
        /\ calls[c].pc \in {"loadLegacy", "loadProfiles", "loadPresets"}
        /\ UNCHANGED <<legacy, presetFile, profileFile, secrets, refVars,
                       runtimeVars, promised, missing, overlapped>>
    BY DEF HostLoadsLegacy, HostCannotLoadLegacy, HostLoadsProfiles,
           HostLoadsPresets, Turn, hostVars, historyVars, Everyone
  <1>2. /\ PresetsSafe /\ calls[c].pc \in Waits(c) /\ Shaped(c) /\ FilesTyped
        /\ missing \subseteq {"presets", "profiles"}
        /\ ~overlapped => Course(c) /\ Agree(c)
    BY <1>1, AtHost
  <1>3. \/ /\ calls[c].pc = "loadLegacy"
           /\ \E old \in {legacy, NoLegacy} :
                Answered(c, [pc |-> "legacyLoaded", legacy |-> old])
        \/ /\ calls[c].pc = "loadProfiles"
           /\ Answered(c, [pc |-> "profilesLoaded", legacy |-> calls[c].legacy,
                           profiles |-> SavedProfiles])
        \/ /\ calls[c].pc = "loadPresets"
           /\ Answered(c, [pc |-> "presetsLoaded", legacy |-> calls[c].legacy,
                           profiles |-> calls[c].profiles, presets |-> presetFile])
    BY DEF HostLoadsLegacy, HostCannotLoadLegacy, HostLoadsProfiles,
           HostLoadsPresets, Turn
  <1>4. \E x : Answered(c, x)
    BY <1>3
  <1>5. Moves(c, call) /\ \A x : Answered(c, x) => call = x
    <2>1. PICK x : Answered(c, x)
      BY <1>4
    <2>2. Moves(c, x)
      BY <1>1, <1>2, <2>1, Answering
    <2>3. call = x
      BY <2>2 DEF Moves
    <2> QED BY <1>1, <1>2, <2>2, <2>3 DEF Answered, PresetsSafe, PresetsTypeOK
  <1>6. \/ /\ calls[c].pc = "loadLegacy" /\ call.pc = "legacyLoaded"
           /\ call.legacy \in {legacy, NoLegacy}
        \/ /\ calls[c].pc = "loadProfiles" /\ call.pc = "profilesLoaded"
           /\ call.legacy = calls[c].legacy /\ call.profiles = SavedProfiles
        \/ /\ calls[c].pc = "loadPresets" /\ call.pc = "presetsLoaded"
           /\ call.legacy = calls[c].legacy /\ call.profiles = calls[c].profiles
           /\ call.presets = presetFile
    BY <1>3, <1>5
  <1>7. "pc" \in DOMAIN call
    BY <1>3, <1>5
  <1> HIDE DEF call
  <1>8. SavedProfiles \subseteq Credentials /\ NoLegacy \in CredentialChoices
    BY <1>2 DEF FilesTyped, SavedProfiles, NoLegacy, CredentialChoices
  <1>9. Shaped(c)' /\ call.pc \in Answers(c)
    <2>1. call.pc \in {"legacyLoaded", "profilesLoaded", "presetsLoaded"}
      BY <1>6
    <2>2. call.pc \in Answers(c)
      BY <2>1 DEF Answers
    <2>3. call.legacy \in CredentialChoices
      BY <1>2, <1>6, <1>8 DEF Shaped, FilesTyped
    <2>4. call.pc \in WithProfiles => call.profiles \subseteq Credentials
      BY <1>2, <1>6, <1>8 DEF Shaped, WithProfiles
    <2>5. call.pc = "presetsLoaded" => call.presets \in PresetLists \cup {None}
      BY <1>2, <1>6 DEF FilesTyped
    <2> QED BY <1>7, <2>1, <2>2, <2>3, <2>4, <2>5
            DEF call, Shaped, WithNext, WithSecret, Migrating
  <1>10. FilesTyped'
    BY <1>1, <1>2 DEF FilesTyped
  <1>11. ASSUME ~overlapped PROVE Course(c)' /\ Agree(c)'
    <2>1. /\ UNCHANGED <<presetState, profileState, loaded, running, foundation,
                      promised, presetFile, profileFile, missing>>
          /\ Course(c) /\ Agree(c)
      BY <1>1, <1>2, <1>11 DEF refVars, runtimeVars
    <2>2. Agree(c)'
      BY <1>1, <2>1 DEF Agree, Saved, Listed, SavedProfiles
    <2>3. Course(c)'
      BY <1>6, <2>1
         DEF call, Course, SavedProfiles, WithSecret, WithProfiles, Migrating, Waits,
             Answers
    <2> QED BY <2>2, <2>3
  <1> QED BY <1>1, <1>2, <1>5, <1>9, <1>10, <1>11, QuietStep DEF call

\* The operation ends: its command was refused, or the secret is not there.
LEMMA EndingSteps ==
  ASSUME PresetsInv, NEW c \in Everyone,
         CommandFails(c) \/ (HostFindsSecret(c) /\ calls[c].credential \notin secrets)
  PROVE  PresetsInv'
  <1>1. /\ queue # <<>> /\ Head(queue) = c /\ Answered(c, Idle)
        /\ UNCHANGED <<legacy, presetFile, profileFile, secrets, refVars,
                       runtimeVars, promised, missing, overlapped>>
    BY DEF CommandFails, HostFindsSecret, Turn, hostVars, historyVars
  <1>2. /\ PresetsSafe /\ calls[c].pc \in Waits(c) /\ FilesTyped
        /\ missing \subseteq {"presets", "profiles"}
        /\ ~overlapped => Agree(c)
    BY <1>1, AtHost
  <1>3. Moves(c, Idle)
    BY <1>1, <1>2, Answering
  <1>4. calls'[c] = Idle /\ Idle.pc = "idle"
    BY <1>3 DEF Moves, Idle
  <1>5. Shaped(c)' /\ Course(c)'
    BY <1>4, IdleSays
  <1>6. FilesTyped'
    BY <1>1, <1>2 DEF FilesTyped
  <1>7. ~overlapped => Agree(c)'
    <2>1. calls[c].pc \notin {"presetsSaved", "presetsMigrated", "profilesSaved"}
      BY <1>2 DEF Waits
    <2> QED BY <1>1, <1>2, <2>1 DEF Agree, Saved, Listed, SavedProfiles, refVars
  <1> QED BY <1>1, <1>2, <1>3, <1>4, <1>5, <1>6, <1>7, QuietStep

-----------------------------------------------------------------------------
(* Answers reach the operations of the user.                               *)

\* What is known when an answer has come.
LEMMA AtAnswer ==
  ASSUME PresetsInv, NEW c \in Everyone, calls[c].pc \in Answers(c)
  PROVE  /\ PresetsSafe /\ Shaped(c) /\ FilesTyped
         /\ missing \subseteq {"presets", "profiles"}
         /\ DOMAIN calls = Everyone
         /\ calls[c].pc \notin Waits(c) \cup {"idle", "stop", "start"}
         /\ presetState \in PresetLists /\ profileState \subseteq Credentials
         /\ ~overlapped => /\ Course(c) /\ Agree(c) /\ Stopped
                           /\ \A d \in Everyone : d # c => calls[d] = Idle
                           /\ c = Startup => ~loaded
                           /\ c # Startup => loaded
                           /\ ~loaded \/ unstarted \/ Serving
  <1>1. calls[c].pc \notin Waits(c) \cup {"idle", "stop", "start"}
    BY AwaitsDiffer
  <1>2. calls[c] # Idle
    BY <1>1 DEF Idle
  <1> QED BY <1>1, <1>2, Acting DEF PresetsInv, PresetsSafe, PresetsTypeOK, FilesTyped

\* The record refreshRuntime begins with.
LEMMA RenewingParts ==
  ASSUME NEW s, NEW profiles, NEW call, call = Renewing(s, profiles)
  PROVE  /\ call.pc \in {"stop", "start"} /\ call.state = s
         /\ call.profiles = profiles /\ "pc" \in DOMAIN call
         /\ call.pc = "stop" => call.runtime = foundation
         /\ call.pc = "start" <=> foundation = 0
  BY DEF Renewing

LEMMA RenewingShape ==
  ASSUME NEW c, NEW s \in PresetLists, NEW profiles \in SUBSET Credentials,
         calls'[c] = Renewing(s, profiles)
  PROVE  Shaped(c)'
  <1> DEFINE call == calls'[c]
  <1>1. /\ call.pc \in {"stop", "start"} /\ call.state = s
        /\ call.profiles = profiles /\ "pc" \in DOMAIN call
    BY RenewingParts
  <1> QED BY <1>1 DEF Shaped, WithNext, WithSecret, WithProfiles, Migrating

\* The course of a renewal at its beginning.
LEMMA RenewingCourse ==
  ASSUME PresetsSafe, Stopped, NEW c \in Everyone, NEW call,
         call = Renewing(presetState', profileState'), calls'[c] = call,
         UNCHANGED <<running, foundation>>, loaded'
  PROVE  Course(c)'
  <1>1. running \subseteq 1..MaxRuntimes
    BY DEF PresetsSafe, PresetsTypeOK
  <1>2. foundation = 0 => running = {}
    BY <1>1 DEF Stopped
  <1>3. /\ call.pc \in {"stop", "start"} /\ call.state = presetState'
        /\ call.profiles = profileState'
        /\ call.pc = "stop" => call.runtime = foundation
        /\ call.pc = "start" <=> foundation = 0
    BY RenewingParts
  <1> HIDE DEF Renewing
  <1> QED BY <1>2, <1>3
          DEF Course, WithSecret, WithProfiles, Migrating, Waits, Answers

LEMMA PresetsSavedStep ==
  ASSUME PresetsInv, NEW c \in Callers, PresetsSaved(c)
  PROVE  PresetsInv'
  <1> DEFINE p == calls[c].preset
             next == calls[c].next
             call == IF calls[c].renew THEN Renewing(next, profileState) ELSE Idle
  <1>1. c \in Everyone /\ c # Startup /\ calls[c].pc = "presetsSaved"
    BY PresetsAssumption DEF Everyone, PresetsSaved
  <1>2. calls[c].pc \in Answers(c)
    BY <1>1 DEF Answers
  <1>3. /\ presetState' = next
        /\ leftover' = IF DOMAIN next.of = {} /\ p \in DOMAIN presetState.of
                       THEN presetState.of[p] ELSE None
        /\ promised' = IF overlapped THEN promised
                       ELSE IF p \in DOMAIN next.of
                       THEN Put(promised, p, next.of[p])
                       ELSE Drop(promised, p)
        /\ UNCHANGED <<legacy, presetFile, profileFile, secrets, profileState, loaded,
                       foundation, running, serves, unstarted, missing, overlapped>>
        /\ Goes(c, call)
    BY DEF PresetsSaved, runtimeVars, hostVars
  <1>4. /\ PresetsSafe /\ Shaped(c) /\ FilesTyped
        /\ missing \subseteq {"presets", "profiles"}
        /\ calls[c].pc \notin Waits(c) \cup {"idle", "stop", "start"}
        /\ presetState \in PresetLists /\ profileState \subseteq Credentials
        /\ next \in PresetLists /\ p \in Presets
    BY <1>1, <1>2, AtAnswer DEF Shaped, WithNext
  <1>5. Moves(c, call)
    BY <1>1, <1>3, <1>4, OutOfQueue
  <1>6. calls[c].renew => call = Renewing(next, profileState)
    OBVIOUS
  <1>7. ~calls[c].renew => call = Idle
    OBVIOUS
  <1> HIDE DEF call, next, p
  <1>8. calls'[c] = call
    BY <1>5 DEF Moves
  <1>9. Shaped(c)'
    <2>1. CASE calls[c].renew
      BY <1>4, <1>6, <1>8, <2>1, RenewingShape
    <2>2. CASE ~calls[c].renew
      BY <1>7, <1>8, <2>2, IdleSays
    <2> QED BY <2>1, <2>2
  <1>10. PresetsSafe'
    <2>1. leftover' \in CredentialChoices
      BY <1>3, <1>4, ListParts DEF CredentialChoices
    <2>2. Renewed'
      BY <1>1, <1>3, <1>4, <1>5, RenewedStays
    <2>3. FilesTyped'
      BY <1>3, <1>4 DEF FilesTyped
    <2> QED BY <1>1, <1>3, <1>4, <1>5, <1>9, <2>1, <2>2, <2>3, SafeStep
            DEF PresetsSafe, PresetsTypeOK
  <1>11. ASSUME ~overlapped' PROVE OneByOne'
    <2>1. /\ ~overlapped /\ Course(c) /\ Agree(c) /\ Stopped
          /\ \A d \in Everyone : d # c => calls[d] = Idle
          /\ loaded /\ (unstarted \/ Serving)
      BY <1>1, <1>2, <1>3, <1>11, AtAnswer
    <2>2. /\ next.of = IF p \in DOMAIN next.of
                       THEN Put(presetState.of, p, next.of[p])
                       ELSE Drop(presetState.of, p)
          /\ ~calls[c].renew => /\ next.active = presetState.active
                                /\ p # presetState.active
          /\ presetFile = next
      BY <1>1, <2>1 DEF Course, next, p
    <2>3. /\ presetState.of = promised
          /\ "profiles" \in missing \/ profileState = SavedProfiles
      BY <1>1, <2>1 DEF Agree
    <2>4. next # None
      BY <1>4, NoFileAssumption
    <2>5. /\ Saved' = promised' /\ presetState'.of = promised'
          /\ presetState' = Listed' /\ SavedProfiles' = SavedProfiles
      BY <1>3, <2>1, <2>2, <2>3, <2>4 DEF Saved, Listed, SavedProfiles
    <2>6. Agree(c)' /\ Stopped'
      BY <1>3, <2>1, <2>3, <2>5 DEF Agree, Stopped
    <2>7. CASE calls[c].renew
      <3>1. call = Renewing(presetState', profileState')
        BY <1>3, <1>6, <2>7
      <3>2. Course(c)'
        BY <1>1, <1>3, <1>4, <1>8, <2>1, <3>1, RenewingCourse
      <3>3. call.pc \in {"stop", "start"}
        BY <3>1, RenewingParts
      <3> QED BY <1>1, <1>3, <1>5, <2>1, <2>6, <3>2, <3>3, OneStep
    <2>8. CASE ~calls[c].renew
      <3>1. call = Idle
        BY <1>7, <2>8
      <3>2. Course(c)'
        BY <1>8, <3>1, IdleSays
      <3>3. Serving => Serving'
        <4>1. next.active = presetState.active /\ p # presetState.active
          BY <2>2, <2>8
        <4>2. presetState.active # None =>
                 next.of[presetState.active] = presetState.of[presetState.active]
          BY <1>4, <2>2, <4>1, ListParts DEF Put, Drop
        <4> QED BY <1>3, <4>1, <4>2 DEF Serving
      <3>4. unstarted' \/ Serving'
        BY <1>3, <2>1, <3>3
      <3> QED BY <1>1, <1>3, <1>5, <2>1, <2>6, <3>2, <3>4, OneStep
    <2> QED BY <2>7, <2>8
  <1> QED BY <1>10, <1>11 DEF PresetsInv

\* An operation goes on to its next command, with nothing else changed.
LEMMA GoesOnStep ==
  ASSUME PresetsInv, NEW c \in Everyone, calls[c].pc \in Answers(c),
         NEW call, call.pc \in Waits(c), Invokes(c, call),
         UNCHANGED <<hostVars, refVars, runtimeVars, missing, overlapped>>,
         Shaped(c)', ~overlapped => Course(c)' /\ Agree(c)'
  PROVE  PresetsInv'
  <1>1. /\ PresetsSafe /\ FilesTyped /\ missing \subseteq {"presets", "profiles"}
        /\ calls[c].pc \notin Waits(c)
    BY AtAnswer
  <1>2. Moves(c, call)
    BY <1>1, Appending
  <1>3. FilesTyped'
    BY <1>1 DEF FilesTyped, hostVars
  <1> QED BY <1>1, <1>2, <1>3, QuietStep

\* The steps with the secret of a credential change nothing App keeps.
LEMMA SecretSteps ==
  ASSUME PresetsInv, NEW c \in Callers,
         SecretSet(c) \/ SecretVerified(c) \/ SecretDeleted(c)
  PROVE  PresetsInv'
  <1> DEFINE x == calls[c].credential
             call == calls'[c]
  <1>1. /\ c \in Everyone /\ c # Startup
        /\ calls[c].pc \in {"secretSet", "secretVerified", "secretDeleted"}
    BY PresetsAssumption DEF Everyone, SecretSet, SecretVerified, SecretDeleted
  <1>2. calls[c].pc \in Answers(c)
    BY <1>1 DEF Answers
  <1>3. /\ PresetsSafe /\ Shaped(c) /\ DOMAIN calls = Everyone
        /\ profileState \subseteq Credentials /\ x \in Credentials
        /\ "pc" \in DOMAIN calls[c]
    BY <1>1, <1>2, AtAnswer DEF Shaped, WithSecret
  <1>4. UNCHANGED <<hostVars, refVars, runtimeVars, promised, missing, overlapped>>
    BY DEF SecretSet, SecretVerified, SecretDeleted, historyVars
  <1>5. /\ Invokes(c, call) /\ "pc" \in DOMAIN call
        /\ \/ call.pc = "verify" /\ call.credential = x
           \/ /\ call.pc = "saveProfiles"
              /\ call.next \in {profileState \cup {x}, profileState \ {x}}
    <2>1. CASE SecretSet(c)
      <3> DEFINE new == [calls[c] EXCEPT !.pc = "verify"]
      <3>1. Invokes(c, new)
        BY <2>1 DEF SecretSet
      <3>2. SameBut(new, calls[c], "verify")
        BY <1>3, Retold
      <3>3. call = new
        BY <1>1, <1>3, <3>1 DEF Invokes
      <3> HIDE DEF new, call
      <3> QED BY <3>1, <3>2, <3>3 DEF SameBut
    <2>2. CASE SecretVerified(c) \/ SecretDeleted(c)
      <3>1. PICK next \in {profileState \cup {x}, profileState \ {x}} :
              Invokes(c, [pc |-> "saveProfiles", next |-> next])
        BY <2>2 DEF SecretVerified, SecretDeleted
      <3>2. call = [pc |-> "saveProfiles", next |-> next]
        BY <1>1, <1>3, <3>1 DEF Invokes
      <3> HIDE DEF call
      <3> QED BY <3>1, <3>2
    <2> QED BY <2>1, <2>2
  <1> HIDE DEF x, call
  <1>6. call.pc \in Waits(c)
    BY <1>1, <1>5 DEF Waits
  <1>7. Shaped(c)'
    BY <1>3, <1>5, <1>6
       DEF call, Shaped, WithNext, WithSecret, WithProfiles, Migrating
  <1>8. ASSUME ~overlapped PROVE Course(c)' /\ Agree(c)'
    <2>1. Course(c) /\ Agree(c)
      BY <1>1, <1>2, <1>8, AtAnswer
    <2>2. UNCHANGED <<presetState, profileState, loaded, presetFile, profileFile,
                      promised, missing>>
      BY <1>4 DEF hostVars, refVars
    <2>3. ~Uses(presetState.of, x)
      BY <1>1, <2>1 DEF Course, WithSecret, x
    <2>4. Agree(c)'
      BY <1>1, <2>1, <2>2 DEF Agree, Saved, Listed, SavedProfiles
    <2>5. call.pc = "saveProfiles" =>
            \A y \in Credentials : Uses(presetState.of, y) =>
               (y \in call.next <=> y \in profileState)
      BY <1>5, <2>3
    <2>6. Course(c)'
      BY <1>5, <2>2, <2>3, <2>5
         DEF call, Course, WithSecret, WithProfiles, Migrating, Waits, Answers
    <2> QED BY <2>4, <2>6
  <1> QED BY <1>1, <1>2, <1>4, <1>5, <1>6, <1>7, <1>8, GoesOnStep

LEMMA ProfilesSavedStep ==
  ASSUME PresetsInv, NEW c \in Callers, ProfilesSaved(c)
  PROVE  PresetsInv'
  <1> DEFINE next == calls[c].next
  <1>1. c \in Everyone /\ c # Startup /\ calls[c].pc = "profilesSaved"
    BY PresetsAssumption DEF Everyone, ProfilesSaved
  <1>2. calls[c].pc \in Answers(c)
    BY <1>1 DEF Answers
  <1>3. /\ profileState' = next /\ Goes(c, Idle)
        /\ UNCHANGED <<legacy, presetFile, profileFile, secrets, presetState, loaded,
                       leftover, foundation, running, serves, unstarted, promised,
                       missing, overlapped>>
    BY DEF ProfilesSaved, runtimeVars, hostVars, historyVars
  <1>4. /\ PresetsSafe /\ Shaped(c) /\ FilesTyped
        /\ missing \subseteq {"presets", "profiles"}
        /\ calls[c].pc \notin Waits(c) \cup {"idle", "stop", "start"}
        /\ presetState \in PresetLists /\ profileState \subseteq Credentials
        /\ next \subseteq Credentials
    BY <1>1, <1>2, AtAnswer DEF Shaped
  <1>5. Moves(c, Idle)
    BY <1>1, <1>3, <1>4, OutOfQueue
  <1>6. calls'[c] = Idle /\ Idle.pc = "idle"
    BY <1>5 DEF Moves, Idle
  <1> HIDE DEF next
  <1>7. Shaped(c)' /\ Course(c)'
    BY <1>6, IdleSays
  <1>8. PresetsSafe'
    <2>1. Renewed'
      BY <1>1, <1>3, <1>4, <1>5, RenewedStays
    <2>2. FilesTyped'
      BY <1>3, <1>4 DEF FilesTyped
    <2> QED BY <1>1, <1>3, <1>4, <1>5, <1>7, <2>1, <2>2, SafeStep
            DEF PresetsSafe, PresetsTypeOK
  <1>9. ASSUME ~overlapped' PROVE OneByOne'
    <2>1. /\ ~overlapped /\ Course(c) /\ Agree(c) /\ Stopped
          /\ \A d \in Everyone : d # c => calls[d] = Idle
          /\ loaded /\ (unstarted \/ Serving)
      BY <1>1, <1>2, <1>3, <1>9, AtAnswer
    <2>2. /\ profileFile = next
          /\ \A x \in Credentials : Uses(presetState.of, x) =>
                (x \in next <=> x \in profileState)
      BY <1>1, <2>1 DEF Course, next
    <2>3. next # None
      BY <1>4, NoFileAssumption
    <2>4. Agree(c)' /\ Stopped'
      BY <1>1, <1>3, <2>1, <2>2, <2>3 DEF Agree, Listed, Saved, SavedProfiles, Stopped
    <2>5. Serving => Serving'
      <3> SUFFICES ASSUME Serving, presetState.active # None
                   PROVE  LET x == presetState.of[presetState.active] IN
                          (IF x \in next THEN x ELSE None) =
                            (IF x \in profileState THEN x ELSE None)
        BY <1>3 DEF Serving
      <3> DEFINE x == presetState.of[presetState.active]
      <3>1. Uses(presetState.of, x)
        BY <1>4, ListParts DEF Uses
      <3> HIDE DEF x
      <3>2. x \in next <=> x \in profileState
        BY <1>4, <2>2, <3>1
      <3> QED BY <3>2 DEF x
    <2>6. unstarted' \/ Serving'
      BY <1>3, <2>1, <2>5
    <2> QED BY <1>1, <1>3, <1>5, <1>6, <1>7, <2>1, <2>4, <2>6, OneStep
  <1> QED BY <1>8, <1>9 DEF PresetsInv

-----------------------------------------------------------------------------
(* Answers reach the startup.                                              *)

\* What the startup knows when an answer has come.
LEMMA StartupAt ==
  ASSUME PresetsInv, calls[Startup].pc \in Answers(Startup)
  PROVE  /\ Startup \in Everyone /\ Shaped(Startup) /\ FilesTyped /\ PresetsSafe
         /\ calls[Startup].pc \notin Waits(Startup) \cup {"idle", "stop", "start"}
         /\ DOMAIN calls = Everyone /\ "pc" \in DOMAIN calls[Startup]
         /\ missing \subseteq {"presets", "profiles"}
         /\ ~overlapped =>
              /\ Course(Startup) /\ Agree(Startup) /\ ~loaded /\ Stopped
              /\ \A d \in Everyone : d # Startup => calls[d] = Idle
              /\ "presets" \notin missing
              /\ calls[Startup].pc # "presetsMigrated" => Saved = promised
  <1>1. Startup \in Everyone
    BY DEF Everyone
  <1>2. "presetsSaved" \notin Answers(Startup) /\ "fixActive" \notin Answers(Startup)
    BY DEF Answers
  <1>3. ASSUME ~overlapped
        PROVE  /\ Course(Startup) /\ Agree(Startup) /\ ~loaded /\ Stopped
               /\ \A d \in Everyone : d # Startup => calls[d] = Idle
               /\ "presets" \notin missing
    <2>1. Course(Startup)
      BY <1>1, <1>3, AtAnswer
    <2>2. "presets" \notin missing
      BY <1>2, <2>1 DEF Course
    <2> QED BY <1>1, <1>3, <2>1, <2>2, AtAnswer
  <1>4. ~overlapped /\ calls[Startup].pc # "presetsMigrated" => Saved = promised
    BY <1>2, <1>3 DEF Agree
  <1> QED BY <1>1, <1>3, <1>4, AtAnswer DEF Shaped

\* The startup goes on to its next command.
LEMMA StartupAsks ==
  ASSUME PresetsInv, calls[Startup].pc \in Answers(Startup),
         NEW call, call.pc \in Waits(Startup), Invokes(Startup, call),
         UNCHANGED <<hostVars, refVars, runtimeVars, missing, overlapped>>,
         Shaped(Startup)',
         ~overlapped => Course(Startup)' /\ Saved = promised'
  PROVE  PresetsInv'
  <1>1. Startup \in Everyone /\ (~overlapped => ~loaded)
    BY StartupAt
  <1>2. Saved' = Saved /\ loaded' = loaded
    BY DEF hostVars, refVars, Saved
  <1>3. ~overlapped => Agree(Startup)'
    BY <1>1, <1>2 DEF Agree
  <1> QED BY <1>1, <1>3, GoesOnStep

\* The startup keeps what it has loaded, and renews the runtime.
LEMMA EnterStep ==
  ASSUME PresetsInv, calls[Startup].pc \in Answers(Startup),
         NEW s \in PresetLists, NEW profiles \in SUBSET Credentials,
         Enter(s, profiles), UNCHANGED <<hostVars, runtimeVars, missing, overlapped>>,
         ~overlapped => s = Listed /\ profiles = SavedProfiles /\ Saved = promised'
  PROVE  PresetsInv'
  <1> DEFINE call == Renewing(s, profiles)
  <1>1. /\ Startup \in Everyone /\ PresetsSafe /\ FilesTyped
        /\ calls[Startup].pc \notin Waits(Startup) \cup {"idle", "stop", "start"}
    BY StartupAt
  <1>2. Moves(Startup, call)
    BY <1>1, OutOfQueue DEF Enter
  <1>3. /\ presetState' = s /\ profileState' = profiles /\ loaded' = TRUE
        /\ UNCHANGED <<legacy, presetFile, profileFile, secrets, leftover, foundation,
                       running, serves, unstarted, missing, overlapped>>
    BY DEF Enter, runtimeVars, hostVars
  <1>4. /\ call.pc \in {"stop", "start"} /\ call.state = s
        /\ call.profiles = profiles
        /\ call.pc = "start" <=> foundation = 0
    BY RenewingParts
  <1>5. call = Renewing(presetState', profileState')
    BY <1>3
  <1>6. calls'[Startup] = call
    BY <1>2 DEF Moves
  <1>7. Shaped(Startup)'
    BY <1>6, RenewingShape
  <1> HIDE DEF call
  <1>8. PresetsSafe'
    <2>1. Renewed'
      BY <1>1, <1>2, <1>3, <1>4, RenewedStays
    <2>2. FilesTyped'
      BY <1>1, <1>3 DEF FilesTyped
    <2> QED BY <1>1, <1>2, <1>3, <1>7, <2>1, <2>2, SafeStep
            DEF PresetsSafe, PresetsTypeOK
  <1>9. ASSUME ~overlapped' PROVE OneByOne'
    <2>1. /\ ~overlapped /\ Stopped
          /\ \A d \in Everyone : d # Startup => calls[d] = Idle
      BY <1>3, <1>9, StartupAt
    <2>2. s = Listed /\ profiles = SavedProfiles /\ Saved = promised'
      BY <2>1
    <2>3. s.of = promised'
      BY <2>2 DEF Listed, Saved, NoPresets
    <2>4. Agree(Startup)' /\ Stopped'
      BY <1>3, <2>1, <2>2, <2>3 DEF Agree, Saved, Listed, SavedProfiles, Stopped
    <2>5. Course(Startup)'
      BY <1>1, <1>3, <1>5, <1>6, <2>1, RenewingCourse
    <2> QED BY <1>1, <1>2, <1>3, <1>4, <2>1, <2>4, <2>5, OneStep
  <1> QED BY <1>8, <1>9 DEF PresetsInv

\* The startup asks for the secrets, if there are any, and enters.
LEMMA AskSecretsStep ==
  ASSUME PresetsInv, calls[Startup].pc \in Answers(Startup),
         NEW s \in PresetLists, NEW profiles \in SUBSET Credentials,
         AskSecrets(s, profiles),
         UNCHANGED <<hostVars, runtimeVars, missing, overlapped>>,
         ~overlapped => s = Listed /\ profiles = SavedProfiles /\ Saved = promised'
  PROVE  PresetsInv'
  <1>1. CASE profiles = {}
    BY <1>1, EnterStep DEF AskSecrets
  <1>2. CASE profiles # {}
    <2> DEFINE call == [pc |-> "exists", next |-> s, profiles |-> profiles]
    <2>1. Invokes(Startup, call) /\ UNCHANGED refVars
      BY <1>2 DEF AskSecrets
    <2>2. /\ call.pc = "exists" /\ call.next = s /\ call.profiles = profiles
          /\ "pc" \in DOMAIN call
      OBVIOUS
    <2> HIDE DEF call
    <2>3. calls'[Startup] = call
      BY <2>1, StartupAt DEF Invokes
    <2>4. call.pc \in Waits(Startup)
      BY <2>2 DEF Waits
    <2>5. Shaped(Startup)'
      BY <2>2, <2>3, <2>4
         DEF Shaped, WithNext, WithSecret, WithProfiles, Migrating
    <2>6. ASSUME ~overlapped PROVE Course(Startup)'
      <3>1. /\ "presets" \notin missing'
            /\ s = Listed' /\ profiles = SavedProfiles'
        BY <2>6, StartupAt DEF hostVars, Listed, SavedProfiles
      <3> QED BY <2>2, <2>3, <3>1 DEF Course, WithSecret, WithProfiles, Migrating
    <2> QED BY <2>1, <2>4, <2>5, <2>6, StartupAsks
  <1> QED BY <1>1, <1>2

\* It goes on with what it has been told.
LEMMA GoingOnSteps ==
  ASSUME PresetsInv, LegacyLoaded \/ ProfilesLoaded \/ ProfilesMigrated
  PROVE  PresetsInv'
  <1> DEFINE old == calls[Startup]
             pc == IF LegacyLoaded THEN "loadProfiles"
                   ELSE IF ProfilesLoaded THEN "loadPresets" ELSE "migratePresets"
             call == [old EXCEPT !.pc = pc]
  <1>1. /\ \/ old.pc = "legacyLoaded" /\ pc = "loadProfiles"
           \/ old.pc = "profilesLoaded" /\ pc = "loadPresets"
           \/ old.pc = "profilesMigrated" /\ pc = "migratePresets"
        /\ Invokes(Startup, call)
        /\ UNCHANGED <<hostVars, refVars, runtimeVars, promised, missing, overlapped>>
    BY DEF LegacyLoaded, ProfilesLoaded, ProfilesMigrated, historyVars
  <1> HIDE DEF pc
  <1>2. old.pc \in Answers(Startup) /\ pc \in Waits(Startup)
    BY <1>1 DEF Answers, Waits
  <1>3. /\ Shaped(Startup) /\ DOMAIN calls = Everyone /\ Startup \in Everyone
        /\ "pc" \in DOMAIN old
    BY <1>2, StartupAt
  <1>4. SameBut(call, old, pc)
    BY <1>3, Retold
  <1>5. calls'[Startup] = call
    BY <1>1, <1>3 DEF Invokes
  <1> HIDE DEF call
  <1>6. call.pc \in Waits(Startup)
    BY <1>2, <1>4 DEF SameBut
  <1>7. Shaped(Startup)'
    BY <1>1, <1>3, <1>4, <1>5, <1>6
       DEF SameBut, Shaped, WithNext, WithSecret, WithProfiles, Migrating
  <1>8. ASSUME ~overlapped PROVE Course(Startup)' /\ Saved = promised'
    <2>1. /\ Course(Startup) /\ "presets" \notin missing' /\ Saved = promised'
          /\ UNCHANGED <<presetFile, profileFile, promised>>
      BY <1>1, <1>2, <1>8, StartupAt DEF hostVars
    <2>2. Course(Startup)'
      BY <1>1, <1>4, <1>5, <2>1
         DEF SameBut, Course, SavedProfiles, WithSecret, WithProfiles, Migrating,
             Waits, Answers
    <2> QED BY <2>1, <2>2
  <1> QED BY <1>1, <1>2, <1>6, <1>7, <1>8, StartupAsks

\* The presets are loaded: they are migrated, or an active one is chosen, or
\* they are kept.
LEMMA PresetsLoadedStep ==
  ASSUME PresetsInv, PresetsLoaded
  PROVE  PresetsInv'
  <1> DEFINE old == calls[Startup].legacy
             profiles == calls[Startup].profiles
             presets == calls[Startup].presets
             s == IF presets = None THEN NoPresets ELSE presets
  <1>1. /\ calls[Startup].pc = "presetsLoaded"
        /\ UNCHANGED <<hostVars, runtimeVars, promised, missing, overlapped>>
    BY DEF PresetsLoaded, historyVars
  <1>2. calls[Startup].pc \in Answers(Startup)
    BY <1>1 DEF Answers
  <1>3. /\ Shaped(Startup) /\ DOMAIN calls = Everyone /\ Startup \in Everyone
        /\ ~overlapped => Course(Startup) /\ "presets" \notin missing
                          /\ Saved = promised
    BY <1>1, <1>2, StartupAt
  <1>4. /\ old \in CredentialChoices /\ profiles \in SUBSET Credentials
        /\ presets \in PresetLists \cup {None}
    BY <1>1, <1>3 DEF Shaped, WithProfiles
  <1>5. ~overlapped => profiles = SavedProfiles /\ presets = presetFile
    BY <1>1, <1>3 DEF Course, WithProfiles
  <1>6. s \in PresetLists /\ (~overlapped => s = Listed)
    BY <1>4, <1>5, NoPresetsIsList DEF Listed
  <1>7. \/ /\ Migrates(presets, old)
           /\ Invokes(Startup,
                     [pc |-> "migrateProfiles", preset |-> Migrated,
                      next |-> [of |-> Put(NoOne, Migrated, old),
                                active |-> Migrated],
                      profiles |-> profiles \cup ({old} \ {None})])
           /\ UNCHANGED refVars
        \/ ~Migrates(presets, old) /\ ChooseActive(s, profiles)
    BY DEF PresetsLoaded
  <1>8. UNCHANGED <<presetFile, profileFile>>
    BY <1>1 DEF hostVars
  <1> HIDE DEF s, old, profiles, presets
  <1>9. CASE Migrates(presets, old)
    <2> DEFINE f == Put(NoOne, Migrated, old)
               next == [of |-> f, active |-> Migrated]
               more == profiles \cup ({old} \ {None})
               call == [pc |-> "migrateProfiles", preset |-> Migrated,
                        next |-> next, profiles |-> more]
    <2>1. Migrated \in Presets
      BY PresetsAssumption
    <2>2. DOMAIN f = {Migrated} /\ f \in [{Migrated} -> CredentialChoices]
      <3>1. f = [q \in {Migrated} |-> old]
        BY DEF Put, NoOne
      <3> HIDE DEF f
      <3> QED BY <1>4, <3>1
    <2>3. next.of = f
      OBVIOUS
    <2>4. next \in PresetLists
      <3> HIDE DEF f
      <3> QED BY <2>1, <2>2, ListMade
    <2>5. more \subseteq Credentials
      BY <1>4, <1>9 DEF Migrates, NoLegacy, CredentialChoices
    <2>6. /\ call.pc = "migrateProfiles" /\ call.next = next
          /\ call.profiles = more /\ call.preset = Migrated
          /\ "pc" \in DOMAIN call
      OBVIOUS
    <2>7. Invokes(Startup, call) /\ UNCHANGED refVars
      BY <1>7, <1>9
    <2> HIDE DEF f, next, more, call
    <2>8. calls'[Startup] = call
      BY <1>3, <2>7 DEF Invokes
    <2>9. call.pc \in Waits(Startup)
      BY <2>6 DEF Waits
    <2>10. Shaped(Startup)'
      BY <2>4, <2>5, <2>6, <2>8, <2>9
         DEF Shaped, WithNext, WithSecret, WithProfiles, Migrating
    <2>11. ASSUME ~overlapped PROVE Course(Startup)'
      <3>1. presetFile = None /\ promised = NoOne /\ "presets" \notin missing'
        BY <1>1, <1>3, <1>5, <1>9, <2>11 DEF Migrates, Saved
      <3>2. presetFile' = None /\ promised' = NoOne
        BY <1>1, <1>8, <3>1
      <3>3. /\ call.pc \notin {"savePresets", "presetsSaved", "presetsMigrated",
                               "activeFixed", "saveProfiles", "profilesSaved",
                               "presetsLoaded", "fixActive", "exists", "secretsAsked",
                               "stop", "start"}
            /\ call.pc \notin WithSecret
            /\ call.pc \notin WithProfiles \ {"migrateProfiles", "stop", "start"}
        BY <2>6 DEF WithSecret, WithProfiles
      <3> QED BY <2>2, <2>3, <2>6, <2>8, <3>1, <3>2, <3>3 DEF Course
    <2> QED BY <1>1, <1>2, <1>3, <2>7, <2>9, <2>10, <2>11, StartupAsks
  <1>10. CASE ~Migrates(presets, old)
    <2>1. ChooseActive(s, profiles)
      BY <1>7, <1>10
    <2>2. CASE s.active # None \/ DOMAIN s.of = {}
      <3>1. AskSecrets(s, profiles)
        BY <2>1, <2>2 DEF ChooseActive
      <3>2. ~overlapped => s = Listed /\ profiles = SavedProfiles /\ Saved = promised'
        BY <1>1, <1>3, <1>5, <1>6
      <3> QED BY <1>1, <1>2, <1>4, <1>6, <3>1, <3>2, AskSecretsStep
    <2>3. CASE ~(s.active # None \/ DOMAIN s.of = {})
      <3>1. PICK p \in DOMAIN s.of :
              Invokes(Startup, [pc |-> "fixActive",
                                next |-> [s EXCEPT !.active = p],
                                profiles |-> profiles])
        BY <2>1, <2>3 DEF ChooseActive
      <3> DEFINE next == [of |-> s.of, active |-> p]
                 call == [pc |-> "fixActive", next |-> next, profiles |-> profiles]
      <3>2. [s EXCEPT !.active = p] = next
        BY <1>6, ListParts
      <3>3. next \in PresetLists /\ next.of = s.of
        BY <1>6, ListParts, ListMade
      <3>4. UNCHANGED refVars
        BY <2>1, <2>3 DEF ChooseActive
      <3>5. /\ call.pc = "fixActive" /\ call.next = next /\ call.profiles = profiles
            /\ "pc" \in DOMAIN call
        OBVIOUS
      <3>6. Invokes(Startup, call)
        BY <3>1, <3>2
      <3> HIDE DEF next, call
      <3>7. calls'[Startup] = call
        BY <1>3, <3>6 DEF Invokes
      <3>8. call.pc \in Waits(Startup)
        BY <3>5 DEF Waits
      <3>9. Shaped(Startup)'
        BY <1>4, <3>3, <3>5, <3>7, <3>8
           DEF Shaped, WithNext, WithSecret, WithProfiles, Migrating
      <3>10. ~overlapped => next.of = promised' /\ Saved = promised'
        BY <1>1, <1>3, <1>6, <3>3 DEF Listed, Saved, NoPresets
      <3>11. ~overlapped => Course(Startup)'
        BY <1>5, <1>8, <3>5, <3>7, <3>10
           DEF Course, SavedProfiles, WithSecret, WithProfiles, Migrating
      <3> QED BY <1>1, <1>2, <3>4, <3>6, <3>8, <3>9, <3>10, <3>11, StartupAsks
    <2> QED BY <2>2, <2>3
  <1> QED BY <1>9, <1>10

\* What is on file is kept, after a save of the startup or without one.
LEMMA EntrySteps ==
  ASSUME PresetsInv, PresetsMigrated \/ ActiveFixed \/ SecretsAsked
  PROVE  PresetsInv'
  <1> DEFINE profiles == calls[Startup].profiles
             next == calls[Startup].next
             pc == calls[Startup].pc
  <1>1. /\ pc \in {"presetsMigrated", "activeFixed", "secretsAsked"}
        /\ AskSecrets(next, profiles) \/ Enter(next, profiles)
        /\ UNCHANGED <<hostVars, runtimeVars, missing, overlapped>>
        /\ promised' = IF pc = "presetsMigrated" /\ ~overlapped
                       THEN Put(promised, Migrated, next.of[Migrated])
                       ELSE promised
    BY DEF PresetsMigrated, ActiveFixed, SecretsAsked, historyVars
  <1>2. pc \in Answers(Startup)
    BY <1>1 DEF Answers
  <1>3. /\ Shaped(Startup)
        /\ ~overlapped => /\ Course(Startup)
                          /\ pc # "presetsMigrated" => Saved = promised
    BY <1>2, StartupAt
  <1>4. next \in PresetLists /\ profiles \in SUBSET Credentials
    BY <1>1, <1>3 DEF Shaped, WithNext, WithProfiles
  <1>5. ASSUME ~overlapped
        PROVE  next = Listed /\ profiles = SavedProfiles /\ Saved = promised'
    <2>1. profiles = SavedProfiles
      BY <1>1, <1>3, <1>5 DEF Course, WithProfiles
    <2>2. next # None
      BY <1>4, NoFileAssumption
    <2>3. next = Listed
      BY <1>1, <1>3, <1>5, <2>2 DEF Course, Listed
    <2>4. CASE pc = "presetsMigrated"
      <3>1. DOMAIN next.of = {Migrated} /\ promised = NoOne /\ presetFile = next
        BY <1>3, <1>5, <2>4 DEF Course, Migrating
      <3>2. DOMAIN NoOne = {}
        BY DEF NoOne
      <3>3. Put(NoOne, Migrated, next.of[Migrated]) = next.of
        BY <1>4, <3>1, <3>2, ListParts DEF Put
      <3>4. Saved = next.of
        BY <2>2, <3>1 DEF Saved
      <3> QED BY <1>1, <1>5, <2>1, <2>3, <2>4, <3>1, <3>3, <3>4
    <2>5. CASE pc # "presetsMigrated"
      BY <1>1, <1>3, <1>5, <2>1, <2>3, <2>5
    <2> QED BY <2>4, <2>5
  <1> HIDE DEF next, profiles
  <1> QED BY <1>1, <1>2, <1>4, <1>5, AskSecretsStep, EnterStep DEF pc

-----------------------------------------------------------------------------
(* The renewal of the runtime.                                             *)

LEMMA RuntimeStoppedStep ==
  ASSUME PresetsInv, NEW c \in Everyone, RuntimeStopped(c)
  PROVE  PresetsInv'
  <1> DEFINE r == calls[c].runtime
             call == [pc |-> "start", state |-> calls[c].state,
                      profiles |-> calls[c].profiles]
  <1>1. /\ PresetsSafe /\ calls[c].pc = "stop" /\ calls[c] # Idle
        /\ DOMAIN calls = Everyone /\ calls[c].pc \notin Waits(c)
    BY DEF PresetsInv, PresetsSafe, PresetsTypeOK, RuntimeStopped, Idle, Waits
  <1>2. /\ Goes(c, call) /\ running' = running \ {r}
        /\ UNCHANGED <<legacy, presetFile, profileFile, secrets, presetState,
                       profileState, loaded, leftover, foundation, serves,
                       unstarted, promised, missing, overlapped>>
    BY <1>1 DEF RuntimeStopped, hostVars, refVars, historyVars, Goes
  <1>3. Moves(c, call)
    BY <1>1, <1>2, OutOfQueue
  <1>4. /\ call.pc = "start" /\ call.state = calls[c].state
        /\ call.profiles = calls[c].profiles /\ "pc" \in DOMAIN call
    OBVIOUS
  <1>5. calls[c].state \in PresetLists /\ calls[c].profiles \subseteq Credentials
    BY <1>1 DEF PresetsSafe, Shaped, WithProfiles
  <1> HIDE DEF call, r
  <1>6. calls'[c] = call
    BY <1>3 DEF Moves
  <1>7. PresetsSafe'
    <2>1. Renewed'
      BY <1>4, <1>6 DEF Renewed
    <2>2. Shaped(c)'
      BY <1>4, <1>5, <1>6 DEF Shaped, WithNext, WithSecret, Migrating
    <2>3. FilesTyped'
      BY <1>1, <1>2 DEF FilesTyped, PresetsSafe, PresetsTypeOK
    <2> QED BY <1>1, <1>2, <1>3, <2>1, <2>2, <2>3, SafeStep
            DEF PresetsSafe, PresetsTypeOK
  <1>8. ASSUME ~overlapped' PROVE OneByOne'
    <2>1. /\ ~overlapped /\ Course(c) /\ Agree(c) /\ Stopped
          /\ \A d \in Everyone : d # c => calls[d] = Idle
      BY <1>1, <1>2, <1>8, Acting
    <2>2. /\ loaded /\ calls[c].state = presetState
          /\ calls[c].profiles = profileState /\ r = foundation
      BY <1>1, <2>1 DEF Course, r
    <2>3. Agree(c)' /\ Stopped' /\ running' = {}
      BY <1>1, <1>2, <2>1, <2>2 DEF Agree, Listed, Saved, SavedProfiles, Stopped
    <2>4. Course(c)'
      BY <1>2, <1>4, <1>6, <2>2, <2>3
         DEF Course, WithSecret, WithProfiles, Migrating, Waits, Answers
    <2> QED BY <1>2, <1>3, <1>4, <2>1, <2>2, <2>3, <2>4, OneStep
  <1> QED BY <1>7, <1>8 DEF PresetsInv

\* A renewal has ended, with a runtime or without.
LEMMA RenewalEnds ==
  ASSUME PresetsInv, NEW c \in Everyone, calls[c].pc = "start", Goes(c, Idle),
         UNCHANGED <<hostVars, refVars, historyVars>>, Renewed',
         foundation' \in 0..MaxRuntimes, running' \subseteq 1..MaxRuntimes,
         serves' \in PresetLists,
         OneByOne => Stopped' /\ (unstarted' \/ Serving')
  PROVE  PresetsInv'
  <1>1. PresetsSafe /\ calls[c] # Idle /\ calls[c].pc \notin Waits(c)
    BY DEF PresetsInv, Idle, Waits
  <1>2. UNCHANGED <<legacy, presetFile, profileFile, secrets, presetState,
                    profileState, loaded, leftover, promised, missing, overlapped>>
    BY DEF hostVars, refVars, historyVars
  <1>3. Moves(c, Idle)
    BY <1>1, OutOfQueue
  <1>4. calls'[c] = Idle /\ Idle.pc = "idle"
    BY <1>3 DEF Moves, Idle
  <1>5. Shaped(c)' /\ Course(c)'
    BY <1>4, IdleSays
  <1>6. PresetsSafe'
    <2>1. FilesTyped'
      BY <1>1, <1>2 DEF FilesTyped, PresetsSafe, PresetsTypeOK
    <2> QED BY <1>1, <1>2, <1>3, <1>5, <2>1, SafeStep
            DEF PresetsSafe, PresetsTypeOK
  <1>7. ASSUME ~overlapped' PROVE OneByOne'
    <2>1. /\ OneByOne /\ Course(c) /\ Agree(c)
          /\ \A d \in Everyone : d # c => calls[d] = Idle
      BY <1>1, <1>2, <1>7, Acting
    <2>2. loaded
      BY <2>1 DEF Course
    <2>3. Agree(c)'
      BY <1>2, <2>1 DEF Agree, Listed, Saved, SavedProfiles
    <2> QED BY <1>2, <1>3, <1>4, <1>5, <2>1, <2>2, <2>3, OneStep
  <1> QED BY <1>6, <1>7 DEF PresetsInv

LEMMA RuntimeStartedStep ==
  ASSUME PresetsInv, NEW c \in Everyone, RuntimeStarted(c)
  PROVE  PresetsInv'
  <1> DEFINE s == calls[c].state
             profiles == calls[c].profiles
             given == Materialize(s.of, profiles)
  <1>1. /\ PresetsSafe /\ calls[c].pc = "start" /\ calls[c] # Idle
    BY DEF PresetsInv, RuntimeStarted, Idle
  <1>2. PICK r \in 1..MaxRuntimes :
           foundation' = r /\ running' = running \cup {r}
    BY DEF RuntimeStarted
  <1>3. /\ Goes(c, Idle)
        /\ serves' = [of |-> given, active |-> s.active] /\ unstarted' = FALSE
        /\ UNCHANGED <<hostVars, refVars, historyVars>>
    BY DEF RuntimeStarted, Goes
  <1>4. s \in PresetLists /\ profiles \in SUBSET Credentials
    BY <1>1 DEF PresetsSafe, Shaped, WithProfiles
  <1>5. /\ [of |-> given, active |-> s.active] \in PresetLists
        /\ \A p \in DOMAIN s.of :
             given[p] = IF s.of[p] \in profiles THEN s.of[p] ELSE None
    <2> HIDE DEF s, profiles
    <2> QED BY <1>4, MaterializeParts
  <1>6. s.active \in DOMAIN s.of \cup {None}
    BY <1>4, ListParts
  <1> HIDE DEF given
  <1>7. serves'.of = given /\ serves'.active = s.active
    BY <1>3
  <1>8. Renewed'
    BY <1>2 DEF Renewed
  <1>9. foundation' \in 0..MaxRuntimes /\ running' \subseteq 1..MaxRuntimes
    BY <1>1, <1>2, PresetsAssumption DEF PresetsSafe, PresetsTypeOK
  <1>10. ASSUME OneByOne PROVE Stopped' /\ Serving'
    <2>1. s = presetState /\ profiles = profileState /\ running = {}
      BY <1>1, <1>10 DEF OneByOne, Course
    <2> HIDE DEF s, profiles
    <2>2. UNCHANGED <<presetState, profileState>>
      BY <1>3 DEF refVars
    <2> QED BY <1>2, <1>5, <1>6, <1>7, <2>1, <2>2 DEF Serving, Stopped
  <1> HIDE DEF s
  <1> QED BY <1>1, <1>3, <1>5, <1>8, <1>9, <1>10, RenewalEnds

LEMMA StartFailsStep ==
  ASSUME PresetsInv, NEW c \in Everyone, StartFails(c)
  PROVE  PresetsInv'
  <1>1. /\ calls[c].pc = "start" /\ Goes(c, Idle) /\ unstarted' = TRUE
        /\ UNCHANGED <<hostVars, refVars, historyVars, foundation, running, serves>>
    BY DEF StartFails, Goes
  <1>2. Renewed'
    BY <1>1 DEF Renewed
  <1>3. OneByOne => Stopped'
    BY <1>1 DEF OneByOne, Stopped
  <1> QED BY <1>1, <1>2, <1>3, RenewalEnds DEF PresetsInv, PresetsSafe, PresetsTypeOK

-----------------------------------------------------------------------------
(* The start, and the start after a crash.                                 *)

\* The program has begun and remembers nothing.
Begun ==
  /\ presetState = NoPresets /\ profileState = {} /\ loaded = FALSE
  /\ leftover = None
  /\ foundation = 0 /\ running = {} /\ serves = NoPresets
  /\ calls = [c \in Everyone |->
                IF c = Startup THEN [pc |-> "loadLegacy"] ELSE Idle]
  /\ queue = <<Startup>> /\ missing = {}

LEMMA BegunInv ==
  ASSUME Begun, FilesTyped, ~overlapped => Saved = promised
  PROVE  PresetsInv
  <1>1. Startup \in Everyone /\ Callers \subseteq Everyone /\ Startup \notin Callers
    BY PresetsAssumption DEF Everyone
  <1>2. /\ DOMAIN calls = Everyone /\ calls[Startup] = [pc |-> "loadLegacy"]
        /\ \A c \in Everyone : c # Startup => calls[c] = Idle
    BY <1>1 DEF Begun
  <1>3. \A c \in Everyone : Shaped(c) /\ Course(c)
    <2>1. \A c \in Everyone : c = Startup \/ calls[c] = Idle
      BY <1>2
    <2>2. ASSUME NEW c \in Everyone, calls[c] = Idle PROVE Shaped(c) /\ Course(c)
      BY <2>2, IdleSays
    <2>3. "pc" \in DOMAIN calls[Startup] /\ calls[Startup].pc = "loadLegacy"
      BY <1>2
    <2>4. Shaped(Startup)
      BY <2>3 DEF Shaped, Waits, WithNext, WithSecret, WithProfiles, Migrating
    <2>5. Course(Startup)
      BY <2>3 DEF Course, Begun, WithSecret, WithProfiles, Migrating
    <2> QED BY <2>1, <2>2, <2>4, <2>5
  <1>4. Queued /\ queue \in Seq(Everyone)
    <2>1. queue = <<Startup>>
      BY DEF Begun
    <2>2. Len(queue) = 1 /\ queue[1] = Startup
      BY <2>1
    <2> QED BY <1>1, <1>2, <2>1, <2>2 DEF Queued, Waits
  <1>5. Renewed
    BY DEF Renewed, Begun
  <1>6. PresetsTypeOK
    <2>1. \A c \in Everyone : calls[c].pc \in WithNext => calls[c].next \in PresetLists
      BY <1>3 DEF Shaped
    <2>2. MaxRuntimes \in Nat
      BY PresetsAssumption
    <2>3. /\ presetState = NoPresets /\ profileState = {} /\ loaded = FALSE
          /\ leftover = None /\ foundation = 0 /\ running = {}
          /\ serves = NoPresets /\ missing = {}
      BY DEF Begun
    <2>4. None \in CredentialChoices
      BY DEF CredentialChoices
    <2>5. foundation \in 0..MaxRuntimes /\ running \subseteq 1..MaxRuntimes
      BY <2>2, <2>3
    <2>6. DOMAIN calls = Everyone /\ queue \in Seq(Everyone)
      BY <1>2, <1>4
    <2> HIDE DEF Begun
    <2> QED BY <2>1, <2>3, <2>4, <2>5, <2>6, NoPresetsIsList
            DEF PresetsTypeOK, FilesTyped, WithNext, PresetSaves
  <1>7. ASSUME ~overlapped PROVE OneByOne
    <2>1. Alone
      <3>1. \A c, d \in Everyone : calls[c] # Idle /\ calls[d] # Idle => c = d
        BY <1>2
      <3> QED BY <1>1, <1>2, <3>1 DEF Alone, Begun
    <2> QED BY <1>3, <1>7, <2>1 DEF OneByOne, Begun, Agree, Stopped
  <1> QED BY <1>3, <1>4, <1>5, <1>6, <1>7 DEF PresetsInv, PresetsSafe

\* While operations come one by one and no save has removed the file, it holds
\* what was promised, but for the one preset of a save that is not answered.
LEMMA OnFile ==
  ASSUME PresetsInv, ~overlapped, "presets" \notin missing
  PROVE  \/ Saved = promised
         \/ \E c \in Everyone, s \in PresetLists :
              LET p == calls[c].preset IN
              /\ calls[c].pc \in {"presetsSaved", "presetsMigrated"}
              /\ p \in Presets /\ Saved = calls[c].next.of /\ promised = s.of
              /\ \/ p \in DOMAIN Saved /\ Saved = Put(promised, p, Saved[p])
                 \/ Saved = Drop(promised, p)
  <1>1. Startup \in Everyone /\ OneByOne
    BY DEF Everyone, PresetsInv
  <1>2. CASE \A d \in Everyone : calls[d] = Idle
    <2>1. Agree(Startup) /\ calls[Startup].pc = "idle"
      BY <1>1, <1>2 DEF OneByOne, Idle
    <2> QED BY <2>1 DEF Agree
  <1>3. ASSUME NEW c \in Everyone, calls[c].pc = "presetsSaved"
        PROVE  \E s \in PresetLists :
                  LET p == calls[c].preset IN
                  /\ p \in Presets /\ Saved = calls[c].next.of /\ promised = s.of
                  /\ \/ p \in DOMAIN Saved /\ Saved = Put(promised, p, Saved[p])
                     \/ Saved = Drop(promised, p)
    <2> DEFINE p == calls[c].preset
               next == calls[c].next
    <2>1. Shaped(c) /\ calls[c] # Idle /\ presetState \in PresetLists
      BY <1>3 DEF PresetsInv, PresetsSafe, PresetsTypeOK, Idle
    <2>2. next \in PresetLists /\ p \in Presets /\ c # Startup
      BY <1>3, <2>1 DEF Shaped, WithNext, Waits, Answers
    <2>3. Course(c) /\ Agree(c) /\ loaded
      BY <2>1, <2>2, Acting
    <2>4. presetState.of = promised /\ presetFile = next
      BY <1>3, <2>3 DEF Agree, Course
    <2>5. next.of = IF p \in DOMAIN next.of
                    THEN Put(promised, p, next.of[p]) ELSE Drop(promised, p)
      BY <1>3, <2>3, <2>4 DEF Course
    <2>6. Saved = next.of
      BY <2>2, <2>4, NoFileAssumption DEF Saved
    <2> QED BY <2>1, <2>2, <2>4, <2>5, <2>6
  <1>4. ASSUME NEW c \in Everyone, calls[c].pc = "presetsMigrated"
        PROVE  \E s \in PresetLists :
                  LET p == calls[c].preset IN
                  /\ p \in Presets /\ Saved = calls[c].next.of /\ promised = s.of
                  /\ p \in DOMAIN Saved /\ Saved = Put(promised, p, Saved[p])
    <2> DEFINE p == calls[c].preset
               next == calls[c].next
    <2>1. Shaped(c) /\ calls[c] # Idle
      BY <1>4 DEF PresetsInv, PresetsSafe, Idle
    <2>2. next \in PresetLists /\ p = Migrated /\ p \in Presets
      BY <1>4, <2>1, PresetsAssumption DEF Shaped, WithNext, Migrating
    <2>3. Course(c)
      BY <2>1, Acting
    <2>4. DOMAIN next.of = {Migrated} /\ promised = NoOne /\ presetFile = next
      BY <1>4, <2>3 DEF Course, Migrating
    <2>5. Saved = next.of
      BY <2>2, <2>4, NoFileAssumption DEF Saved
    <2>6. DOMAIN NoOne = {}
      BY DEF NoOne
    <2>7. Put(NoOne, Migrated, next.of[Migrated]) = next.of
      BY <2>2, <2>4, <2>6, ListParts DEF Put
    <2>8. NoPresets \in PresetLists /\ NoPresets.of = NoOne
      BY NoPresetsIsList DEF NoPresets
    <2> QED BY <2>2, <2>4, <2>5, <2>7, <2>8
  <1>5. ASSUME NEW c \in Everyone, calls[c] # Idle,
               calls[c].pc \notin {"presetsSaved", "presetsMigrated"}
        PROVE  Saved = promised
    BY <1>5, Acting DEF Agree
  <1> QED BY <1>2, <1>3, <1>4, <1>5

LEMMA SavedIsFunction ==
  ASSUME FilesTyped
  PROVE  \E s \in PresetLists : Saved = s.of
  <1>1. NoPresets \in PresetLists /\ NoPresets.of = NoOne
    BY NoPresetsIsList DEF NoPresets
  <1> QED BY <1>1 DEF FilesTyped, Saved

LEMMA CrashStep ==
  ASSUME PresetsInv, Crash
  PROVE  PresetsInv'
  <1>1. Begun'
    BY DEF Crash, Begun
  <1>2. FilesTyped
    BY DEF PresetsInv, PresetsSafe, PresetsTypeOK, FilesTyped
  <1>3. UNCHANGED <<legacy, presetFile, profileFile, secrets>>
    BY DEF Crash, hostVars
  <1>4. promised' = Saved
    <2> DEFINE U == Unanswered
               D == (DOMAIN promised \ U) \cup (DOMAIN Saved \cap U)
    <2>1. CASE overlapped \/ "presets" \in missing
      BY <2>1 DEF Crash
    <2>2. CASE ~overlapped /\ "presets" \notin missing
      <3>1. promised' = [p \in D |-> IF p \in U THEN Saved[p] ELSE promised[p]]
        BY <2>2 DEF Crash
      <3>2. PICK s \in PresetLists : Saved = s.of
        BY <1>2, SavedIsFunction
      <3>3. Saved = [p \in DOMAIN Saved |-> Saved[p]]
        BY <3>2, ListParts
      <3>4. /\ DOMAIN promised \ U = DOMAIN Saved \ U
            /\ \A p \in DOMAIN Saved \ U : promised[p] = Saved[p]
        <4>1. CASE Saved = promised
          BY <4>1
        <4>2. ASSUME NEW c \in Everyone, NEW t \in PresetLists,
                     calls[c].pc \in {"presetsSaved", "presetsMigrated"},
                     calls[c].preset \in Presets, promised = t.of,
                     \/ Saved = Put(promised, calls[c].preset, Saved[calls[c].preset])
                     \/ Saved = Drop(promised, calls[c].preset)
              PROVE  /\ DOMAIN promised \ U = DOMAIN Saved \ U
                     /\ \A p \in DOMAIN Saved \ U : promised[p] = Saved[p]
          <5>1. calls[c].preset \in U
            BY <4>2 DEF Unanswered
          <5> HIDE DEF U
          <5>2. CASE Saved = Put(promised, calls[c].preset, Saved[calls[c].preset])
            <6>1. DOMAIN Saved = DOMAIN promised \cup {calls[c].preset}
              BY <5>2 DEF Put
            <6>2. \A p \in DOMAIN promised : p # calls[c].preset => Saved[p] = promised[p]
              BY <5>2 DEF Put
            <6> QED BY <5>1, <6>1, <6>2
          <5>3. CASE Saved = Drop(promised, calls[c].preset)
            <6>1. DOMAIN Saved = DOMAIN promised \ {calls[c].preset}
              BY <5>3 DEF Drop
            <6>2. \A p \in DOMAIN Saved : Saved[p] = promised[p]
              BY <5>3, <6>1 DEF Drop
            <6> QED BY <5>1, <6>1, <6>2
          <5> QED BY <4>2, <5>2, <5>3
        <4> HIDE DEF U
        <4> QED BY <2>2, <4>1, <4>2, OnFile
      <3> HIDE DEF U
      <3>5. D = DOMAIN Saved
        BY <3>4
      <3>6. \A p \in D : (IF p \in U THEN Saved[p] ELSE promised[p]) = Saved[p]
        BY <3>4, <3>5
      <3> HIDE DEF D
      <3>7. [p \in D |-> IF p \in U THEN Saved[p] ELSE promised[p]]
               = [p \in D |-> Saved[p]]
        BY <3>6
      <3> QED BY <3>1, <3>3, <3>5, <3>7
    <2> QED BY <2>1, <2>2
  <1>5. FilesTyped' /\ Saved' = promised'
    BY <1>2, <1>3, <1>4 DEF FilesTyped, Saved
  <1>6. (FilesTyped /\ Begun /\ (~overlapped => Saved = promised) => PresetsInv)'
    BY BegunInv, PTL
  <1> QED BY <1>1, <1>5, <1>6

LEMMA FirstInv ==
  PresetsInit => PresetsInv
  <1> SUFFICES ASSUME PresetsInit PROVE PresetsInv
    OBVIOUS
  <1>1. Begun
    BY DEF PresetsInit, Begun
  <1>2. FilesTyped
    BY PresetsAssumption DEF PresetsInit, FilesTyped, CredentialChoices
  <1>3. Saved = promised
    BY DEF PresetsInit, Saved
  <1> QED BY <1>1, <1>2, <1>3, BegunInv

\* Every step keeps the invariant.
LEMMA PresetsStep ==
  PresetsInv /\ [PresetsNext]_presetsVars => PresetsInv'
  <1> SUFFICES ASSUME PresetsInv, [PresetsNext]_presetsVars PROVE PresetsInv'
    OBVIOUS
  <1>1. CASE UNCHANGED presetsVars
    <2>1. UNCHANGED <<legacy, presetFile, profileFile, secrets, presetState,
                      profileState, loaded, leftover, foundation, running,
                      serves, unstarted, calls, queue, promised, missing, overlapped>>
      BY <1>1 DEF presetsVars, hostVars, refVars, runtimeVars, historyVars
    <2>2. PresetsSafe'
      BY <2>1 DEF PresetsInv, PresetsSafe, PresetsTypeOK, Queued, Renewed, Shaped
    <2>3. ~overlapped' => OneByOne'
      BY <2>1 DEF PresetsInv, OneByOne, Alone, Agree, Stopped, Serving, Course,
                  Saved, SavedProfiles, Listed
    <2> QED BY <2>2, <2>3 DEF PresetsInv
  <1>2. ASSUME NEW c \in Callers, UserStep(c) \/ UserGoesOn(c) PROVE PresetsInv'
    BY <1>2, UserSteps, PresetsSavedStep, SecretSteps, ProfilesSavedStep
       DEF UserGoesOn
  <1>3. CASE StartupGoesOn
    BY <1>3, GoingOnSteps, PresetsLoadedStep, EntrySteps DEF StartupGoesOn
  <1>4. CASE HostReads
    <2>1. Startup \in Everyone
      BY DEF Everyone
    <2> QED BY <1>4, <2>1, LoadingHostSteps, SecretHostSteps DEF HostReads
  <1>5. ASSUME NEW c \in Everyone, HostStep(c) PROVE PresetsInv'
    <2>1. CASE HostFindsSecret(c)
      BY <2>1, SecretHostSteps, EndingSteps
    <2> QED BY <1>5, <2>1, RemovingSteps, RenamesPresetsStep, RenamesProfilesStep,
               SecretHostSteps, EndingSteps DEF HostStep
  <1>6. ASSUME NEW c \in Everyone,
               RuntimeStopped(c) \/ RuntimeStarted(c) \/ StartFails(c)
        PROVE  PresetsInv'
    BY <1>6, RuntimeStoppedStep, RuntimeStartedStep, StartFailsStep
  <1>7. CASE Crash
    BY <1>7, CrashStep
  <1> QED BY <1>1, <1>2, <1>3, <1>4, <1>5, <1>6, <1>7 DEF PresetsNext

-----------------------------------------------------------------------------
(* Theorems.                                                               *)

\* The inductive invariant of the presets: what every operation has read is
\* still so while no other has come in its way.
THEOREM PresetsInvariance == PresetsSpec => []PresetsInv
  BY FirstInv, PresetsStep, PTL DEF PresetsSpec

\* The variables of the presets and credentials keep their types.
THEOREM PresetsTypeCorrect == PresetsSpec => []PresetsTypeOK
  <1>1. PresetsInv => PresetsTypeOK
    BY DEF PresetsInv, PresetsSafe
  <1> QED BY <1>1, PresetsInvariance, PTL

\* The presets file holds what the user was told is saved, or what a save
\* holds whose answer App has yet to see, over restarts, commands refused
\* before the file was touched, and interrupted migrations.  Excepted are
\* operations that overlapped or came before the startup had loaded, and the
\* window in which a save has removed the file and not yet renamed the new one
\* into its place, until the next save when the rename is refused there.
THEOREM FileHoldsConfirmedHolds == PresetsSpec => []FileHoldsConfirmed
  <1>1. ASSUME PresetsInv, ~overlapped, "presets" \notin missing, NEW q \in Presets
        PROVE  \/ Entry(Saved, q) = Entry(promised, q)
               \/ \E c \in Everyone :
                     /\ calls[c].pc \in {"presetsSaved", "presetsMigrated"}
                     /\ calls[c].preset = q
                     /\ Entry(Saved, q) = Entry(calls[c].next.of, q)
    <2>1. CASE Saved = promised
      BY <2>1
    <2>2. CASE Saved # promised
      <3>1. PICK c \in Everyone, s \in PresetLists :
              /\ calls[c].pc \in {"presetsSaved", "presetsMigrated"}
              /\ calls[c].preset \in Presets /\ Saved = calls[c].next.of
              /\ promised = s.of
              /\ \/ /\ calls[c].preset \in DOMAIN Saved
                    /\ Saved = Put(promised, calls[c].preset, Saved[calls[c].preset])
                 \/ Saved = Drop(promised, calls[c].preset)
        BY <1>1, <2>2, OnFile
      <3>2. CASE calls[c].preset = q
        BY <3>1, <3>2
      <3>3. CASE calls[c].preset # q
        <4>1. PICK t \in PresetLists : Saved = t.of
          BY <1>1, SavedIsFunction
             DEF PresetsInv, PresetsSafe, PresetsTypeOK, FilesTyped
        <4>2. \A p \in DOMAIN Saved : Saved[p] \in CredentialChoices
          BY <4>1, ListParts
        <4>3. CASE /\ calls[c].preset \in DOMAIN Saved
                   /\ Saved = Put(promised, calls[c].preset, Saved[calls[c].preset])
          BY <3>1, <3>3, <4>2, <4>3, OtherEntries
        <4>4. CASE Saved = Drop(promised, calls[c].preset)
          <5>1. None \in CredentialChoices
            BY DEF CredentialChoices
          <5> QED BY <3>1, <3>3, <4>4, <5>1, OtherEntries
        <4> QED BY <3>1, <4>3, <4>4
      <3> QED BY <3>2, <3>3
    <2> QED BY <2>1, <2>2
  <1>2. PresetsInv => FileHoldsConfirmed
    BY <1>1 DEF FileHoldsConfirmed
  <1> QED BY <1>2, PresetsInvariance, PTL

\* The runtime in use runs; and while operations come one by one it is the
\* only one, with the active preset as it is on file, or as App keeps it of a
\* file that a refused rename has taken away.
THEOREM RuntimeServesActiveHolds == PresetsSpec => []RuntimeServesActive
  <1>1. ASSUME PresetsInv, Quiet PROVE foundation \in running
    <2>1. \A c \in Everyone : calls[c].pc # "start"
      BY <1>1 DEF Quiet, Idle
    <2> QED BY <1>1, <2>1 DEF PresetsInv, PresetsSafe, Renewed, Quiet
  <1>2. ASSUME PresetsInv, Quiet, ~overlapped
        PROVE  /\ running = {foundation}
               /\ LET a == presetState.active
                  IN  /\ serves.active = a
                      /\ a # None => /\ a \in DOMAIN Kept
                                     /\ serves.of[a] =
                                          Materialize(Kept, KeptProfiles)[a]
    <2>1. OneByOne /\ Startup \in Everyone
      BY <1>2 DEF PresetsInv, Everyone
    <2>2. \A c \in Everyone : calls[c].pc = "idle"
      BY <1>2 DEF Quiet, Idle
    <2>3. Serving
      BY <1>2, <2>1, <2>2 DEF OneByOne, Quiet
    <2>4. running = {foundation}
      BY <1>1, <1>2, <2>1 DEF OneByOne, Stopped
    <2>5. Agree(Startup) /\ loaded
      BY <1>2, <2>1 DEF OneByOne, Quiet
    <2>6. presetState.of = Kept /\ profileState = KeptProfiles
      BY <2>1, <2>2, <2>5 DEF Agree, Kept, KeptProfiles, Listed, Saved, NoPresets
    <2>7. presetState.active \in DOMAIN presetState.of \cup {None}
      BY <1>2, ListParts DEF PresetsInv, PresetsSafe, PresetsTypeOK
    <2> QED BY <2>3, <2>4, <2>6, <2>7 DEF Serving, Materialize
  <1>3. PresetsInv => RuntimeServesActive
    BY <1>1, <1>2 DEF RuntimeServesActive
  <1> QED BY <1>3, PresetsInvariance, PTL

\* No secret is deleted that a preset on file uses, or one that App keeps of a
\* file that a refused rename has taken away, unless operations overlap.
THEOREM SecretsInUseStayHolds == PresetsSpec => SecretsInUseStay
  <1>1. ASSUME PresetsInv, [PresetsNext]_presetsVars,
               NEW x \in secrets \ secrets', ~overlapped
        PROVE  ~Uses(Kept, x)
    <2>1. PICK c \in Everyone : HostDeletesSecret(c)
      <3>1. secrets' # secrets /\ ~(secrets \subseteq secrets')
        BY <1>1
      <3>2. ~UNCHANGED presetsVars /\ ~Crash
        BY <3>1 DEF presetsVars, hostVars, Crash
      <3>3. ~StartupGoesOn
        BY <3>1 DEF StartupGoesOn, LegacyLoaded, ProfilesLoaded, PresetsLoaded,
                    ProfilesMigrated, PresetsMigrated, ActiveFixed, SecretsAsked,
                    hostVars
      <3>4. ~HostReads
        BY <3>1 DEF HostReads, HostLoadsLegacy, HostCannotLoadLegacy,
                    HostLoadsProfiles, HostLoadsPresets, HostFindsSecrets, hostVars
      <3>5. \A c \in Everyone :
              ~(RuntimeStopped(c) \/ RuntimeStarted(c) \/ StartFails(c))
        BY <3>1 DEF RuntimeStopped, RuntimeStarted, StartFails, hostVars
      <3>6. \A c \in Callers : ~UserStep(c)
        BY <3>1 DEF UserStep, SavePreset, SaveAsNew, ActivatePreset, DeletePreset,
                    CreateCredential, DeleteCredential, Begin, hostVars
      <3>7. \A c \in Callers : ~UserGoesOn(c)
        BY <3>1 DEF UserGoesOn, PresetsSaved, SecretSet, SecretVerified,
                    SecretDeleted, ProfilesSaved, hostVars
      <3>8. PICK c \in Everyone : HostStep(c)
        BY <1>1, <3>2, <3>3, <3>4, <3>5, <3>6, <3>7 DEF PresetsNext
      <3>9. /\ ~HostRemovesPresets(c) /\ ~HostRenamesPresets(c)
            /\ ~HostRemovesProfiles(c) /\ ~HostRenamesProfiles(c)
            /\ ~HostSetsSecret(c) /\ ~HostFindsSecret(c) /\ ~CommandFails(c)
        BY <3>1 DEF HostRemovesPresets, HostRenamesPresets, HostRemovesProfiles,
                    HostRenamesProfiles, HostSetsSecret, HostFindsSecret,
                    CommandFails, hostVars
      <3> QED BY <3>8, <3>9 DEF HostStep
    <2>2. /\ x = calls[c].credential /\ calls[c].pc = "deleteSecret"
          /\ queue # <<>> /\ Head(queue) = c
      BY <1>1, <2>1 DEF HostDeletesSecret, Turn
    <2>3. calls[c] # Idle /\ calls[c].pc \in Waits(c)
      BY <1>1, <2>2, QueueTail DEF PresetsInv
    <2>4. c # Startup
      BY <2>2, <2>3 DEF Waits
    <2>5. Course(c) /\ Agree(c) /\ loaded
      BY <1>1, <2>3, <2>4, Acting
    <2>6. ~Uses(presetState.of, x)
      BY <2>2, <2>5 DEF Course, WithSecret
    <2>7. presetState.of = Kept
      BY <2>2, <2>5 DEF Agree, Kept, Listed, Saved, NoPresets
    <2> QED BY <2>6, <2>7
  <1>2. PresetsInv /\ [PresetsNext]_presetsVars =>
          [\A x \in secrets \ secrets' : overlapped \/ ~Uses(Kept, x)]_presetsVars
    BY <1>1
  <1> QED BY <1>2, PresetsInvariance, PTL DEF PresetsSpec, SecretsInUseStay
=============================================================================
