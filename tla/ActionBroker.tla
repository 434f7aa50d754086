---------------------------- MODULE ActionBroker ----------------------------
(***************************************************************************)
(* DefaultActionBroker.execute (core/src/action-broker.ts) for several     *)
(* invocations at a time, with the permission service, the identities and  *)
(* the risk policy of core/src/security.ts, the registry of tools and the  *)
(* audit.  A step ends where execute awaits; what runs before the next     *)
(* await, such as the check of the permission after the target has been    *)
(* resolved, is one step.                                                  *)
(*                                                                         *)
(* Schemas and texts are abstracted: a request says which of its parts are *)
(* well formed, and names the target that its resolver finds.  How a scope *)
(* is compared with a target is a parameter, which Scopes defines.         *)
(*                                                                         *)
(* Definitions whose name begins with Faulty are defective variants of the *)
(* definition that follows them.  No action uses them: they are there to   *)
(* show that the properties tell the two apart.                            *)
(***************************************************************************)
EXTENDS Naturals, Sequences, FiniteSets

CONSTANTS
  Calls,      \* invocations
  Requests,   \* what an invocation may ask for: [actor, wellFormed, tool,
              \* arguments, target]
  Identities, \* from credentials to [trusted, capabilities]
  Tools,      \* from names to [capability, kind, action, high, confirmed,
              \* checked]: high risk, confirmation by policy, postcondition
  Targets,    \* what a resolver may find, records with a kind
  MatchesScope(_, _), \* whether a scope covers a target
  RuleScopes, \* scopes of permissions
  Rules,      \* permissions: [subject, kind, action, scope, allow]
  MaxRules,   \* bound: permissions added
  Nobody      \* an invocation that has not been made

ASSUME RequestsAssumption ==
  Requests \subseteq [actor : STRING, wellFormed : BOOLEAN, tool : STRING,
                      arguments : BOOLEAN, target : Targets]
ASSUME RulesAssumption ==
  Rules \subseteq [subject : STRING, kind : STRING, action : STRING,
                   scope : RuleScopes, allow : BOOLEAN]
ASSUME NobodyAssumption == Nobody \notin Requests /\ MaxRules \in Nat

VARIABLES
  asked,   \* the request of every call
  stage,   \* what the call awaits
  result,  \* the ActionResult on its way to the audit
  outcome, \* how execute settled: "none", "fulfilled" or "rejected"
  rules,   \* InMemoryPermissionService.rules
  audit,   \* the entries of the audit
  since,   \* history: how many rules there were when the call was made
  granted, \* history: what foreground check and confirmation have granted
  drove    \* history: what became of the driver's run

services == <<rules, audit>>
history == <<since, granted, drove>>
vars == <<asked, stage, result, outcome, services, history>>

Stages == {"none", "identity", "target", "foreground", "confirmation",
           "driver", "postcondition", "audit", "done"}

Codes == {"none", "SCHEMA_VALIDATION_FAILED", "TOOL_NOT_FOUND",
          "PERMISSION_DENIED", "CAPABILITY_DENIED", "TARGET_RESOLUTION_FAILED",
          "SCOPE_DENIED", "FOREGROUND_DENIED", "CONFIRMATION_REQUIRED",
          "DRIVER_ERROR", "POSTCONDITION_FAILED"}

NoResult == [status |-> "none", code |-> "none"]
Result(status, code) == [status |-> status, code |-> code]

-----------------------------------------------------------------------------
(* Policies.                                                               *)

IsRegistered(name) == name \in DOMAIN Tools
ToolOf(c) == Tools[asked[c].tool]

(* The rules that speak of what a subject does with a target.             *)
Fitting(list, subject, tool, target) ==
  {i \in DOMAIN list :
     /\ list[i].subject = subject /\ list[i].kind = tool.kind
     /\ list[i].action = tool.action /\ MatchesScope(list[i].scope, target)}

FaultyDecision(list, subject, tool, target) ==
  LET fitting == Fitting(list, subject, tool, target) IN
  \E i \in fitting : list[i].allow /\ \A j \in fitting : i <= j

(* check: the latest rule that fits decides; without one, nobody may.      *)
Decision(list, subject, tool, target) ==
  LET fitting == Fitting(list, subject, tool, target) IN
  \E i \in fitting : list[i].allow /\ \A j \in fitting : j <= i

(* DefaultRiskPolicy, and the broker's own condition.                      *)
NeedsConfirmation(tool) == tool.high /\ tool.confirmed

(* The first of the checks that need no await, or "none".                  *)
Objection(request) ==
  LET identity == Identities[request.actor] IN
  IF ~request.wellFormed THEN "SCHEMA_VALIDATION_FAILED"
  ELSE IF ~IsRegistered(request.tool) THEN "TOOL_NOT_FOUND"
  ELSE IF ~(request.actor \in DOMAIN Identities /\ identity.trusted)
       THEN "PERMISSION_DENIED"
  ELSE IF Tools[request.tool].capability \notin identity.capabilities
       THEN "CAPABILITY_DENIED"
  ELSE IF ~request.arguments THEN "SCHEMA_VALIDATION_FAILED"
  ELSE "none"

-----------------------------------------------------------------------------
(* execute.                                                                *)

Move(c, from, to) == stage[c] = from /\ stage' = [stage EXCEPT ![c] = to]

(* The result goes to the audit.                                           *)
Conclude(c, from, res) ==
  /\ Move(c, from, "audit")
  /\ result' = [result EXCEPT ![c] = res]

Execute(c, request) ==
  /\ Move(c, "none", "identity")
  /\ asked' = [asked EXCEPT ![c] = request]
  /\ since' = [since EXCEPT ![c] = Len(rules)]
  /\ UNCHANGED <<result, outcome, services, granted, drove>>

(* The identity is resolved: the checks up to the target's resolver.       *)
IdentityResolved(c) ==
  /\ stage[c] = "identity"
  /\ LET objection == Objection(asked[c]) IN
     IF objection = "none"
     THEN Move(c, "identity", "target") /\ UNCHANGED result
     ELSE Conclude(c, "identity", Result("denied", objection))
  /\ UNCHANGED <<asked, outcome, services, history>>

(* The target is resolved: its kind, then the permission, on the rules as  *)
(* they are at this moment.  What check decided is awaited.                *)
TargetResolved(c) ==
  /\ stage[c] = "target"
  /\ LET target == asked[c].target
         tool == ToolOf(c) IN
     IF target.kind # tool.kind
     THEN Conclude(c, "target", Result("denied", "SCOPE_DENIED"))
     ELSE IF Decision(rules, asked[c].actor, tool, target)
          THEN Move(c, "target", "foreground") /\ UNCHANGED result
          ELSE Conclude(c, "target", Result("denied", "PERMISSION_DENIED"))
  /\ UNCHANGED <<asked, outcome, services, history>>

TargetRefused(c) ==
  /\ Conclude(c, "target", Result("denied", "TARGET_RESOLUTION_FAILED"))
  /\ UNCHANGED <<asked, outcome, services, history>>

ForegroundVerified(c, allowed) ==
  /\ stage[c] = "foreground"
  /\ IF allowed
     THEN /\ Move(c, "foreground",
                  IF NeedsConfirmation(ToolOf(c)) THEN "confirmation" ELSE "driver")
          /\ granted' = [granted EXCEPT ![c] = @ \cup {"foreground"}]
          /\ UNCHANGED result
     ELSE /\ Conclude(c, "foreground", Result("denied", "FOREGROUND_DENIED"))
          /\ UNCHANGED granted
  /\ UNCHANGED <<asked, outcome, services, since, drove>>

Confirmed(c, approved) ==
  /\ stage[c] = "confirmation"
  /\ IF approved
     THEN /\ Move(c, "confirmation", "driver")
          /\ granted' = [granted EXCEPT ![c] = @ \cup {"confirmation"}]
          /\ UNCHANGED result
     ELSE /\ Conclude(c, "confirmation", Result("denied", "CONFIRMATION_REQUIRED"))
          /\ UNCHANGED granted
  /\ UNCHANGED <<asked, outcome, services, since, drove>>

DriverFulfils(c) ==
  /\ stage[c] = "driver"
  /\ drove' = [drove EXCEPT ![c] = "fulfilled"]
  /\ IF ToolOf(c).checked
     THEN Move(c, "driver", "postcondition") /\ UNCHANGED result
     ELSE Conclude(c, "driver", Result("success", "none"))
  /\ UNCHANGED <<asked, outcome, services, since, granted>>

(* The driver or the check of its postcondition throws.                    *)
DriverFails(c) ==
  /\ stage[c] \in {"driver", "postcondition"}
  /\ drove' = [drove EXCEPT ![c] = "failed"]
  /\ Conclude(c, stage[c], Result("error", "DRIVER_ERROR"))
  /\ UNCHANGED <<asked, outcome, services, since, granted>>

PostconditionChecked(c, holds) ==
  /\ Conclude(c, "postcondition",
              IF holds THEN Result("success", "none")
              ELSE Result("error", "POSTCONDITION_FAILED"))
  /\ drove' = [drove EXCEPT ![c] = IF holds THEN @ ELSE "failed"]
  /\ UNCHANGED <<asked, outcome, services, since, granted>>

AuditRecorded(c) ==
  /\ Move(c, "audit", "done")
  /\ audit' = Append(audit, [call |-> c, status |-> result[c].status])
  /\ outcome' = [outcome EXCEPT ![c] = "fulfilled"]
  /\ UNCHANGED <<asked, result, rules, history>>

FaultyAuditFails(c) ==
  /\ stage[c] = "audit"
  /\ IF drove[c] = "fulfilled" /\ result[c].status = "success"
     THEN /\ result' = [result EXCEPT ![c] = Result("error", "DRIVER_ERROR")]
          /\ UNCHANGED <<stage, outcome>>
     ELSE /\ Move(c, "audit", "done")
          /\ outcome' = [outcome EXCEPT ![c] = "rejected"]
          /\ UNCHANGED result
  /\ UNCHANGED <<asked, services, history>>

(* The audit throws: its promise is returned and not awaited in the try    *)
(* block, so that the catch does not see it and execute rejects.           *)
AuditFails(c) ==
  /\ Move(c, "audit", "done")
  /\ outcome' = [outcome EXCEPT ![c] = "rejected"]
  /\ UNCHANGED <<asked, result, services, history>>

(* The identity resolver, the foreground check or the confirmation throws: *)
(* execute rejects, and nothing is recorded.                               *)
ServiceFails(c) ==
  /\ stage[c] \in {"identity", "foreground", "confirmation"}
  /\ stage' = [stage EXCEPT ![c] = "done"]
  /\ outcome' = [outcome EXCEPT ![c] = "rejected"]
  /\ UNCHANGED <<asked, result, services, history>>

(* InMemoryPermissionService.add, at any time.                             *)
AddRule(rule) ==
  /\ Len(rules) < MaxRules
  /\ rules' = Append(rules, rule)
  /\ UNCHANGED <<asked, stage, result, outcome, audit, history>>

-----------------------------------------------------------------------------
Init ==
  /\ asked = [c \in Calls |-> Nobody]
  /\ stage = [c \in Calls |-> "none"]
  /\ result = [c \in Calls |-> NoResult]
  /\ outcome = [c \in Calls |-> "none"]
  /\ rules = <<>> /\ audit = <<>>
  /\ since = [c \in Calls |-> 0]
  /\ granted = [c \in Calls |-> {}]
  /\ drove = [c \in Calls |-> "not"]

Next ==
  \/ \E c \in Calls :
       \/ \E request \in Requests : Execute(c, request)
       \/ IdentityResolved(c)
       \/ TargetResolved(c) \/ TargetRefused(c)
       \/ \E yes \in BOOLEAN : ForegroundVerified(c, yes)
       \/ \E yes \in BOOLEAN : Confirmed(c, yes)
       \/ DriverFulfils(c) \/ DriverFails(c)
       \/ \E holds \in BOOLEAN : PostconditionChecked(c, holds)
       \/ AuditRecorded(c) \/ AuditFails(c)
       \/ ServiceFails(c)
  \/ \E rule \in Rules : AddRule(rule)

Spec == Init /\ [][Next]_vars

-----------------------------------------------------------------------------
(* Properties.                                                             *)

(* Type invariant of the broker.                                           *)
TypeOK ==
  /\ asked \in [Calls -> Requests \cup {Nobody}]
  /\ stage \in [Calls -> Stages]
  /\ result \in [Calls -> [status : {"none", "success", "denied", "error"},
                           code : Codes]]
  /\ outcome \in [Calls -> {"none", "fulfilled", "rejected"}]
  /\ rules \in Seq(Rules)
  /\ audit \in Seq([call : Calls, status : {"success", "denied", "error"}])
  /\ since \in [Calls -> Nat]
  /\ granted \in [Calls -> SUBSET {"foreground", "confirmation"}]
  /\ drove \in [Calls -> {"not", "fulfilled", "failed"}]

(* Some rule allows what is requested, and no later one forbids it.        *)
Permitted(list, request) ==
  LET tool == Tools[request.tool]
      Fits(rule) ==
        /\ rule.subject = request.actor
        /\ rule.kind = tool.kind /\ rule.action = tool.action
        /\ MatchesScope(rule.scope, request.target)
  IN \E i \in DOMAIN list :
       /\ Fits(list[i]) /\ list[i].allow
       /\ \A j \in DOMAIN list : j > i /\ Fits(list[j]) => list[j].allow

(* "Canonical tool policy controls risk, capabilities, resource type,      *)
(* action type ..." (docs/security.md): a driver is called only for a      *)
(* trusted actor with the tool's capability and a target of its kind,      *)
(* after the foreground check and, at high risk, the confirmation; and     *)
(* only when the latest rule that fits has allowed it at some moment since *)
(* the call was made.  A rule that forbids it before the call is decisive; *)
(* one that comes while the user is asked is not.                          *)
RunsOnlyCleared ==
  \A c \in Calls :
    stage[c] = "driver" \/ drove[c] # "not" =>
      LET request == asked[c]
          tool == Tools[request.tool] IN
      /\ Identities[request.actor].trusted
      /\ tool.capability \in Identities[request.actor].capabilities
      /\ request.target.kind = tool.kind
      /\ "foreground" \in granted[c]
      /\ tool.high /\ tool.confirmed => "confirmation" \in granted[c]
      /\ \E n \in since[c]..Len(rules) : Permitted(SubSeq(rules, 1, n), request)

(* Every call that is fulfilled is in the audit once, with the status that *)
(* its caller gets, one that is rejected not at all; and the entry tells   *)
(* what became of the driver: denied means that it was never called, and   *)
(* success that it did what it should.                                     *)
RecordedOnce ==
  \A c \in Calls :
    LET entries == {i \in DOMAIN audit : audit[i].call = c} IN
      /\ Cardinality(entries) = IF outcome[c] = "fulfilled" THEN 1 ELSE 0
      /\ \A i \in entries :
           /\ audit[i].status = result[c].status
           /\ audit[i].status = "denied" <=> drove[c] = "not"
           /\ audit[i].status = "success" <=> drove[c] = "fulfilled"
=============================================================================
