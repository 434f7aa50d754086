--------------------------- MODULE MCActionBroker ---------------------------
(***************************************************************************)
(* Instance of ScopedBroker for TLC: a character that may open pages,      *)
(* files and windows and a stranger; a tool of low risk for each kind of   *)
(* target, and one that needs a confirmation and whose postcondition is    *)
(* checked; rules for a domain, a directory and an application.            *)
(***************************************************************************)
EXTENDS ScopedBroker, TLC

CONSTANTS c1, c2

MCCalls == {c1, c2}

Symmetric == Permutations(MCCalls)

MCIdentities ==
  [actor \in {"character", "guest"} |->
     [trusted |-> actor = "character", capabilities |-> {"use"}]]

MCTools ==
  [name \in {"open", "submit", "erase", "read", "focus"} |->
     [capability |-> IF name = "erase" THEN "erase" ELSE "use",
      kind |-> CASE name = "read" -> "filesystem"
                 [] name = "focus" -> "application"
                 [] OTHER -> "domain",
      action |-> "look",
      high |-> name = "submit", confirmed |-> name = "submit",
      checked |-> name = "submit"]]

-----------------------------------------------------------------------------
Page == [kind |-> "domain", labels |-> <<"shop", "example", "org">>]
Lookalike == [kind |-> "domain", labels |-> <<"badexample", "org">>]

(* A file in the directory of the rules, by a detour; a path that is       *)
(* written as if it lay there and does not; one without a canonical form.  *)
Files ==
  UNION {Resolved(Path("/", <<"home", ".", "a">>), canonical) :
           canonical \in {Path("/", <<"home", "notes", "..", "a">>),
                          Path("/", <<"home", "..", "a">>), Unknown}}

Windows == {[kind |-> "application", application |-> "editor", window |-> w] :
              w \in {"main", "other"}}

MCTargets == {Page, Lookalike} \cup Files \cup Windows

-----------------------------------------------------------------------------
Ask(actor, tool, target) ==
  [actor |-> actor, wellFormed |-> TRUE, tool |-> tool, arguments |-> TRUE,
   target |-> target]

MCRequests ==
  {Ask("character", "submit", Page), Ask("character", "erase", Page),
   Ask("character", "read", Page), Ask("character", "none", Page),
   Ask("guest", "open", Page), Ask("nobody", "open", Page),
   [Ask("character", "open", Page) EXCEPT !.wellFormed = FALSE],
   [Ask("character", "open", Page) EXCEPT !.arguments = FALSE]}
  \cup {Ask("character", "open", page) : page \in {Page, Lookalike}}
  \cup {Ask("character", "read", file) : file \in Files}
  \cup {Ask("character", "focus", window) : window \in Windows}

-----------------------------------------------------------------------------
None == [Everything EXCEPT !.all = FALSE]
Site == [None EXCEPT !.domains = {<<"example", "org">>}]
Home == [None EXCEPT !.roots = {Path("/", <<"home">>)}]
Editor == [None EXCEPT !.applications = {"editor"}, !.windows = {"main"}]

MCRuleScopes == {Everything, Site, Home, Editor}

Rule(kind, scope, allow) ==
  [subject |-> "character", kind |-> kind, action |-> "look",
   scope |-> scope, allow |-> allow]

MCRules ==
  {Rule("domain", Site, TRUE), Rule("domain", Everything, FALSE),
   Rule("filesystem", Home, TRUE), Rule("application", Editor, TRUE)}
=============================================================================
