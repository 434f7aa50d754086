------------------------------- MODULE Scopes -------------------------------
(***************************************************************************)
(* Which targets the scope of a permission covers: matchesScope of         *)
(* InMemoryPermissionService and the comparisons of domains, paths and     *)
(* windows it uses, with FilesystemTargetResolver                          *)
(* (core/src/security.ts).                                                 *)
(*                                                                         *)
(* A domain is the sequence of its labels, a path its root (a drive, or    *)
(* "/") and the sequence of its parts as they are written, "." and ".."    *)
(* among them.  Letters count as equal in either case.  Neither a          *)
(* canonical path nor the root of a rule is relative or leaves its root:   *)
(* check throws when it comes to one that does.                            *)
(*                                                                         *)
(* Definitions whose name begins with Faulty are defective variants of the *)
(* definition that follows them.  No action uses them: they are there to   *)
(* show that the properties tell the two apart.                            *)
(***************************************************************************)
EXTENDS Naturals, Sequences, FiniteSets, SequencesExt

Path(root, parts) == [root |-> root, parts |-> parts]

(* The canonical form could not be found.                                  *)
Unknown == Path("none", <<>>)

(* A rule without a scope.                                                 *)
Everything == [domains |-> {}, roots |-> {}, applications |-> {},
               windows |-> {}, all |-> TRUE]

-----------------------------------------------------------------------------
(* normalizeFilesystemPath: the parts are put on a stack, from which ".."  *)
(* takes one; a path that leaves its root is refused.                      *)

FaultyPushed(stack, part) ==
  IF part \in {"", ".", ".."} THEN stack
  ELSE [stack EXCEPT !.parts = Append(@, part)]

Pushed(stack, part) ==
  IF part \in {"", "."} \/ stack.leaves THEN stack
  ELSE IF part # ".." THEN [stack EXCEPT !.parts = Append(@, part)]
  ELSE IF stack.parts = <<>> THEN [stack EXCEPT !.leaves = TRUE]
  ELSE [stack EXCEPT !.parts = Front(@)]

Normalized(path) ==
  LET after[n \in 0..Len(path.parts)] ==  \* the stack after n parts
        IF n = 0 THEN [root |-> path.root, parts |-> <<>>, leaves |-> FALSE]
        ELSE Pushed(after[n - 1], path.parts[n])
  IN after[Len(path.parts)]

(* FilesystemTargetResolver: the targets a path may be resolved to, none   *)
(* when it is refused.  What canonicalize answers is the caller's.         *)
Resolved(path, canonical) ==
  LET n == Normalized(path) IN
  IF n.leaves THEN {}
  ELSE {[kind |-> "filesystem", path |-> Path(n.root, n.parts),
         canonical |-> canonical]}

DomainAllowed(labels, domains) == \E base \in domains : IsSuffix(base, labels)

PathAllowed(path, roots) ==
  \E root \in roots :
    LET r == Normalized(root)
        p == Normalized(path) IN
    r.root = p.root /\ IsPrefix(r.parts, p.parts)

ApplicationAllowed(target, scope) ==
  /\ target.application \in scope.applications
  /\ scope.windows = {} \/ target.window \in scope.windows

Matches(scope, target) ==
  CASE scope.all -> TRUE
    [] ~scope.all /\ target.kind = "domain" ->
         DomainAllowed(target.labels, scope.domains)
    [] ~scope.all /\ target.kind = "filesystem" ->
         target.canonical # Unknown /\ PathAllowed(target.canonical, scope.roots)
    [] ~scope.all /\ target.kind = "application" -> ApplicationAllowed(target, scope)
    [] OTHER -> FALSE

(* The parameters of rules and resolved targets.                           *)
Paths == [root : STRING, parts : Seq(STRING)]

WellFormedScope(scope) ==
  /\ scope.domains \subseteq Seq(STRING) /\ scope.roots \subseteq Paths
  /\ \A root \in scope.roots : ~Normalized(root).leaves

WellFormedTarget(target) ==
  /\ target.kind = "domain" => target.labels \in Seq(STRING)
  /\ target.kind = "filesystem" => target.canonical \in Paths

-----------------------------------------------------------------------------
(* What it should mean, without a stack.                                   *)

IsName(part) == part \notin {"", ".", ".."}

(* How far below the place before part i one is after part j.              *)
Depth(parts, i, j) ==
  Cardinality({k \in i..j : IsName(parts[k])})
    - Cardinality({k \in i..j : parts[k] = ".."})

(* The directories one stands in after walking along the parts: those that *)
(* were entered and never left again.                                      *)
Location(parts) ==
  LET entered == {i \in DOMAIN parts :
                    IsName(parts[i])
                    /\ \A j \in i..Len(parts) : Depth(parts, i, j) > 0}
  IN [n \in 1..Cardinality(entered) |->
        parts[CHOOSE i \in entered :
                Cardinality({j \in entered : j <= i}) = n]]

(* A scope covers a domain and what ends in it, a directory and what lies  *)
(* in it, an application and the windows it names.                         *)
Covers(scope, target) ==
  \/ scope.all
  \/ /\ target.kind = "domain"
     /\ \E base \in scope.domains, n \in 0..Len(target.labels) :
          base = SubSeq(target.labels, n + 1, Len(target.labels))
  \/ /\ target.kind = "filesystem" /\ target.canonical # Unknown
     /\ \E root \in scope.roots :
          /\ root.root = target.canonical.root
          /\ \E n \in 0..Len(Location(target.canonical.parts)) :
               Location(root.parts) = SubSeq(Location(target.canonical.parts), 1, n)
  \/ /\ target.kind = "application" /\ target.application \in scope.applications
     /\ scope.windows # {} => target.window \in scope.windows
=============================================================================
