--------------------------- MODULE EvaluationContext ---------------------------
(***************************************************************************)
(* The deferred work of one compilation (evaluation::context, context.cc): *)
(* resources entering the catalog realized or virtual, defined-type        *)
(* instances queued for later evaluation, collectors, resource overrides   *)
(* and relationships, and context::finalize, the fixed-point loop that     *)
(* runs the collectors and evaluates the queued defined types until        *)
(* nothing changes or the iteration cap is reached.                        *)
(*                                                                         *)
(* Data is abstracted to identities: a resource is a model value, a        *)
(* collector's attribute query is the set of resources it matches, an      *)
(* override is a model value aimed at one resource, setting some          *)
(* attributes from the scope it was written in.  The body of a            *)
(* defined type is user code: while it runs (phase "body") the model lets *)
(* it perform any of the declaration operations, as the main manifest can  *)
(* (phase "main").                                                         *)
(***************************************************************************)
EXTENDS Naturals, Sequences, SequencesExt, FiniteSets

LOCAL INSTANCE Relation

CONSTANTS
    Res,            \* resource identities (type name + title)
    DefinedRes,     \* the resources that are instances of defined types
    Collectors,     \* collector expressions of the manifests
    Query,          \* Query[c]: the resources collector c's query matches
    Overrides,      \* resource override expressions
    Target,         \* Target[o]: the resource override o refers to
    Rels,           \* relationship expressions, as <<source, target>>
    MaxIterations,  \* max_iterations of context::finalize
    Attrs,          \* attribute names
    DeclAttrs,      \* DeclAttrs[r]: the attribute sets r may be declared with
    Sets,           \* Sets[o]: the attributes override o assigns
    Scopes,         \* the evaluation scopes (top, node and class scopes)
    Parent,         \* Parent[s]: the parent scope, NoScope for the top scope
    ScopeRes,       \* ScopeRes[s]: the resource of scope s, or NoRes
    Container,      \* Container[r]: the resource that contains r
    Scope,          \* Scope[o]: the scope override o was evaluated in
    Classes         \* the class resources that contain resources

ASSUME DefinedRes \subseteq Res
ASSUME Query \in [Collectors -> SUBSET Res]
ASSUME Target \in [Overrides -> Res]
ASSUME Rels \subseteq Res \X Res
ASSUME MaxIterations \in Nat
ASSUME DeclAttrs \in [Res -> SUBSET SUBSET Attrs] /\ Sets \in [Overrides -> SUBSET Attrs]

NoScope == "noScope"
NoRes == "noRes"
Decl == "declaration"

ASSUME /\ Parent \in [Scopes -> Scopes \cup {NoScope}]
       /\ ScopeRes \in [Scopes -> Classes \cup {NoRes}]
       /\ Container \in [Res -> Classes \cup {NoRes}]
       /\ Scope \in [Overrides -> Scopes \cup {NoScope}]

VARIABLES
    cat,            \* catalog: cat[r] is "absent", "virtual" or "realized"
    defined,        \* _defined_types: declared defined types in order
    index,          \* finalize's index into _defined_types
    size,           \* the end of the range evaluated by this pass
    virtualized,    \* finalize's list of defined types found virtual
    vpos,           \* position of remove_if in virtualized
    collectors,     \* _collectors in order of addition
    collected,      \* collected[c]: collector c's _resources
    issued,         \* overrides added to the context so far
    pending,        \* _overrides: those whose resource did not yet exist,
                    \* in insertion order
    attrs,          \* attrs[r][a]: the declaration and overrides that set
                    \* attribute a of r, in order (<< >>: not set)
    applied,        \* applied[o]: times override o was evaluated
    rels,           \* _relationships
    edges,          \* relationships added to the catalog graph
    iteration,      \* finalize's iteration counter
    evaluated,      \* evaluated[r]: times defined type r's body was run
    phase,          \* where the compilation is
    ret,            \* the finalize step a body returns to
    reason          \* why the compilation failed

vars == <<cat, defined, index, size, virtualized, vpos, collectors, collected,
          issued, pending, attrs, applied, rels, edges, iteration, evaluated,
          phase, ret, reason>>

Phases == {"main", "collect", "check", "virt", "range", "body", "iter",
           "after", "done", "failed"}

NoReason == "none"

TypeOK ==
    /\ cat \in [Res -> {"absent", "virtual", "realized"}]
    /\ defined \in Seq(DefinedRes)
    /\ index \in Nat /\ size \in Nat /\ vpos \in Nat
    /\ virtualized \in Seq(DefinedRes)
    /\ collectors \in Seq(Collectors)
    /\ collected \in [Collectors -> SUBSET Res]
    /\ issued \subseteq Overrides
    /\ pending \in Seq(issued) /\ IsInjective(pending)
    /\ attrs \in [Res -> [Attrs -> Seq({Decl} \cup Overrides)]]
    /\ applied \in [Overrides -> Nat]
    /\ rels \subseteq Rels /\ edges \subseteq Rels
    /\ iteration \in Nat
    /\ evaluated \in [Res -> Nat]
    /\ phase \in Phases /\ ret \in {"virt", "range"}
    /\ reason \in {NoReason, "maxIterations", "relationship", "override",
                  "conflict"}

Init ==
    /\ cat = [r \in Res |-> "absent"]
    /\ defined = <<>>
    /\ index = 0 /\ size = 0 /\ vpos = 1
    /\ virtualized = <<>>
    /\ collectors = <<>>
    /\ collected = [c \in Collectors |-> {}]
    /\ issued = {} /\ pending = << >>
    /\ attrs = [r \in Res |-> [a \in Attrs |-> << >>]]
    /\ applied = [o \in Overrides |-> 0]
    /\ rels = {} /\ edges = {}
    /\ iteration = 0
    /\ evaluated = [r \in Res |-> 0]
    /\ phase = "main" /\ ret = "range"
    /\ reason = NoReason

Evaluating == phase \in {"main", "body"}

(***************************************************************************)
(* Mutations used by the project's mutant runs (each replaces the body of  *)
(* the definition of the same name without the "Mut" prefix).            *)
(***************************************************************************)
MutQueueDefined(r) ==   \* every declared resource queued as a defined type
    Append(defined, r)

MutErasePending(r) ==   \* evaluate_overrides without the erase
    pending

MutCheckDone ==         \* stop as soon as the queue is exhausted
    index >= Len(defined)

MutNextPass ==          \* the next pass skips the collectors
    "check"

(***************************************************************************)
(* resource_override::evaluate.  An override may override (set attributes *)
(* already set) when it has no scope, or when the resource's container is  *)
(* the resource of a scope met walking up from the parent of its scope,    *)
(* stopping before the top scope (`while (parent && parent->parent())`).  *)
(***************************************************************************)
RECURSIVE ContainedFrom(_, _)
ContainedFrom(s, r) ==
    IF s = NoScope \/ Parent[s] = NoScope THEN FALSE
    ELSE \/ ScopeRes[s] # NoRes /\ Container[r] = ScopeRes[s]
         \/ ContainedFrom(Parent[s], r)

\* The walk started at the override's own scope.
MutAllowOverride(o) == Scope[o] = NoScope \/ ContainedFrom(Scope[o], Target[o])

AllowOverride(o) == Scope[o] = NoScope \/ ContainedFrom(Parent[Scope[o]], Target[o])

\* Not allowed to override, the override throws "cannot set attribute ...
\* previously set" at its first attribute already set, before setting any.
Conflict(o, w) == ~AllowOverride(o) /\ \E a \in Sets[o] : w[a] # << >>

\* resource->set or append of every attribute of the override.  With no
\* attributes nothing happens, as the early return after the existence
\* check does.
Assign(o, w) == [a \in Attrs |-> IF a \in Sets[o] THEN Append(w[a], o) ELSE w[a]]

\* Overrides evaluated in order from attributes w: the attributes after,
\* the overrides evaluated without throwing, and whether none threw.
RECURSIVE EvaluateOverrides(_, _, _)
EvaluateOverrides(os, w, ran) ==
    IF os = << >> THEN [ok |-> TRUE, w |-> w, ran |-> ran]
    ELSE IF Conflict(Head(os), w) THEN [ok |-> FALSE, w |-> w, ran |-> ran]
    ELSE EvaluateOverrides(Tail(os), Assign(Head(os), w), ran \cup {Head(os)})

\* _overrides.equal_range(resource): the stored overrides of r, in order.
Stored(r) == SelectSeq(pending, LAMBDA o : Target[o] = r)

ErasePending(r) == SelectSeq(pending, LAMBDA o : Target[o] # r)

(***************************************************************************)
(* context::evaluate_overrides(resource), then the overrides that follow   *)
(* it in os: evaluate each in order, then erase the stored ones.  A throw  *)
(* fails the compilation; the erase is skipped when a stored one threw.    *)
(***************************************************************************)
ApplyPending(r, os, w) ==
    LET res == EvaluateOverrides(os, w, {})
    IN /\ attrs' = [attrs EXCEPT ![r] = res.w]
       /\ applied' = [o \in Overrides |->
                        IF o \in res.ran THEN applied[o] + 1 ELSE applied[o]]
       /\ pending' = IF ToSet(Stored(r)) \subseteq res.ran
                     THEN ErasePending(r) ELSE pending
       /\ IF res.ok THEN UNCHANGED <<phase, reason>>
          ELSE phase' = "failed" /\ reason' = "conflict"

(* context::add(declared_defined_type), for an instance of a defined type. *)
QueueDefined(r) ==
    IF r \in DefinedRes THEN Append(defined, r) ELSE defined

(***************************************************************************)
(* A resource expression (or a defined-type declaration) adds the resource *)
(* to the catalog, realized or virtual (@); a defined-type instance is     *)
(* also queued with context::add(declared_defined_type); the overrides     *)
(* that were waiting for the resource are then evaluated over the          *)
(* attributes it was declared with.                                        *)
(***************************************************************************)
Declare(r, st) ==
    /\ Evaluating
    /\ cat[r] = "absent"
    /\ cat' = [cat EXCEPT ![r] = st]
    /\ defined' = QueueDefined(r)
    /\ \E A \in DeclAttrs[r] :
         ApplyPending(r, Stored(r), [a \in Attrs |-> IF a \in A THEN <<Decl>> ELSE << >>])
    /\ UNCHANGED <<index, size, virtualized, vpos, collectors, collected,
                   issued, rels, edges, iteration, evaluated, ret>>

(* realize(Type[title]) on a virtual resource of the catalog.             *)
Realize(r) ==
    /\ Evaluating
    /\ cat[r] = "virtual"
    /\ cat' = [cat EXCEPT ![r] = "realized"]
    /\ UNCHANGED <<defined, index, size, virtualized, vpos, collectors,
                   collected, issued, pending, attrs, applied, rels, edges, iteration,
                   evaluated, phase, ret, reason>>

(* context::add(collector): the collector runs only during finalize.      *)
AddCollector(c) ==
    /\ Evaluating
    /\ c \notin ToSet(collectors)
    /\ collectors' = Append(collectors, c)
    /\ UNCHANGED <<cat, defined, index, size, virtualized, vpos, collected,
                   issued, pending, attrs, applied, rels, edges, iteration, evaluated,
                   phase, ret, reason>>

(***************************************************************************)
(* context::add(resource_override): an override of a resource not yet in  *)
(* the catalog is stored; otherwise the stored overrides of the resource   *)
(* are evaluated first, then this one.                                     *)
(***************************************************************************)
AddOverride(o) ==
    /\ Evaluating
    /\ o \notin issued
    /\ issued' = issued \cup {o}
    /\ IF cat[Target[o]] = "absent"
         THEN /\ pending' = Append(pending, o)
              /\ UNCHANGED <<attrs, applied, phase, reason>>
         ELSE ApplyPending(Target[o], Stored(Target[o]) \o <<o>>, attrs[Target[o]])
    /\ UNCHANGED <<cat, defined, index, size, virtualized, vpos, collectors,
                   collected, rels, edges, iteration, evaluated, ret>>

(* context::add(resource_relationship): evaluated only during finalize.   *)
AddRelationship(rel) ==
    /\ Evaluating
    /\ rel \notin rels
    /\ rels' = rels \cup {rel}
    /\ UNCHANGED <<cat, defined, index, size, virtualized, vpos, collectors,
                   collected, issued, pending, attrs, applied, edges, iteration,
                   evaluated, phase, ret, reason>>

(* node::compile: the manifests and node definition are evaluated, then   *)
(* context.finalize() starts.                                              *)
EndMain ==
    /\ phase = "main"
    /\ phase' = "collect"
    /\ UNCHANGED <<cat, defined, index, size, virtualized, vpos, collectors,
                   collected, issued, pending, attrs, applied, rels, edges, iteration,
                   evaluated, ret, reason>>

(* The body of a defined type returns to the finalize step that ran it.   *)
EndBody ==
    /\ phase = "body"
    /\ phase' = ret
    /\ UNCHANGED <<cat, defined, index, size, virtualized, vpos, collectors,
                   collected, issued, pending, attrs, applied, rels, edges, iteration,
                   evaluated, ret, reason>>

(***************************************************************************)
(* context::finalize.  Each pass first runs every collector: a collector   *)
(* realizes each matching resource of the catalog and records it once in   *)
(* its _resources (collector::collect_resource with check).                *)
(***************************************************************************)
Matched(c) == {r \in Query[c] : cat[r] # "absent"}

RunCollectors ==
    /\ phase = "collect"
    /\ LET active == ToSet(collectors)
           hit    == UNION {Matched(c) : c \in active}
       IN /\ cat' = [r \in Res |-> IF r \in hit THEN "realized" ELSE cat[r]]
          /\ collected' = [c \in Collectors |->
                             IF c \in active THEN collected[c] \cup Matched(c)
                             ELSE collected[c]]
    /\ phase' = "check"
    /\ UNCHANGED <<defined, index, size, virtualized, vpos, collectors, issued,
                   pending, attrs, applied, rels, edges, iteration, evaluated, ret,
                   reason>>

(* The loop ends when every queued defined type has been visited and      *)
(* every one set aside as virtual is still virtual.                        *)
CheckDone ==
    /\ index >= Len(defined)
    /\ \A i \in 1..Len(virtualized) : cat[virtualized[i]] = "virtual"

Check ==
    /\ phase = "check"
    /\ IF CheckDone THEN phase' = "after"
                    ELSE phase' = "virt"
    /\ vpos' = 1
    /\ UNCHANGED <<cat, defined, index, size, virtualized, collectors,
                   collected, issued, pending, attrs, applied, rels, edges, iteration,
                   evaluated, ret, reason>>

(***************************************************************************)
(* evaluate_defined_types, first part: remove_if over virtualized; an      *)
(* entry no longer virtual is evaluated and removed, the others are kept.  *)
(***************************************************************************)
VirtKeep ==
    /\ phase = "virt"
    /\ vpos <= Len(virtualized)
    /\ cat[virtualized[vpos]] = "virtual"
    /\ vpos' = vpos + 1
    /\ UNCHANGED <<cat, defined, index, size, virtualized, collectors,
                   collected, issued, pending, attrs, applied, rels, edges, iteration,
                   evaluated, phase, ret, reason>>

VirtEval ==
    /\ phase = "virt"
    /\ vpos <= Len(virtualized)
    /\ cat[virtualized[vpos]] # "virtual"
    /\ evaluated' = [evaluated EXCEPT ![virtualized[vpos]] = @ + 1]
    /\ virtualized' = RemoveAt(virtualized, vpos)
    /\ phase' = "body" /\ ret' = "virt"
    /\ UNCHANGED <<cat, defined, index, size, vpos, collectors, collected,
                   issued, pending, attrs, applied, rels, edges, iteration, reason>>

(* The second part visits _defined_types from index to the size it has   *)
(* now; types queued by the bodies it runs wait for the next pass.         *)
VirtEnd ==
    /\ phase = "virt"
    /\ vpos > Len(virtualized)
    /\ size' = Len(defined)
    /\ phase' = "range"
    /\ UNCHANGED <<cat, defined, index, virtualized, vpos, collectors,
                   collected, issued, pending, attrs, applied, rels, edges, iteration,
                   evaluated, ret, reason>>

RangeVirtual ==
    /\ phase = "range"
    /\ index < size
    /\ cat[defined[index + 1]] = "virtual"
    /\ virtualized' = Append(virtualized, defined[index + 1])
    /\ index' = index + 1
    /\ UNCHANGED <<cat, defined, size, vpos, collectors, collected, issued,
                   pending, attrs, applied, rels, edges, iteration, evaluated, phase,
                   ret, reason>>

RangeEval ==
    /\ phase = "range"
    /\ index < size
    /\ cat[defined[index + 1]] # "virtual"
    /\ evaluated' = [evaluated EXCEPT ![defined[index + 1]] = @ + 1]
    /\ index' = index + 1
    /\ phase' = "body" /\ ret' = "range"
    /\ UNCHANGED <<cat, defined, size, virtualized, vpos, collectors,
                   collected, issued, pending, attrs, applied, rels, edges, iteration,
                   reason>>

RangeEnd ==
    /\ phase = "range"
    /\ index >= size
    /\ phase' = "iter"
    /\ UNCHANGED <<cat, defined, index, size, virtualized, vpos, collectors,
                   collected, issued, pending, attrs, applied, rels, edges, iteration,
                   evaluated, ret, reason>>

(* "if (iteration++ >= max_iterations) throw": checked after the pass;   *)
(* the loop then starts over, so that the collectors run again.           *)
NextPass == "collect"

IterCheck ==
    /\ phase = "iter"
    /\ IF iteration >= MaxIterations
         THEN /\ phase' = "failed" /\ reason' = "maxIterations"
         ELSE /\ phase' = NextPass /\ UNCHANGED reason
    /\ iteration' = iteration + 1
    /\ UNCHANGED <<cat, defined, index, size, virtualized, vpos, collectors,
                   collected, issued, pending, attrs, applied, rels, edges, evaluated,
                   ret>>

(***************************************************************************)
(* After the loop: resource_relationship::evaluate for every relationship  *)
(* (each end must be in the catalog and not virtual, and not the same      *)
(* resource), then resource_override::evaluate for every override still    *)
(* stored, which throws because its resource is not in the catalog.        *)
(***************************************************************************)
BadRel(rel) ==
    \/ cat[rel[1]] # "realized"
    \/ cat[rel[2]] # "realized"
    \/ rel[1] = rel[2]

Finish ==
    /\ phase = "after"
    /\ CASE \E rel \in rels : BadRel(rel) ->
              /\ phase' = "failed" /\ reason' = "relationship"
              /\ UNCHANGED edges
         [] pending # << >> ->
              /\ phase' = "failed" /\ reason' = "override"
              /\ edges' = rels
         [] OTHER ->
              /\ phase' = "done" /\ UNCHANGED reason
              /\ edges' = rels
    /\ UNCHANGED <<cat, defined, index, size, virtualized, vpos, collectors,
                   collected, issued, pending, attrs, applied, rels, iteration,
                   evaluated, ret>>

Next ==
    \/ \E r \in Res, st \in {"virtual", "realized"} : Declare(r, st)
    \/ \E r \in Res : Realize(r)
    \/ \E c \in Collectors : AddCollector(c)
    \/ \E o \in Overrides : AddOverride(o)
    \/ \E rel \in Rels : AddRelationship(rel)
    \/ EndMain \/ EndBody
    \/ RunCollectors \/ Check \/ VirtKeep \/ VirtEval \/ VirtEnd
    \/ RangeVirtual \/ RangeEval \/ RangeEnd \/ IterCheck \/ Finish

Spec == Init /\ [][Next]_vars

-----------------------------------------------------------------------------
(***************************************************************************)
(* Properties.                                                             *)
(***************************************************************************)

(* Every defined-type instance is evaluated at most once, and when the    *)
(* compilation succeeds exactly the realized ones have been evaluated:     *)
(* the remove_if over virtualized, the range loop and the loop's exit      *)
(* condition together neither lose nor repeat an instance, however the     *)
(* bodies and collectors realize instances set aside as virtual.          *)
DefinedTypesEvaluatedOnce ==
    /\ \A r \in Res : evaluated[r] <= 1
    /\ phase = "done" =>
         \A r \in DefinedRes : (evaluated[r] = 1) <=> (cat[r] = "realized")

(* A successful compilation leaves no resource that some collector's      *)
(* query matches still virtual, even when the resource was declared, or   *)
(* the collector added, by a defined type evaluated in the last pass.      *)
CollectedAreRealized ==
    phase = "done" =>
      \A c \in ToSet(collectors) : \A r \in Query[c] :
        cat[r] # "virtual"

(* Every override is evaluated at most once, and when the compilation     *)
(* succeeds every override added was evaluated: the stored overrides of a *)
(* resource are erased once evaluated at its declaration or at a later     *)
(* override of it.                                                         *)
OverridesAppliedOnce ==
    /\ \A o \in Overrides : applied[o] <= 1
    /\ phase = "done" => \A o \in issued : applied[o] = 1

(* The error "maximum defined type evaluations exceeded: a defined type    *)
(* may be infinitely recursive" is raised only while work remains: some   *)
(* queued defined type not yet visited, or one set aside as virtual that   *)
(* is now realized or that a collector would realize.                     *)
WorkRemains ==
    \/ index < Len(defined)
    \/ \E i \in 1..Len(virtualized) :
         \/ cat[virtualized[i]] # "virtual"
         \/ \E c \in ToSet(collectors) : virtualized[i] \in Query[c]

MaxIterationsOnlyWhenWorkRemains ==
    (phase = "failed" /\ reason = "maxIterations") => WorkRemains

\* Above[s, t]: scope t is a proper ancestor of scope s.
Above == TransitiveClosure([x, y \in Scopes |-> Parent[x] = y], Scopes)

\* Spec 4.5's inheriting scope: the override was written in a scope below
\* a class scope (not the top scope) of the class containing the resource.
InheritingScope(o) ==
    \E t \in Scopes : /\ Above[Scope[o], t]
                     /\ Parent[t] # NoScope
                     /\ ScopeRes[t] # NoRes
                     /\ ScopeRes[t] = Container[Target[o]]

(* Spec 4.5: an override outside an inheriting scope cannot modify an      *)
(* attribute already set.  Whether an override is stored before its        *)
(* resource exists and evaluated when the resource is declared, or runs at *)
(* once after the overrides stored before it, an attribute of a resource  *)
(* is set again only by an override from a scope that inherits from the  *)
(* class containing the resource (the scope walk and the conflict check of *)
(* resource_override::evaluate).                                          *)
AttributesNotClobbered ==
    \A r \in Res, a \in Attrs : \A i \in 2..Len(attrs[r][a]) :
        attrs[r][a][i] \in Overrides /\ InheritingScope(attrs[r][a][i])
====
