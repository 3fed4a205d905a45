------------------------------ MODULE Environment ------------------------------
(***************************************************************************)
(* One compiler::environment shared by concurrent compilations and a REPL *)
(* (environment.cc, scanner.cc, registry.cc).  A compilation imports the  *)
(* initial manifests, then looks definitions up by kind and name; a miss  *)
(* resolves the name to a file, imports it (parse, cache, validate, scan)  *)
(* and looks again.  Every find_* and import_initial_manifests holds the  *)
(* environment mutex for its whole duration; import_source (the REPL's    *)
(* entry) takes no lock.                                                   *)
(*                                                                         *)
(* A definition is a key <<kind, name>>; a file's content is the sequence  *)
(* of keys its scan registers, in order; what can go wrong in parsing or   *)
(* validating a file is a constant per file.  A file may also hold node    *)
(* statements, <<"node", s>>: the scanner registers them in the registry's *)
(* node indices (NodeRegistry, instantiated as NR), and a compilation looks *)
(* its node up in them under the mutex.                                    *)
(***************************************************************************)
EXTENDS Naturals, Sequences, SequencesExt, FiniteSets

CONSTANTS
    Compilations,   \* threads compiling nodes against the environment
    Repls,          \* REPL sessions importing their input with import_source
    Names,          \* normalized definition names
    Files,          \* manifest files of the environment and its modules
    Sources,        \* REPL inputs
    Defs,           \* Defs[f]: the keys file or source f defines, in order
    Fault,          \* Fault[f]: "none", "parse" or "validate"
    Resolve,        \* Resolve[k]: the file resolve_name finds for key k
    Manifests,      \* the initial manifests, in each_file order
    Describe,       \* Describe[k]: the Ruby host's answer for a function or type
    Lookups,        \* the keys the evaluator looks up
    NoFile, Ruby, NoProc,
    Labels, Stmts, Hostnames, Patterns, Valid, Matches, Fqdns  \* see NodeRegistry

FileKinds == {"class", "defined", "alias", "function"}
RemoteKinds == {"function", "type"}
Kinds == FileKinds \cup RemoteKinds
Keys == Kinds \X Names
Procs == Compilations \cup Repls
Origins == Files \cup Sources \cup {Ruby}

NodeDefs == {"node"} \X Stmts

ASSUME Defs \in [Files \cup Sources -> Seq((FileKinds \X Names) \cup NodeDefs)]
ASSUME Fault \in [Files \cup Sources -> {"none", "parse", "validate"}]
ASSUME Resolve \in [FileKinds \X Names -> Files \cup {NoFile}]
\* A failed status or a remote exception ("error"), an empty response
\* ("notfound", also what a registry without a channel returns), or a
\* definition under the name the response gives.
ASSUME Describe \in [RemoteKinds \X Names -> {"notfound", "error"} \cup Names]
ASSUME Manifests \in Seq(Files)
ASSUME Lookups \subseteq Keys

VARIABLES
    lock,       \* _mutex: the process holding it, or NoProc
    reg,        \* the registry: a set of <<key, origin>>
    parsed,     \* _parsed: the files whose tree is cached
    initial,    \* _initial_manifests, as the origins of the trees
    pc,         \* pc[p]: where process p is
    loc,        \* loc[p]: the locals of the call p is in (see Local)
    nodes, named, regexes, default,  \* the registry's node indices
    accepted    \* the node statements scanner::register_node returned for

nodeVars == <<nodes, named, regexes, default, accepted>>

vars == <<lock, reg, parsed, initial, pc, loc, nodeVars>>

NR == INSTANCE NodeRegistry WITH scanned <- {}

(***************************************************************************)
(* The locals of a process: the key it looks up, the file or source it    *)
(* imports and the scanner's position in it, the next initial manifest,   *)
(* whether its scan registered anything, the trees import_initial_manifests *)
(* returned to it, where its import returns to, and the outcome of its    *)
(* last lookup.  They are reset when the process goes idle.                *)
(***************************************************************************)
Local ==
    [want: Keys, cur: Files \cup Sources \cup {NoFile}, pos: Nat, mi: Nat,
     scanned: BOOLEAN, got: SUBSET (Files \cup Sources),
     ret: {"none", "initial", "lookup", "source"},
     res: {"none", "found", "notfound", "error"}]

Fresh ==
    [want |-> CHOOSE k \in Keys : TRUE, cur |-> NoFile, pos |-> 0, mi |-> 0,
     scanned |-> FALSE, got |-> {}, ret |-> "none", res |-> "none"]

TypeOK ==
    /\ lock \in Procs \cup {NoProc}
    /\ reg \subseteq Keys \X Origins
    /\ parsed \subseteq Files
    /\ initial \in Seq(Files \cup Sources)
    /\ pc \in [Procs -> {"idle", "initial", "eval", "source", "parse",
                         "validate", "scan"}]
    /\ loc \in [Procs -> Local]
    /\ NR!TypeOK

Init ==
    /\ lock = NoProc
    /\ reg = {}
    /\ parsed = {}
    /\ initial = <<>>
    /\ pc = [p \in Procs |-> "idle"]
    /\ loc = [p \in Procs |-> Fresh]
    /\ nodes = << >> /\ named = [k \in {} |-> 0] /\ regexes = << >>
    /\ default = 0 /\ accepted = << >>

Registered(k) == \E o \in Origins : <<k, o>> \in reg
RegisteredName(kinds, n) == \E k \in kinds : Registered(<<k, n>>)

(***************************************************************************)
(* Mutations used by the project's mutant runs.                           *)
(***************************************************************************)
MutScanConflicts ==     \* register_defined_type without the class check
    [class |-> {"class", "defined"}, defined |-> {"defined"},
     alias |-> {"alias", "defined"}, function |-> {"function"}]

MutRelease(p) ==        \* an error path that leaves the mutex held
    lock

(* lock_guard's destructor, on return or on a throw. *)
Release(p) == IF lock = p THEN NoProc ELSE lock

(* A parse_exception out of import or import_source, or an                 *)
(* evaluation_exception out of a Describe call: the mutex is released by  *)
(* the lock_guard and the compilation (or the REPL input) fails.           *)
Fail(p) ==
    /\ lock' = Release(p)
    /\ pc' = [pc EXCEPT ![p] = "idle"]
    /\ loc' = [loc EXCEPT ![p] = [Fresh EXCEPT !.res = "error"]]

(***************************************************************************)
(* registry::import_ruby_function and import_ruby_type.  Nothing is asked *)
(* when the kind already has the name.  The host's answer: a failed       *)
(* status (UNAVAILABLE or another code) or a response carrying an         *)
(* exception throws; a response with neither a definition nor an         *)
(* exception is not found; a definition is emplaced under the name the    *)
(* response gives, and the entry of that name returned, an existing one   *)
(* kept as it is.                                                          *)
(***************************************************************************)
Described(k) ==
    LET m == <<k[1], Describe[k]>> IN
    CASE Describe[k] = "error" -> [out |-> "error", reg |-> reg]
      [] Describe[k] = "notfound" -> [out |-> "none", reg |-> reg]
      [] OTHER -> [out |-> "found",
                   reg |-> IF Registered(m) THEN reg ELSE reg \cup {<<m, Ruby>>}]

RubyImport(k) ==
    IF Registered(k) THEN [out |-> "none", reg |-> reg] ELSE Described(k)

(***************************************************************************)
(* scanner::register_class, register_defined_type, register_type_alias    *)
(* and register_function: the kinds of earlier registrations of the same  *)
(* name that make a new definition a conflict (parse_exception).          *)
(***************************************************************************)
ScanConflicts ==
    [class |-> {"class", "defined"}, defined |-> {"defined", "class"},
     alias |-> {"alias", "defined"}, function |-> {"function"}]

HostKey(k) == IF k[1] = "function" THEN k ELSE <<"type", k[2]>>

Conflicting(k) ==
    RegisteredName(ScanConflicts[k[1]], k[2]) \/ Registered(HostKey(k))

(* The scanner's checks for definition k: whether k may be registered,    *)
(* and the registry after the host import they may make.  Anything the    *)
(* host gives, under whichever name, is a conflict (a resource type, or a *)
(* function with or without a file); a failed import throws.              *)
ScanCheck(k) ==
    LET r == RubyImport(HostKey(k)) IN
    IF Conflicting(k) THEN [ok |-> FALSE, reg |-> reg]
    ELSE [ok |-> r.out = "none", reg |-> r.reg]

(***************************************************************************)
(* The end of a find_* whose registry lookup missed, after the import of  *)
(* the file resolve_name gave, if any: the registry is consulted again;   *)
(* find_function then falls back to import_ruby_function, and             *)
(* find_resource_type has nothing but import_ruby_type.  The mutex is     *)
(* released on return and on a throw.                                     *)
(***************************************************************************)
LookupEnd(p, k) ==
    LET r == RubyImport(k)
        answer(found) == /\ loc' = [loc EXCEPT ![p].want = k,
                                    ![p].res = IF found THEN "found" ELSE "notfound"]
                         /\ lock' = Release(p)
                         /\ pc' = [pc EXCEPT ![p] = "eval"]
    IN IF Registered(k) \/ k[1] \notin RemoteKinds
       THEN /\ reg' = reg
            /\ answer(Registered(k))
       ELSE /\ reg' = r.reg
            /\ IF r.out = "error" THEN Fail(p) ELSE answer(r.out = "found")

(* Where an import returns to, with the file or source it imported.       *)
Return(p) ==
    LET l == loc[p] IN
    CASE l.ret = "initial" ->
           \* import_initial_manifests: keep the tree, go on to the next file
           /\ initial' = Append(initial, l.cur)
           /\ loc' = [loc EXCEPT ![p].mi = @ + 1]
           /\ pc' = [pc EXCEPT ![p] = "initial"]
           /\ UNCHANGED <<lock, reg>>
      [] l.ret = "lookup" ->
           \* find_*: look again, then release the mutex
           /\ LookupEnd(p, l.want)
           /\ UNCHANGED initial
      [] l.ret = "source" ->
           \* import_source: keep the tree if it defined something, then
           \* repl::evaluate evaluates its statements
           /\ initial' = IF l.scanned THEN Append(initial, l.cur) ELSE initial
           /\ pc' = [pc EXCEPT ![p] = "eval"]
           /\ UNCHANGED <<lock, reg, loc>>

-----------------------------------------------------------------------------
(***************************************************************************)
(* environment::import_initial_manifests, called by node::compile: under  *)
(* the mutex, return _initial_manifests if it is not empty, otherwise     *)
(* import each initial manifest and append its tree.                       *)
(***************************************************************************)
StartCompile(p) ==
    /\ pc[p] = "idle" /\ p \in Compilations
    /\ lock = NoProc
    /\ IF initial # <<>>
         THEN /\ loc' = [loc EXCEPT ![p] = [Fresh EXCEPT !.got = ToSet(initial)]]
              /\ pc' = [pc EXCEPT ![p] = "eval"]
              /\ UNCHANGED lock
         ELSE /\ lock' = p
              /\ loc' = [loc EXCEPT ![p] = [Fresh EXCEPT !.mi = 1, !.ret = "initial"]]
              /\ pc' = [pc EXCEPT ![p] = "initial"]
    /\ UNCHANGED <<reg, parsed, initial>>

NextManifest(p) ==
    /\ pc[p] = "initial"
    /\ loc[p].mi <= Len(Manifests)
    /\ loc' = [loc EXCEPT ![p].cur = Manifests[loc[p].mi]]
    /\ pc' = [pc EXCEPT ![p] = "parse"]
    /\ UNCHANGED <<lock, reg, parsed, initial>>

InitialDone(p) ==
    /\ pc[p] = "initial"
    /\ loc[p].mi > Len(Manifests)
    /\ loc' = [loc EXCEPT ![p] = [Fresh EXCEPT !.got = ToSet(initial)]]
    /\ lock' = Release(p)
    /\ pc' = [pc EXCEPT ![p] = "eval"]
    /\ UNCHANGED <<reg, parsed, initial>>

(***************************************************************************)
(* environment::find_class, find_defined_type, find_type_alias,          *)
(* find_function and find_resource_type: under the mutex, a registered    *)
(* definition is returned; otherwise resolve_name gives the file that     *)
(* should define the name, which is imported before the registry is       *)
(* consulted again (LookupEnd).  find_resource_type resolves no file.      *)
(***************************************************************************)
ImportsNothing(k) == Registered(k) \/ k[1] = "type" \/ Resolve[k] = NoFile

Lookup(p, k) ==
    /\ pc[p] = "eval"
    /\ lock = NoProc
    /\ IF ImportsNothing(k)
         THEN LookupEnd(p, k)
         ELSE /\ lock' = p
              /\ loc' = [loc EXCEPT ![p].want = k, ![p].cur = Resolve[k],
                                     ![p].ret = "lookup", ![p].res = "none"]
              /\ pc' = [pc EXCEPT ![p] = "parse"]
              /\ UNCHANGED reg
    /\ UNCHANGED <<parsed, initial>>

(* The evaluation of the REPL input ends; or node::compile, after the     *)
(* manifests, calls find_node_definition, which takes the mutex, and then  *)
(* finalizes.  The node's definition is what NR!FindNodeDefinition gives.  *)
EndEval(p) ==
    /\ pc[p] = "eval"
    /\ p \in Compilations => lock = NoProc
    /\ pc' = [pc EXCEPT ![p] = "idle"]
    /\ loc' = [loc EXCEPT ![p] = Fresh]
    /\ UNCHANGED <<lock, reg, parsed, initial>>

(***************************************************************************)
(* environment::import: a cached tree is returned as it is; otherwise the  *)
(* file is parsed, its tree cached, then validated and scanned.  A         *)
(* parse_exception from any of these leaves the cache as it is.            *)
(***************************************************************************)
ImportParse(p) ==
    /\ pc[p] = "parse"
    /\ CASE loc[p].cur \in parsed ->
              /\ Return(p)
              /\ UNCHANGED parsed
         [] Fault[loc[p].cur] = "parse" ->
              /\ Fail(p)
              /\ UNCHANGED <<reg, parsed, initial>>
         [] OTHER ->
              /\ parsed' = parsed \cup {loc[p].cur}
              /\ pc' = [pc EXCEPT ![p] = "validate"]
              /\ UNCHANGED <<lock, reg, initial, loc>>

(* syntax_tree::validate, for import and for import_source.               *)
Validate(p) ==
    /\ pc[p] = "validate"
    /\ IF Fault[loc[p].cur] = "validate"
         THEN Fail(p)
         ELSE /\ pc' = [pc EXCEPT ![p] = "scan"]
              /\ loc' = [loc EXCEPT ![p].pos = 1, ![p].scanned = FALSE]
              /\ UNCHANGED lock
    /\ UNCHANGED <<reg, parsed, initial>>

(* scanner::scan: register the next definition, or throw on a conflict.   *)
ScanDef(p) ==
    /\ pc[p] = "scan"
    /\ loc[p].pos <= Len(Defs[loc[p].cur])
    /\ Defs[loc[p].cur][loc[p].pos] \in Keys
    /\ LET k == Defs[loc[p].cur][loc[p].pos]
           c == ScanCheck(k) IN
       IF ~c.ok
         THEN /\ Fail(p)
              /\ reg' = c.reg
         ELSE /\ reg' = c.reg \cup {<<k, loc[p].cur>>}
              /\ loc' = [loc EXCEPT ![p].pos = @ + 1, ![p].scanned = TRUE]
              /\ UNCHANGED <<lock, pc>>
    /\ UNCHANGED <<parsed, initial>>

(* scanner::register_node: a statement that overlaps a registered node is *)
(* a parse_exception; otherwise registry::register_node, which throws     *)
(* before touching an index when one of its regexes does not compile.      *)
ScanNode(p) ==
    /\ pc[p] = "scan"
    /\ loc[p].pos <= Len(Defs[loc[p].cur])
    /\ Defs[loc[p].cur][loc[p].pos] \in NodeDefs
    /\ LET s == Defs[loc[p].cur][loc[p].pos][2] IN
       IF NR!FindStatement(s) # 0
         THEN /\ Fail(p)
              /\ UNCHANGED <<nodes, named, regexes, default, accepted>>
         ELSE /\ NR!RegisterNode(s)
              /\ IF NR!RegexesCompile(s)
                   THEN /\ accepted' = Append(accepted, s)
                        /\ loc' = [loc EXCEPT ![p].pos = @ + 1, ![p].scanned = TRUE]
                        /\ UNCHANGED <<lock, pc>>
                   ELSE /\ Fail(p)
                        /\ UNCHANGED accepted
    /\ UNCHANGED <<reg, parsed, initial>>

ScanEnd(p) ==
    /\ pc[p] = "scan"
    /\ loc[p].pos > Len(Defs[loc[p].cur])
    /\ Return(p)
    /\ UNCHANGED parsed

(***************************************************************************)
(* repl::evaluate calls environment::import_source with the input: it is  *)
(* parsed (never cached), validated and scanned without the mutex.         *)
(***************************************************************************)
ReplInput(p, s) ==
    /\ pc[p] = "idle" /\ p \in Repls
    /\ loc' = [loc EXCEPT ![p] = [Fresh EXCEPT !.cur = s, !.ret = "source"]]
    /\ pc' = [pc EXCEPT ![p] = "source"]
    /\ UNCHANGED <<lock, reg, parsed, initial>>

MutParseSource(p) ==    \* import_source caching its tree like import
    /\ pc[p] = "source"
    /\ IF Fault[loc[p].cur] = "parse"
         THEN Fail(p) /\ UNCHANGED parsed
         ELSE /\ parsed' = parsed \cup {loc[p].cur}
              /\ pc' = [pc EXCEPT ![p] = "validate"]
              /\ UNCHANGED <<lock, loc>>
    /\ UNCHANGED <<reg, initial>>

ParseSource(p) ==
    /\ pc[p] = "source"
    /\ IF Fault[loc[p].cur] = "parse"
         THEN Fail(p)
         ELSE /\ pc' = [pc EXCEPT ![p] = "validate"]
              /\ UNCHANGED <<lock, loc>>
    /\ UNCHANGED <<reg, parsed, initial>>

Step(p) ==
    \/ /\ \/ StartCompile(p) \/ NextManifest(p) \/ InitialDone(p)
          \/ \E k \in Lookups : Lookup(p, k)
          \/ EndEval(p)
          \/ ImportParse(p) \/ Validate(p) \/ ScanDef(p) \/ ScanEnd(p)
          \/ \E s \in Sources : ReplInput(p, s)
          \/ ParseSource(p)
       /\ UNCHANGED nodeVars
    \/ ScanNode(p)

Next == \E p \in Procs : Step(p)

Spec == Init /\ [][Next]_vars

(* A thread that holds the mutex, or is running at all, keeps running.    *)
FairSpec == Spec /\ \A p \in Procs : WF_vars(Step(p))

-----------------------------------------------------------------------------
(***************************************************************************)
(* Properties.                                                             *)
(***************************************************************************)

Registry == INSTANCE DefinitionRegistry WITH defs <- reg

(* The registry the environment builds, through lazy imports by several    *)
(* compilations and REPL inputs in any order, satisfies the registry's    *)
(* contract: definitions are only added and no two of them clash.  This    *)
(* rests on each scanner::register_* checking the right kinds before       *)
(* registry::register_*, with the check and the insert under one mutex.   *)
RegistryContract == Registry!Spec

(* A lock_guard releases the mutex on every path out of find_* and         *)
(* import_initial_manifests, including a parse_exception thrown by the     *)
(* parser, validate or the scanner.                                        *)
MutexReleased == \A p \in Procs : (lock = p) ~> (lock # p)

(* find_* reports a definition as not defined (a null result, which the   *)
(* evaluator turns into "has not been defined") only when the file its    *)
(* name resolves to does not define it and, for a function or a resource  *)
(* type, the Ruby host does not describe it either.                        *)
NotFoundOnlyIfUndefined ==
    \A p \in Procs :
        LET k == loc[p].want IN
        loc[p].res = "notfound" =>
            /\ k[1] \in RemoteKinds => Describe[k] = "notfound"
            /\ k[1] \in FileKinds =>
                  \/ Resolve[k] = NoFile
                  \/ k \notin ToSet(Defs[Resolve[k]])

(* A compilation evaluates every initial manifest: the trees               *)
(* import_initial_manifests hands to node::compile include every file of   *)
(* the manifest directory.                                                 *)
InitialManifestsComplete ==
    \A p \in Compilations :
        pc[p] = "eval" => ToSet(Manifests) \subseteq loc[p].got

(* Spec 4.3: no two node statements the scanner accepted overlap on a     *)
(* hostname, a regex or the default clause, whichever order compilations  *)
(* and REPL inputs import the files that hold them (NodeRegistry).        *)
NodesDisjoint == NR!NodesDisjoint

(* find_node_definition, through the registry's side indices, returns for *)
(* every node name the statement the direct lookup over the accepted node *)
(* statements gives, also after a scan that failed on a node's regex.     *)
LookupFaithful == NR!LookupFaithful

\* What spec 4.3 makes a definition conflict with on the host: a function
\* with a function, anything else with a resource type.
HostRival(k) == IF k[1] = "function" THEN k ELSE <<"type", k[2]>>

====
