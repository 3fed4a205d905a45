---------------------------- MODULE NodeRegistry ----------------------------
(***************************************************************************)
(* Node definitions in the registry (registry.cc register_node and the    *)
(* two find_node overloads), the scanner's conflict check                 *)
(* (scanner.cc register_node), the node's candidate names (node.cc) and   *)
(* environment::find_node_definition.                                      *)
(*                                                                         *)
(* The registry keeps a vector of node statements and three side indices: *)
(* literal names (lowercased) to an index, a list of (regex, index) in    *)
(* insertion order and an optional default index.  Files are imported     *)
(* lazily and in any order, so node statements are scanned in any order.  *)
(*                                                                         *)
(* A hostname text is a record: its dot-separated labels and whether it   *)
(* is written with a capital letter.  hostname::to_string (AST code, not  *)
(* in this repository) returns the text as written; for a regex it        *)
(* returns the pattern, as register_node compiles the regex from it.      *)
(* A pattern's search is given by the constant Matches.                   *)
(***************************************************************************)
EXTENDS Naturals, Sequences, SequencesExt, FiniteSetsExt, NodeHostnames

CONSTANTS
    Labels,     \* the labels of host names
    Stmts,      \* node statements of the environment's files
    Hostnames,  \* Hostnames[s]: the hostname list of statement s
    Patterns,   \* regex patterns
    Valid,      \* the patterns that compile
    Matches,    \* Matches[p]: the lowercased names regex p searches to a match
    Fqdns       \* the node names compilations are started for

VARIABLES
    nodes,      \* _nodes: the registered statements, in order
    named,      \* _named_nodes: lowercased name -> index
    regexes,    \* _regex_nodes: <<pattern, index>> in insertion order
    default,    \* _default_node_index (0: none)
    scanned,    \* the node statements the scanner has visited
    accepted    \* the statements register_node returned normally for

vars == <<nodes, named, regexes, default, scanned, accepted>>

-----------------------------------------------------------------------------
(* node::node: the candidate names of a node 'a.b.c' are 'a', 'a.b' and    *)
(* 'a.b.c', lowercased, in a std::set.  A prefix sorts before its          *)
(* extensions, so each_name, which walks the set backwards, visits them   *)
(* longest first: candidate k is the prefix of length Len(f) - k + 1.     *)
Candidate(f, k) == Text(SubSeq(f, 1, Len(f) - k + 1), FALSE)

HostList(s) == Hostnames[s]
HostSet(s) == ToSet(HostList(s))

\* registry::find_node(statement): the index of the first registered node
\* that shares the default clause, a regex pattern or a literal name with
\* statement s, comparing the literal as written with the lowercased keys.
RECURSIVE FindFrom(_, _)
FindFrom(hs, i) ==
    IF i > Len(hs) THEN 0
    ELSE LET h == hs[i] IN
         CASE h.kind = "default" ->
                IF default # 0 THEN default ELSE FindFrom(hs, i + 1)
           [] h.kind = "regex" ->
                LET at == SelectInSeq(regexes, LAMBDA r : r[1] = h.pattern)
                IN IF at # 0 THEN regexes[at][2] ELSE FindFrom(hs, i + 1)
           [] OTHER ->
                IF h.text \in DOMAIN named THEN named[h.text]
                ELSE FindFrom(hs, i + 1)

MutFindStatement(s) ==
    LET NoDefault(h) == h.kind # "default"
    IN FindFrom(SelectSeq(HostList(s), NoDefault), 1)

FindStatement(s) == FindFrom(HostList(s), 1)

\* The regex hostnames of s compile: the loop that builds `regexes`
\* before any index is touched throws parse_exception otherwise.
RegexesCompile(s) == \A h \in HostSet(s) : h.kind = "regex" => h.pattern \in Valid

\* The index of the node being added: _nodes.size() - 1 after emplace_back,
\* in 1-based positions the new length.
MutNodeIndex == Len(nodes)

NodeIndex == Len(nodes) + 1

\* The index update for statement s: literal names are added lowercased
\* with unordered_map::emplace (an existing key keeps its index), the
\* default clause sets the default index, the regexes are appended.
AddNode(s) ==
    LET idx == NodeIndex
        keys == {ToLower(h.text) : h \in {x \in HostSet(s) : x.kind = "name"}}
        isRegex(h) == h.kind = "regex"
    IN /\ nodes' = Append(nodes, s)
       /\ named' = [k \in DOMAIN named \cup keys |->
                       IF k \in DOMAIN named THEN named[k] ELSE idx]
       /\ default' = IF Default \in HostSet(s) THEN idx ELSE default
       /\ regexes' = regexes \o
            [i \in 1..Len(SelectSeq(HostList(s), isRegex)) |->
                <<SelectSeq(HostList(s), isRegex)[i].pattern, idx>>]

\* A registration that builds the indices while compiling the regexes, and
\* so leaves the node in them when a later regex fails.
MutRegisterNode(s) == AddNode(s)

\* registry::register_node, after the caller's conflict check: compile
\* every regex first, then add the node to every index.
RegisterNode(s) ==
    IF RegexesCompile(s) THEN AddNode(s)
    ELSE UNCHANGED <<nodes, named, regexes, default>>

-----------------------------------------------------------------------------
(* registry::find_node(node): for each candidate name, most specific      *)
(* first, the literal index, then every regex in insertion order; after   *)
(* all of them the default node.  Returns the index and the resource name.*)
NoMatch == [index |-> 0, name |-> "none"]

RECURSIVE FindNames(_, _)
FindNames(f, k) ==
    IF k > Len(f) THEN
        IF default = 0 THEN NoMatch ELSE [index |-> default, name |-> Default]
    ELSE LET n == Candidate(f, k)
             at == SelectInSeq(regexes, LAMBDA r : n.labels \in Matches[r[1]])
         IN IF n \in DOMAIN named THEN [index |-> named[n], name |-> Literal(n)]
            ELSE IF at # 0
                 THEN [index |-> regexes[at][2], name |-> Regex(regexes[at][1])]
                 ELSE FindNames(f, k + 1)

FindNode(f) == IF nodes = << >> THEN NoMatch ELSE FindNames(f, 1)

\* environment::find_node_definition: with no node definitions nothing is
\* evaluated; with some, a node none of them matches is an error.
FindNodeDefinition(f) ==
    LET r == FindNode(f)
    IN IF nodes # << >> /\ r.index = 0 THEN "error"
       ELSE IF r.index = 0 THEN "none"
       ELSE [stmt |-> nodes[r.index], name |-> r.name]

-----------------------------------------------------------------------------
Init ==
    /\ nodes = << >>
    /\ named = [k \in {} |-> 0]
    /\ regexes = << >>
    /\ default = 0
    /\ scanned = {}
    /\ accepted = << >>

\* scanner::register_node: a statement that overlaps an earlier node is a
\* parse error; otherwise the registry registers it, which may throw on a
\* regex that does not compile.
ScanConflict(s) ==
    /\ s \notin scanned
    /\ FindStatement(s) # 0
    /\ scanned' = scanned \cup {s}
    /\ UNCHANGED <<nodes, named, regexes, default, accepted>>

ScanRegister(s) ==
    /\ s \notin scanned
    /\ FindStatement(s) = 0
    /\ RegisterNode(s)
    /\ scanned' = scanned \cup {s}
    /\ accepted' = IF RegexesCompile(s) THEN Append(accepted, s) ELSE accepted

Next == \E s \in Stmts : ScanConflict(s) \/ ScanRegister(s)

Spec == Init /\ [][Next]_vars

-----------------------------------------------------------------------------
(* The lookup as spec 4.3 states it, over the statements accepted so far, *)
(* with no side index: for the most specific candidate name any accepted  *)
(* node matches, the first node naming it literally, else the first regex *)
(* in insertion order (node order, then hostname order) that searches to  *)
(* a match; with no candidate matched, the default node.                  *)
LitHits(n) ==
    {i \in 1..Len(accepted) :
        \E h \in HostSet(accepted[i]) : h.kind = "name" /\ ToLower(h.text) = n}

RegHits(n) ==
    UNION {{<<i, j>> : j \in {x \in 1..Len(HostList(accepted[i])) :
                              LET h == HostList(accepted[i])[x]
                              IN h.kind = "regex" /\ n.labels \in Matches[h.pattern]}} :
           i \in 1..Len(accepted)}

FirstPair(P) ==
    CHOOSE p \in P : \A q \in P : p[1] < q[1] \/ (p[1] = q[1] /\ p[2] <= q[2])

RefNodeDefinition(f) ==
    LET hits == {k \in 1..Len(f) : LitHits(Candidate(f, k)) # {}
                                    \/ RegHits(Candidate(f, k)) # {}}
        defs == {i \in 1..Len(accepted) : Default \in HostSet(accepted[i])}
    IN IF hits # {} THEN
         LET n == Candidate(f, Min(hits))
         IN IF LitHits(n) # {}
            THEN [stmt |-> accepted[Min(LitHits(n))], name |-> Literal(n)]
            ELSE LET p == FirstPair(RegHits(n))
                 IN [stmt |-> accepted[p[1]],
                     name |-> Regex(HostList(accepted[p[1]])[p[2]].pattern)]
       ELSE IF defs # {} THEN [stmt |-> accepted[Min(defs)], name |-> Default]
       ELSE IF accepted # << >> THEN "error"
       ELSE "none"

\* Two node statements overlap when they share a literal name (compared
\* lowercased, as names are matched), a regex pattern or the default clause.
Overlap(s, t) ==
    \E h \in HostSet(s), g \in HostSet(t) :
        [h EXCEPT !.text = ToLower(h.text)] = [g EXCEPT !.text = ToLower(g.text)]

-----------------------------------------------------------------------------
TypeOK ==
    /\ nodes \in Seq(Stmts)
    /\ \A k \in DOMAIN named : named[k] \in 1..Len(nodes) /\ k.upper = FALSE
    /\ \A i \in 1..Len(regexes) :
          regexes[i][1] \in Patterns /\ regexes[i][2] \in 1..Len(nodes)
    /\ default \in 0..Len(nodes)
    /\ scanned \subseteq Stmts
    /\ accepted \in Seq(Stmts)

(* Spec 4.3: a node block that overlaps an earlier one on any hostname,    *)
(* regex or default clause is a parse error, so no two node statements    *)
(* that scanner::register_node accepted overlap, whatever order the files  *)
(* were imported in.                                                      *)
NodesDisjoint ==
    \A i, j \in 1..Len(accepted) : i < j => ~Overlap(accepted[i], accepted[j])

(* find_node_definition, through the side indices that register_node       *)
(* maintains (literal names lowercased and first-wins, regexes in          *)
(* insertion order, the default index, nothing added for a statement whose *)
(* regex failed to compile), returns for every node the statement and      *)
(* resource name the lookup over the accepted statements gives, and an     *)
(* error exactly when definitions exist and none matches.                 *)
LookupFaithful ==
    \A f \in Fqdns : FindNodeDefinition(f) = RefNodeDefinition(f)
====
