----------------------------- MODULE JoinPaths -----------------------------
(***************************************************************************)
(* retrieval/join_paths.py: the tables that join the retrieved ones to each *)
(* other, found on the graph of foreign keys.                               *)
(*                                                                          *)
(* Tables are numbered in the order of their names.  The search's heap is a  *)
(* set of paths whose least element is popped; whether the schema block      *)
(* still fits the token budget is left open.                                *)
(***************************************************************************)
EXTENDS Naturals, Sequences, FiniteSets, SequencesExt

CONSTANTS
    Tables,      \* 1 .. n
    Bare,        \* the bare name of each table
    Schema,      \* get_table_schema_qualifiers
    Facts,       \* configured_fact_tables
    MaxHops, HubDegree, MaxAdded,   \* retrieval_join_*
    \* The inputs to try: pairs schema.yaml or relationships.yaml joins; keys,
    \* <<t, n>> when t has a key column named after n; the sources of each
    \* table, {} with one source only; the retrieved tables, in order.
    Declared, Keyed, Placed, Retrieved

VARIABLES
    graph, homes, selected,
    pending, component, added,   \* expand_join_paths
    dropped,                     \* history: what did not fit
    done

vars == <<graph, homes, selected, pending, component, added, dropped, done>>

Pairs == {p \in SUBSET Tables : Cardinality(p) = 2}

TypeOK ==
    /\ graph.inferred \subseteq graph.edges /\ graph.edges \subseteq Pairs
    /\ pending \subseteq Tables /\ component \subseteq Tables /\ dropped \subseteq Tables
    /\ added \in Seq(Tables) /\ done \in BOOLEAN

\* ------------------------------------------------------------- the graph
Shared(place, t, u) == place[t] = {} \/ place[t] \cap place[u] # {}

\* _infer_edges: the one table that the key column n of t can mean.
Named(place, t, n) ==
    LET all == {u \in Tables \ {t} : Bare[u] = n /\ Shared(place, t, u)}
        near == {u \in all : Schema[u] = Schema[t]}
    IN CASE Cardinality(all) = 1 -> all
         [] Cardinality(all) > 1 /\ Cardinality(near) = 1 -> near
         [] OTHER -> {}

\* build_join_graph: what is declared is never inferred.
Graph(declared, keys, place, infer) ==
    LET found == IF infer THEN {{k[1], u} : k \in keys, u \in Tables} \cap
                               UNION {{{k[1], u} : u \in Named(place, k[1], k[2])} : k \in keys}
                 ELSE {}
    IN [edges |-> declared \cup found, inferred |-> found \ declared]

Neighbours(t) == {u \in Tables : {t, u} \in graph.edges}
Hub(t) == Cardinality(Neighbours(t)) > HubDegree

\* ------------------------------------------------------------- a best path
Links(path) == [i \in 1 .. Len(path) - 1 |-> {path[i], path[i + 1]}]
Guesses(path) == Cardinality({i \in 1 .. Len(path) - 1 : Links(path)[i] \in graph.inferred})

Cheaper(p, q) == Len(p) < Len(q) \/ (Len(p) = Len(q) /\ Guesses(p) < Guesses(q))
\* Fewest keys, then fewest inferred ones, then the names.
Before(p, q) ==
    \/ Cheaper(p, q)
    \/ /\ ~Cheaper(q, p)
       /\ \E i \in DOMAIN p : p[i] < q[i] /\ \A j \in 1 .. i - 1 : p[j] = q[j]
Least(paths) == CHOOSE p \in paths : \A q \in paths \ {p} : Before(p, q)

\* MUTANT: the search of a source ends when another has a path as cheap.
StopsOnTie(path, best) == best # <<>> /\ ~Cheaper(path, best)
Stops(path, best) == best # <<>> /\ Cheaper(best, path)

\* _best_path, in one source: `settled` maps a table to the path it was taken
\* from the heap with.
Path == Seq(Tables)
Homes == UNION {homes[t] : t \in Tables} \cup {"only"}
Search[heap \in SUBSET Path, settled \in [Tables -> Path], best \in Path,
       targets \in SUBSET Tables, source \in Homes] ==
    IF heap = {} \/ Stops(Least(heap), best) THEN best
    ELSE LET path == Least(heap)
             node == Last(path)
             rest == heap \ {path}
         IN IF node \in targets /\ Len(path) > 1
            THEN Search[rest, settled, IF best = <<>> \/ Before(path, best) THEN path ELSE best,
                        targets, source]
            ELSE IF settled[node] # <<>> /\ Cheaper(settled[node], path)
            THEN Search[rest, settled, best, targets, source]
            ELSE LET onward == IF Len(path) > MaxHops \/ (Len(path) > 1 /\ Hub(node)) THEN {}
                               ELSE {u \in Neighbours(node) \ ToSet(path) :
                                       source = "only" \/ source \in homes[u]}
                 IN Search[rest \cup {Append(path, u) : u \in onward},
                           [settled EXCEPT ![node] = path], best, targets, source]

\* The sources are tried in turn, each with the best path so far.
InSources[sources \in SUBSET Homes, start \in Tables, targets \in SUBSET Tables, best \in Path] ==
    IF sources = {} THEN best
    ELSE LET s == CHOOSE x \in sources : TRUE
         IN InSources[sources \ {s}, start, targets,
                      Search[{<<start>>}, [t \in Tables |-> <<>>], best, targets, s]]

BestPath(start, targets) ==
    InSources[IF homes[start] = {} THEN {"only"} ELSE homes[start], start, targets, <<>>]

\* ------------------------------------------------------------- expansion
\* The path to the component from the closest pending table, and its new tables.
Closest == LET paths == {BestPath(t, component) : t \in pending} \ {<<>>}
           IN IF paths = {} THEN <<>> ELSE Least(paths)
New(path) == SelectSeq(Reverse(SubSeq(path, 2, Len(path) - 1)),
                       LAMBDA t : t \notin ToSet(selected) \cup ToSet(added))

\* One round of the loop.
Join ==
    /\ ~done /\ pending # {}
    /\ LET path == Closest
           new == New(path)
           fits == Len(added) + Len(new) <= MaxAdded
       IN IF path = <<>> THEN done' = TRUE /\ UNCHANGED <<pending, component, added, dropped>>
          ELSE \/ /\ new = <<>> \/ fits
                  /\ added' = added \o new
                  /\ component' = component \cup ToSet(path)
                  /\ pending' = pending \ component'
                  /\ UNCHANGED <<dropped, done>>
               \* Too many, or the schema block would not fit.
               \/ /\ new # <<>>
                  /\ dropped' = dropped \cup {path[1]} /\ pending' = pending \ {path[1]}
                  /\ UNCHANGED <<component, added, done>>
    /\ UNCHANGED <<graph, homes, selected>>

Stop == ~done /\ pending = {} /\ done' = TRUE
        /\ UNCHANGED <<graph, homes, selected, pending, component, added, dropped>>

Known == {t \in ToSet(selected) : \E p \in graph.edges : t \in p}
Start == LET ordered == SelectSeq(selected, LAMBDA t : t \in Known)
             facts == SelectSeq(ordered, LAMBDA t : t \in Facts)
         IN IF facts # <<>> THEN facts[1] ELSE ordered[1]

Init ==
    /\ \E declared \in Declared, keys \in Keyed, infer \in BOOLEAN :
         /\ homes \in Placed
         /\ graph = Graph(declared, keys, homes, infer)
    /\ selected \in Retrieved
    /\ added = <<>> /\ dropped = {}
    /\ IF Cardinality(Known) < 2
       THEN done = TRUE /\ pending = {} /\ component = {}
       ELSE done = FALSE /\ component = {Start} /\ pending = Known \ {Start}

Next == Join \/ Stop

Spec == Init /\ [][Next]_vars

(***************************************************************************)
(* Properties.                                                             *)
(***************************************************************************)
\* The paths the rules allow, from their statement in the module's docstring.
Simple(path) == \A i, j \in DOMAIN path : path[i] = path[j] => i = j
Allowed(path, targets) ==
    /\ Simple(path) /\ Last(path) \in targets
    /\ \A i \in DOMAIN Links(path) : Links(path)[i] \in graph.edges
    /\ \A i \in 2 .. Len(path) - 1 : ~Hub(path[i])
    /\ homes[path[1]] # {} => \E s \in homes[path[1]] : \A i \in DOMAIN path : s \in homes[path[i]]
Paths(start, targets) ==
    {p \in UNION {[1 .. n -> Tables] : n \in 2 .. MaxHops + 1} : p[1] = start /\ Allowed(p, targets)}

\* The best-first search, with its settled tables, its early end and one source
\* after another, finds the least of all allowed paths, and one if there is any.
PathIsShortest ==
    \A t \in pending :
        LET all == Paths(t, component)
        IN BestPath(t, component) = IF all = {} THEN <<>> ELSE Least(all)

\* The additions are few, new, and join every table of the component to the
\* others; a retrieved table is left out only when what it needs does not fit,
\* or nothing reaches it.
Linked(S) ==
    \A A \in SUBSET S : (A # {} /\ A # S) => \E t \in A, u \in S \ A : {t, u} \in graph.edges
AdditionsJoin ==
    /\ Len(added) <= MaxAdded /\ ToSet(added) \cap ToSet(selected) = {}
    /\ Cardinality(ToSet(added)) = Len(added)
    /\ component \subseteq ToSet(selected) \cup ToSet(added) /\ Linked(component)
    /\ done => \A t \in Known \ (component \cup dropped) : Paths(t, component) = {}

\* An inferred key stays inside a data source (_infer_edges).
GuessesStayHome == \A p \in graph.inferred : \E t, u \in p : t # u /\ Shared(homes, t, u)

JoinSound == PathIsShortest /\ AdditionsJoin /\ GuessesStayHome

\* "returns the smallest set of extra tables that joins the retrieved ones
\* together": no smaller set joins the same tables.
SmallestSet ==
    (done /\ dropped = {} /\ Known \subseteq component) =>
        \A S \in SUBSET (Tables \ ToSet(selected)) :
            Linked(Known \cup S) => Cardinality(S) >= Len(added)
=============================================================================
