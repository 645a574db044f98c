------------------------------ MODULE Registry ------------------------------
(***************************************************************************)
(* The registered repositories and their dependencies as PostgreSQL keeps  *)
(* them (internal/db/repositories.go), and the graph that internal/deps    *)
(* builds from them and sorts. A repository is its full_name: Upsert keeps *)
(* the id of the row with that full_name. Rows are never deleted.          *)
(***************************************************************************)
EXTENDS SequencesExt


CONSTANTS Repos,  \* full names, and so ids
          Names,  \* names, unique in the table
          None

ASSUME ReposAssumption == IsFiniteSet(Repos)
ASSUME NoneAssumption == None \notin Repos \cup Names

VARIABLES repo,  \* repositories: name (None: no such row), and whether it exposes a port
          deps   \* service_dependencies: <<repository_id, depends_on_id>>

Repository == [name : Names, port : BOOLEAN]
NoRow == [name |-> None, port |-> FALSE]

\* What List returns: the rows by their id.
Listings == UNION {[S -> Repository] : S \in SUBSET Repos}

RegistryTypeOK ==
  /\ repo \in [Repos -> Repository \cup {NoRow}]
  /\ deps \subseteq Repos \X Repos

Registered == {r \in Repos : repo[r].name # None}

-----------------------------------------------------------------------------
\* GetByName; None is ErrNotFound.
GetByName(n) ==
  IF \E r \in Repos : repo[r].name = n THEN CHOOSE r \in Repos : repo[r].name = n ELSE None

List == [r \in Registered |-> repo[r]]

\* Upsert: ON CONFLICT (full_name); a name that another row has is an error.
Upsert(r, row) ==
  /\ GetByName(row.name) \in {r, None}
  /\ repo' = [repo EXCEPT ![r] = row]

AddDependency(from, to) == deps' = deps \cup {<<from, to>>}

RemoveDependency(from, to) == deps' = deps \ {<<from, to>>}

-----------------------------------------------------------------------------
\* Mutant of Indegrees: a repository counts once, however many it depends on.
Indegrees_Once(nodes, edges) ==
  [m \in nodes \cup {e[1] : e \in edges} |-> IF \E e \in edges : e[1] = m THEN 1 ELSE 0]

\* The counters: one for each node and for each end that an edge starts from.
Indegrees(nodes, edges) ==
  [m \in nodes \cup {e[1] : e \in edges} |-> Cardinality({e \in edges : e[1] = m})]

\* What the loop of TopoSort works on.
NoSort == [edges |-> {}, indeg |-> <<>>, ready |-> <<>>, out |-> <<>>]

Counters == UNION {[S -> 0..Cardinality(Repos)] : S \in SUBSET Repos}
Sorts == [edges : SUBSET (Repos \X Repos), indeg : Counters,
          ready : Seq(Repos), out : Seq(Repos)]

\* TopoSort up to its loop. Ranging over a map gives its keys in any order.
SortStarts(nodes, edges) ==
  LET indeg == Indegrees(nodes, edges)
  IN {[edges |-> edges, indeg |-> indeg, ready |-> order, out |-> <<>>] :
        order \in SetToSeqs({m \in DOMAIN indeg : indeg[m] = 0})}

\* Mutant of SortTurns: nothing is queued after the loop has begun.
SortTurns_FirstOnly(g) ==
  {[g EXCEPT !.ready = Tail(g.ready), !.out = Append(g.out, Head(g.ready))]}

\* One turn of the loop: what it frees is queued in any order.
SortTurns(g) ==
  LET n == Head(g.ready)
      dependents == {m \in DOMAIN g.indeg : <<m, n>> \in g.edges}
      left == [m \in DOMAIN g.indeg |->
                 IF m \in dependents THEN g.indeg[m] - 1 ELSE g.indeg[m]]
  IN {[g EXCEPT !.indeg = left, !.ready = Tail(g.ready) \o order, !.out = Append(g.out, n)] :
        order \in SetToSeqs({m \in dependents : left[m] = 0})}

\* The reference definition: some repository depends on itself in the end.
Cyclic(edges) ==
  \E S \in SUBSET Repos :
     S # {} /\ \A r \in S : \E s \in S : <<r, s>> \in edges
=============================================================================
