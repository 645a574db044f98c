----------------------------- MODULE MCCatalog -----------------------------
(* Model values for Catalog: two features one of whose slugs ends with the *)
(* other's, and names of which two are entry services.                     *)
EXTENDS Catalog, TLC

CONSTANTS r1, r2, r3, e1, e2, c1, c2

Label == [n \in Names |-> n]

Symmetry == Permutations(Clients)

Slugs == (e1 :> <<"x">>) @@ (e2 :> <<"api", "x">>)

Prs == {<<>>, <<"pr7">>}

Row(name, port) == [name |-> name, port |-> port]

Graphs(S) == SUBSET {d \in S \X S : d[1] # d[2]}

Two == (r1 :> Row("web", TRUE)) @@ (r2 :> Row("api", TRUE))
Three == Two @@ (r3 :> Row("db", FALSE))
Entries == Two @@ (r3 :> Row("ui", TRUE))

\* Register a third repository, rename the first.
Asked == {[name |-> "db", port |-> FALSE, repo |-> r3], [name |-> "ui", port |-> TRUE, repo |-> r1]}

OnePlan == [e \in {e1, e2} |-> 1]

\* One environment while the registry changes, from every graph of two or
\* three repositories; and two environments, in a registry that is at rest.
Situations ==
  {[repo |-> Three, deps |-> g, live |-> {e1},
    requests |-> MaxRequests, plans |-> OnePlan] : g \in Graphs({r1, r2, r3})}
  \cup {[repo |-> Two, deps |-> g, live |-> {e1},
    requests |-> MaxRequests, plans |-> OnePlan] : g \in Graphs({r1, r2})}
  \cup {[repo |-> reg, deps |-> {<<r1, r2>>}, live |-> {e1, e2},
    requests |-> 0, plans |-> [OnePlan EXCEPT ![e1] = 2]] : reg \in {Two, Entries}}
=============================================================================
