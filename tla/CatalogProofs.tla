--------------------------- MODULE CatalogProofs ---------------------------
(***************************************************************************)
(* Proofs about Catalog: the sort of the dependency graph, for every graph, *)
(* and the routes, for every number of environments.                       *)
(***************************************************************************)
EXTENDS Catalog, FiniteSetTheorems, SequenceTheorems, WellFoundedInduction, TLAPS

\* The dependencies of m that are not in the order yet.
Waiting(g, m) == {d \in g.edges : d[1] = m /\ d[2] \notin Range(g.out)}

\* What the loop of TopoSort keeps: a counter is the number of dependencies
\* still to come, those at zero are in the order or queued, each once, and a
\* repository comes after everything it depends on.
SortInv(nodes, g) ==
  /\ g \in Sorts
  /\ DOMAIN g.indeg = nodes \cup {d[1] : d \in g.edges}
  /\ \A m \in DOMAIN g.indeg : g.indeg[m] = Cardinality(Waiting(g, m))
  /\ IsInjective(g.out) /\ IsInjective(g.ready)
  /\ Range(g.out) \cap Range(g.ready) = {}
  /\ Range(g.out) \cup Range(g.ready) = {m \in DOMAIN g.indeg : g.indeg[m] = 0}
  /\ \A i \in DOMAIN g.out : \A d \in g.edges :
       d[1] = g.out[i] => \E j \in 1..(i - 1) : g.out[j] = d[2]

\* What a request has looked up has a row, and is not the same twice.
RequestInv(q) ==
  /\ q.from \in Registered \cup {None}
  /\ q.to \in Registered \cup {None}
  /\ q.op = "none" => q.to = None
  /\ q.to # None => q.from # None
  /\ q.op = "add" => q.from # q.to

\* The registry: every request being handled, and every dependency, is between
\* two repositories with a row.
RegistryInv ==
  /\ \A c \in Clients : RequestInv(request[c])
  /\ deps \subseteq Registered \X Registered

ResolverInv ==
  \A e \in Envs :
    /\ DOMAIN resolver[e].nodes \subseteq Registered
    /\ resolver[e].step \in {"edges", "sort"} => plans[e] > 0
    /\ resolver[e].step = "sort" =>
         /\ resolver[e].sort.edges \subseteq Registered \X Registered
         /\ SortInv(DOMAIN resolver[e].nodes, resolver[e].sort)

\* The indices of the services up to n that ask for a hostname.
Wanted(services, n, h) == {i \in DOMAIN services : i <= n /\ services[i].host = h}

Mine(e, h) == domains[h] # None /\ domains[h].env = e

\* The row of a hostname is what the services up to n make of it.
Written(e, n, h) ==
  LET services == pass[e].services IN
  IF Wanted(services, n, h) = {} THEN ~Mine(e, h)
  ELSE /\ Mine(e, h)
       /\ \E i \in Wanted(services, n, h) :
            /\ \A j \in Wanted(services, n, h) : j <= i
            /\ domains[h].repo = services[i].repo

\* A pass that is writing routes has written those of the services it is past.
PassInv(e) ==
  /\ pass[e].step = "delete" => pass[e].at = 0
  /\ pass[e].step = "synced" => Ahead(pass[e].services, pass[e].at) = {}
  /\ ~live[e] => pass[e].step = "none"

RowInv(e, h) ==
  /\ Mine(e, h) => e \in claimed[h]
  /\ pass[e].step \in {"upsert", "synced"} /\ claimed[h] \subseteq {e} => Written(e, pass[e].at, h)
  /\ ~live[e] /\ faults = 0 => ~Mine(e, h)

RouteInv == \A e \in Envs : PassInv(e) /\ \A h \in Hostnames : RowInv(e, h)

CatalogInv ==
  /\ TypeOK
  /\ RegistryInv /\ NoSelfDependency
  /\ ResolverInv /\ RefusedForCycle /\ DependenciesFirst
  /\ RouteInv

-----------------------------------------------------------------------------
\* SetToSeqs: each element once.
LEMMA EachOnce ==
  ASSUME NEW S, IsFiniteSet(S), NEW order \in SetToSeqs(S)
  PROVE  order \in Seq(S) /\ IsInjective(order) /\ Range(order) = S
<1> DEFINE D == 1..Cardinality(S)
<1>1. Cardinality(S) \in Nat
  BY FS_CardinalityType
<1>2. order \in [D -> S] /\ IsInjective(order)
  BY DEF SetToSeqs, IsInjective
<1>3. IsFiniteSet(D) /\ Cardinality(D) = Cardinality(S)
  BY <1>1, FS_Interval
<1>4. order \in Injection(D, S)
  BY <1>2 DEF Injection, IsInjective
<1>5. order \in Surjection(D, S)
  BY <1>3, <1>4, FS_Injection
<1>6. Range(order) = S
  BY <1>2, <1>5 DEF Surjection, Range
<1> QED
  BY <1>1, <1>2, <1>6

\* Appending what a sequence does not hold.
LEMMA OneMore ==
  ASSUME NEW S, NEW q \in Seq(S), IsInjective(q), NEW x \in S, x \notin Range(q)
  PROVE  /\ Append(q, x) \in Seq(S) /\ IsInjective(Append(q, x))
         /\ Range(Append(q, x)) = Range(q) \cup {x}
         /\ DOMAIN Append(q, x) = 1..(Len(q) + 1) /\ DOMAIN q = 1..Len(q)
         /\ Append(q, x)[Len(q) + 1] = x
         /\ \A i \in DOMAIN q : Append(q, x)[i] = q[i]
<1>1. /\ Append(q, x) \in Seq(S) /\ Len(q) \in Nat
      /\ DOMAIN Append(q, x) = 1..(Len(q) + 1) /\ DOMAIN q = 1..Len(q)
      /\ Append(q, x)[Len(q) + 1] = x
      /\ \A i \in 1..Len(q) : Append(q, x)[i] = q[i]
  BY AppendProperties, LenProperties
<1>2. Range(Append(q, x)) = Range(q) \cup {x}
  BY <1>1 DEF Range
<1>3. IsInjective(Append(q, x))
  BY <1>1 DEF IsInjective, Range
<1> QED
  BY <1>1, <1>2, <1>3

\* Taking the head off.
LEMMA OneLess ==
  ASSUME NEW S, NEW q \in Seq(S), q # <<>>, IsInjective(q)
  PROVE  /\ Head(q) \in Range(q) /\ Range(q) \subseteq S
         /\ Tail(q) \in Seq(S) /\ IsInjective(Tail(q))
         /\ Range(Tail(q)) = Range(q) \ {Head(q)}
<1>1. /\ Len(q) \in Nat \ {0} /\ DOMAIN q = 1..Len(q)
      /\ Head(q) = q[1]
      /\ Tail(q) \in Seq(S) /\ Len(Tail(q)) = Len(q) - 1 /\ DOMAIN Tail(q) = 1..(Len(q) - 1)
      /\ \A i \in 1..(Len(q) - 1) : Tail(q)[i] = q[i + 1]
  BY HeadTailProperties, LenProperties, EmptySeq
<1>2. Head(q) \in Range(q) /\ Range(q) \subseteq S
  BY <1>1, ElementOfSeq DEF Range
<1>3. IsInjective(Tail(q))
  BY <1>1 DEF IsInjective
<1>4. ASSUME NEW y \in Range(q) \ {Head(q)} PROVE y \in Range(Tail(q))
  <2>1. PICK i \in 1..Len(q) : q[i] = y
    BY <1>1 DEF Range
  <2>2. i - 1 \in 1..(Len(q) - 1) /\ Tail(q)[i - 1] = y
    BY <1>1, <2>1
  <2> QED
    BY <1>1, <2>2 DEF Range
<1>5. ASSUME NEW y \in Range(Tail(q)) PROVE y \in Range(q) \ {Head(q)}
  <2>1. PICK i \in 1..(Len(q) - 1) : Tail(q)[i] = y
    BY <1>1 DEF Range
  <2>2. i + 1 \in 1..Len(q) /\ q[i + 1] = y /\ i + 1 # 1
    BY <1>1, <2>1
  <2> QED
    BY <1>1, <2>2 DEF Range, IsInjective
<1> QED
  BY <1>1, <1>2, <1>3, <1>4, <1>5

\* Two queues without an element in common, one behind the other.
LEMMA Queued ==
  ASSUME NEW S, NEW p \in Seq(S), NEW q \in Seq(S),
         IsInjective(p), IsInjective(q), Range(p) \cap Range(q) = {}
  PROVE  p \o q \in Seq(S) /\ IsInjective(p \o q) /\ Range(p \o q) = Range(p) \cup Range(q)
<1>1. /\ p \o q \in Seq(S) /\ Len(p) \in Nat /\ Len(q) \in Nat
      /\ DOMAIN p = 1..Len(p) /\ DOMAIN q = 1..Len(q)
      /\ DOMAIN (p \o q) = 1..(Len(p) + Len(q))
      /\ \A i \in 1..(Len(p) + Len(q)) :
           (p \o q)[i] = IF i <= Len(p) THEN p[i] ELSE q[i - Len(p)]
  BY ConcatProperties, LenProperties
<1>2. Range(p \o q) = Range(p) \cup Range(q)
  BY RangeConcatenation
<1>3. ASSUME NEW i \in DOMAIN (p \o q), NEW j \in DOMAIN (p \o q), (p \o q)[i] = (p \o q)[j]
      PROVE  i = j
  <2>1. CASE i <= Len(p) /\ j <= Len(p)
    BY <1>1, <1>3, <2>1 DEF IsInjective
  <2>2. CASE i > Len(p) /\ j > Len(p)
    <3>1. i - Len(p) \in DOMAIN q /\ j - Len(p) \in DOMAIN q /\ q[i - Len(p)] = q[j - Len(p)]
      BY <1>1, <1>3, <2>2
    <3>2. i - Len(p) = j - Len(p)
      BY <3>1 DEF IsInjective
    <3> QED
      BY <1>1, <3>2
  <2>3. CASE ~(i <= Len(p) <=> j <= Len(p))
    <3>1. \E m \in DOMAIN p, n \in DOMAIN q : p[m] = q[n]
      BY <1>1, <1>3, <2>3
    <3> QED
      BY <3>1 DEF Range
  <2> QED
    BY <1>1, <2>1, <2>2, <2>3
<1> QED
  BY <1>1, <1>2, <1>3 DEF IsInjective

\* A sequence that repeats nothing holds all of a set when it is as long.
LEMMA HoldsAll ==
  ASSUME NEW S, IsFiniteSet(S), NEW q \in Seq(S), IsInjective(q)
  PROVE  Len(q) = Cardinality(S) <=> Range(q) = S
<1>1. Len(q) \in Nat /\ DOMAIN q = 1..Len(q) /\ q \in [1..Len(q) -> S]
  BY LenProperties
<1>2. IsFiniteSet(1..Len(q)) /\ Cardinality(1..Len(q)) = Len(q)
  BY <1>1, FS_Interval
<1>3. q \in Injection(1..Len(q), S)
  BY <1>1 DEF Injection
<1>4. ASSUME Len(q) = Cardinality(S) PROVE Range(q) = S
  <2>1. q \in Surjection(1..Len(q), S)
    BY <1>2, <1>3, <1>4, FS_Injection
  <2> QED
    BY <1>1, <2>1 DEF Surjection, Range
<1>5. ASSUME Range(q) = S PROVE Len(q) = Cardinality(S)
  <2>1. q \in Surjection(1..Len(q), S)
    BY <1>1, <1>5 DEF Surjection, Range
  <2>2. q \in Bijection(1..Len(q), S)
    BY <1>3, <2>1 DEF Bijection
  <2> QED
    BY <1>2, <2>2, FS_Bijection DEF ExistsBijection
<1> QED
  BY <1>4, <1>5

-----------------------------------------------------------------------------
\* The edges of a graph are finitely many, those that start at one repository
\* no more than there are repositories.
LEMMA EdgesFinite ==
  ASSUME NEW edges \in SUBSET (Repos \X Repos), NEW m
  PROVE  /\ IsFiniteSet(edges)
         /\ Cardinality({d \in edges : d[1] = m}) \in 0..Cardinality(Repos)
<1>1. IsFiniteSet(edges)
  BY ReposAssumption, FS_Product, FS_Subset
<1>2. IsFiniteSet({m} \X Repos) /\ Cardinality({m} \X Repos) = 1 * Cardinality(Repos)
  <2>1. IsFiniteSet({m}) /\ Cardinality({m}) = 1
    BY FS_Singleton
  <2> QED
    BY <2>1, ReposAssumption, FS_Product
<1>3. {d \in edges : d[1] = m} \subseteq {m} \X Repos
  OBVIOUS
<1>4. Cardinality({d \in edges : d[1] = m}) <= 1 * Cardinality(Repos)
  BY <1>2, <1>3, FS_Subset
<1>5. Cardinality({d \in edges : d[1] = m}) \in Nat /\ Cardinality(Repos) \in Nat
  BY <1>2, <1>3, FS_Subset, FS_CardinalityType, ReposAssumption
<1> QED
  BY <1>1, <1>4, <1>5

\* TopoSort enters its loop with the invariant.
LEMMA SortBegins ==
  ASSUME NEW nodes \in SUBSET Repos, NEW edges \in SUBSET (Repos \X Repos),
         NEW g \in SortStarts(nodes, edges)
  PROVE  SortInv(nodes, g) /\ g.edges = edges
<1> DEFINE indeg == Indegrees(nodes, edges)
           zeros == {m \in DOMAIN indeg : indeg[m] = 0}
<1>1. PICK order \in SetToSeqs(zeros) :
        g = [edges |-> edges, indeg |-> indeg, ready |-> order, out |-> <<>>]
  BY DEF SortStarts
<1>2. g.edges = edges /\ g.indeg = indeg /\ g.ready = order /\ g.out = <<>>
  BY <1>1
<1>3. /\ DOMAIN indeg = nodes \cup {d[1] : d \in edges}
      /\ \A m \in DOMAIN indeg : indeg[m] = Cardinality({d \in edges : d[1] = m})
  BY DEF Indegrees
<1>4. indeg \in [DOMAIN indeg -> 0..Cardinality(Repos)] /\ DOMAIN indeg \subseteq Repos
  <2>1. ASSUME NEW m \in DOMAIN indeg PROVE indeg[m] \in 0..Cardinality(Repos)
    <3>1. Cardinality({d \in edges : d[1] = m}) \in 0..Cardinality(Repos)
      BY EdgesFinite
    <3>2. indeg[m] = Cardinality({d \in edges : d[1] = m})
      BY <1>3
    <3> QED
      BY <3>1, <3>2
  <2> QED
    BY <1>3, <2>1 DEF Indegrees
<1>5. IsFiniteSet(zeros)
  BY <1>4, ReposAssumption, FS_Subset
<1>6. order \in Seq(zeros) /\ IsInjective(order) /\ Range(order) = zeros
  BY <1>5, EachOnce
<1>7. order \in Seq(Repos)
  BY <1>4, <1>6, SeqMonotonic
<1>8. Range(g.out) = {} /\ DOMAIN g.out = {} /\ g.out \in Seq(Repos) /\ IsInjective(g.out)
  BY <1>2, EmptySeq DEF Range, IsInjective
<1>9. g \in Sorts
  BY <1>1, <1>2, <1>4, <1>7, <1>8 DEF Sorts, Counters
<1>10. \A m \in DOMAIN g.indeg : Waiting(g, m) = {d \in edges : d[1] = m}
  BY <1>2, <1>8 DEF Waiting
<1> HIDE DEF indeg
<1> QED
  BY <1>2, <1>3, <1>6, <1>8, <1>9, <1>10 DEF SortInv

\* A turn of the loop keeps it.
LEMMA SortGoesOn ==
  ASSUME NEW nodes \in SUBSET Repos, NEW g, SortInv(nodes, g), g.ready # <<>>,
         NEW h \in SortTurns(g)
  PROVE  SortInv(nodes, h) /\ h.edges = g.edges
<1> DEFINE n == Head(g.ready)
           dependents == {m \in DOMAIN g.indeg : <<m, n>> \in g.edges}
           left == [m \in DOMAIN g.indeg |->
                      IF m \in dependents THEN g.indeg[m] - 1 ELSE g.indeg[m]]
           freed == {m \in dependents : left[m] = 0}
<1>1. PICK order \in SetToSeqs(freed) :
        h = [g EXCEPT !.indeg = left, !.ready = Tail(g.ready) \o order, !.out = Append(g.out, n)]
  BY DEF SortTurns
<1>2. /\ g \in Sorts /\ g.edges \subseteq Repos \X Repos
      /\ g.ready \in Seq(Repos) /\ g.out \in Seq(Repos)
      /\ DOMAIN g.indeg \subseteq Repos
      /\ \A m \in DOMAIN g.indeg : g.indeg[m] \in 0..Cardinality(Repos)
  BY DEF SortInv, Sorts, Counters
<1>3. /\ h.edges = g.edges /\ h.indeg = left
      /\ h.ready = Tail(g.ready) \o order /\ h.out = Append(g.out, n)
  BY <1>1, <1>2 DEF Sorts
<1>4. /\ n \in Range(g.ready) /\ n \in Repos /\ n \notin Range(g.out)
      /\ Tail(g.ready) \in Seq(Repos) /\ IsInjective(Tail(g.ready))
      /\ Range(Tail(g.ready)) = Range(g.ready) \ {n}
  BY <1>2, OneLess DEF SortInv
<1>5. n \in DOMAIN g.indeg /\ g.indeg[n] = 0
  BY <1>4 DEF SortInv
<1>6. ASSUME NEW m \in DOMAIN g.indeg
      PROVE  /\ Waiting(h, m) = Waiting(g, m) \ {<<m, n>>}
             /\ IsFiniteSet(Waiting(g, m))
             /\ <<m, n>> \in Waiting(g, m) <=> m \in dependents
  <2>1. Range(h.out) = Range(g.out) \cup {n}
    BY <1>2, <1>3, <1>4, OneMore DEF SortInv
  <2>2. IsFiniteSet(g.edges) /\ Waiting(g, m) \subseteq g.edges
    BY <1>2, EdgesFinite DEF Waiting
  <2>3. IsFiniteSet(Waiting(g, m))
    BY <2>2, FS_Subset
  <2>4. \A d \in g.edges : d[1] = m /\ d[2] = n <=> d = <<m, n>>
    BY <1>2
  <2> QED
    BY <1>2, <1>3, <1>4, <2>1, <2>3, <2>4 DEF Waiting
<1>7. ASSUME NEW m \in DOMAIN g.indeg
      PROVE  left[m] = Cardinality(Waiting(h, m)) /\ left[m] \in 0..Cardinality(Repos)
  <2>1. g.indeg[m] = Cardinality(Waiting(g, m))
    BY DEF SortInv
  <2>2. left[m] = IF m \in dependents THEN g.indeg[m] - 1 ELSE g.indeg[m]
    OBVIOUS
  <2> HIDE DEF dependents, left, n
  <2>3. /\ IsFiniteSet(Waiting(h, m))
        /\ Cardinality(Waiting(h, m)) =
              IF <<m, n>> \in Waiting(g, m) THEN Cardinality(Waiting(g, m)) - 1
                                           ELSE Cardinality(Waiting(g, m))
    BY <1>6, FS_RemoveElement
  <2>4. Cardinality(Waiting(h, m)) \in Nat
    BY <2>3, FS_CardinalityType
  <2>5. left[m] = Cardinality(Waiting(h, m))
    BY <1>6, <2>1, <2>2, <2>3
  <2>6. left[m] <= g.indeg[m]
    BY <1>2, <2>2
  <2>7. Cardinality(Repos) \in Nat /\ g.indeg[m] <= Cardinality(Repos) /\ g.indeg[m] \in Nat
    BY <1>2, ReposAssumption, FS_CardinalityType
  <2> QED
    BY <2>4, <2>5, <2>6, <2>7
<1>8. {m \in DOMAIN left : left[m] = 0} = {m \in DOMAIN g.indeg : g.indeg[m] = 0} \cup freed
  <2>1. ASSUME NEW m \in dependents PROVE g.indeg[m] # 0
    <3>1. m \in DOMAIN g.indeg /\ left[m] = g.indeg[m] - 1
      OBVIOUS
    <3> HIDE DEF left, dependents
    <3> QED
      BY <1>2, <1>7, <3>1
  <2> QED
    BY <2>1
<1>9. freed \cap {m \in DOMAIN g.indeg : g.indeg[m] = 0} = {}
  <2>1. ASSUME NEW m \in freed PROVE g.indeg[m] = 1
    BY <1>2, <2>1
  <2> QED
    BY <2>1
<1>10. freed \subseteq Repos /\ IsFiniteSet(freed)
  BY <1>2, ReposAssumption, FS_Subset
<1>11. order \in Seq(Repos) /\ IsInjective(order) /\ Range(order) = freed
  <2> HIDE DEF freed
  <2>1. order \in Seq(freed) /\ IsInjective(order) /\ Range(order) = freed
    BY <1>10, EachOnce
  <2> QED
    BY <1>10, <2>1, SeqMonotonic
<1>12. Range(g.ready) \subseteq {m \in DOMAIN g.indeg : g.indeg[m] = 0}
  BY DEF SortInv
<1>13. /\ h.ready \in Seq(Repos) /\ IsInjective(h.ready)
       /\ Range(h.ready) = (Range(g.ready) \ {n}) \cup freed
  <2>1. Range(Tail(g.ready)) \cap Range(order) = {}
    BY <1>4, <1>9, <1>11, <1>12
  <2> DEFINE behind == Tail(g.ready)
  <2>2. behind \in Seq(Repos) /\ IsInjective(behind) /\ Range(behind) = Range(g.ready) \ {n}
    BY <1>4
  <2>3. h.ready = behind \o order /\ Range(behind) \cap Range(order) = {}
    BY <1>3, <2>1
  <2> HIDE DEF freed, n, behind
  <2>4. /\ behind \o order \in Seq(Repos) /\ IsInjective(behind \o order)
        /\ Range(behind \o order) = Range(behind) \cup Range(order)
    BY <1>11, <2>2, <2>3, Queued
  <2> QED
    BY <1>11, <2>2, <2>3, <2>4
<1>14. /\ h.out \in Seq(Repos) /\ IsInjective(h.out)
       /\ Range(h.out) = Range(g.out) \cup {n}
       /\ DOMAIN h.out = 1..(Len(g.out) + 1) /\ DOMAIN g.out = 1..Len(g.out)
       /\ Len(g.out) \in Nat
       /\ h.out[Len(g.out) + 1] = n
       /\ \A i \in DOMAIN g.out : h.out[i] = g.out[i]
  BY <1>2, <1>3, <1>4, OneMore, LenProperties DEF SortInv
<1> HIDE DEF n, left, freed, dependents
<1>15. left \in [DOMAIN g.indeg -> 0..Cardinality(Repos)]
  BY <1>7 DEF left
<1>16. h \in Sorts
  <2>1. left \in Counters
    BY <1>2, <1>15 DEF Counters
  <2> QED
    BY <1>1, <1>2, <1>3, <1>13, <1>14, <2>1 DEF Sorts
<1>17. DOMAIN h.indeg = nodes \cup {d[1] : d \in h.edges}
  BY <1>3, <1>15 DEF SortInv
<1>18. \A m \in DOMAIN h.indeg : h.indeg[m] = Cardinality(Waiting(h, m))
  BY <1>3, <1>7, <1>15
<1>19. Range(h.out) \cup Range(h.ready) = {m \in DOMAIN h.indeg : h.indeg[m] = 0}
  BY <1>3, <1>4, <1>8, <1>13, <1>14 DEF SortInv
<1>20. Range(h.out) \cap Range(h.ready) = {}
  <2>1. Range(g.out) \subseteq {m \in DOMAIN g.indeg : g.indeg[m] = 0} /\ n \notin freed
    BY <1>5, <1>9 DEF SortInv
  <2> QED
    BY <1>9, <1>13, <1>14, <2>1 DEF SortInv
<1>21. ASSUME NEW i \in DOMAIN h.out, NEW d \in h.edges, d[1] = h.out[i]
       PROVE  \E j \in 1..(i - 1) : h.out[j] = d[2]
  <2>1. CASE i \in DOMAIN g.out
    <3>1. PICK j \in 1..(i - 1) : g.out[j] = d[2]
      BY <1>3, <1>14, <1>21, <2>1 DEF SortInv
    <3>2. j \in DOMAIN g.out
      BY <1>14, <2>1
    <3> QED
      BY <1>14, <3>1, <3>2
  <2>2. CASE i = Len(g.out) + 1
    <3>1. Waiting(g, n) = {}
      <4>1. Cardinality(Waiting(g, n)) = 0
        BY <1>5 DEF SortInv
      <4> QED
        BY <1>5, <1>6, <4>1, FS_EmptySet
    <3>2. d[2] \in Range(g.out)
      BY <1>3, <1>14, <1>21, <2>2, <3>1 DEF Waiting
    <3>3. PICK j \in DOMAIN g.out : g.out[j] = d[2]
      BY <3>2 DEF Range
    <3> QED
      BY <1>14, <2>2, <3>3
  <2> QED
    BY <1>14, <2>1, <2>2
<1> QED
  BY <1>3, <1>13, <1>14, <1>16, <1>17, <1>18, <1>19, <1>20, <1>21 DEF SortInv

\* At the end of the loop the order holds what has no dependency left; it is
\* as long as the list when that is all of it.
LEMMA SortEnds ==
  ASSUME NEW nodes \in SUBSET Repos, NEW g, SortInv(nodes, g), g.ready = <<>>,
         g.edges \subseteq nodes \X nodes
  PROVE  /\ DOMAIN g.indeg = nodes
         /\ Range(g.out) = {m \in nodes : g.indeg[m] = 0}
         /\ Len(g.out) = Cardinality(nodes) <=> Range(g.out) = nodes
<1>1. DOMAIN g.indeg = nodes
  BY DEF SortInv
<1>2. Range(g.ready) = {}
  BY DEF Range
<1>3. Range(g.out) = {m \in nodes : g.indeg[m] = 0}
  BY <1>1, <1>2 DEF SortInv
<1>4. g.out \in Seq(nodes)
  <2>1. /\ g.out \in Seq(Repos) /\ Len(g.out) \in Nat /\ DOMAIN g.out = 1..Len(g.out)
        /\ g.out \in [1..Len(g.out) -> Repos]
    BY LenProperties DEF SortInv, Sorts
  <2>2. \A i \in 1..Len(g.out) : g.out[i] \in nodes
    BY <1>3, <2>1 DEF Range
  <2>3. g.out \in [1..Len(g.out) -> nodes]
    BY <2>1, <2>2
  <2> QED
    BY <2>1, <2>3, SeqDef
<1>5. IsFiniteSet(nodes)
  BY ReposAssumption, FS_Subset
<1>6. Len(g.out) = Cardinality(nodes) <=> Range(g.out) = nodes
  BY <1>4, <1>5, HoldsAll DEF SortInv
<1> QED
  BY <1>1, <1>3, <1>6

\* The loop ends without all repositories only for a cycle, unless an edge
\* leaves the list: those left wait for one another.
LEMMA RefusedIsCyclic ==
  ASSUME NEW nodes \in SUBSET Repos, NEW g, SortInv(nodes, g), g.ready = <<>>,
         g.edges \subseteq nodes \X nodes, Len(g.out) # Cardinality(nodes)
  PROVE  Cyclic(g.edges)
<1> DEFINE S == nodes \ Range(g.out)
<1>1. /\ DOMAIN g.indeg = nodes
      /\ Range(g.out) = {m \in nodes : g.indeg[m] = 0} /\ Range(g.out) # nodes
  BY SortEnds
<1>2. S # {}
  BY <1>1
<1>3. ASSUME NEW r \in S PROVE \E s \in S : <<r, s>> \in g.edges
  <2>1. g.indeg[r] = Cardinality(Waiting(g, r)) /\ g.indeg[r] # 0
    BY <1>1 DEF SortInv
  <2>2. Waiting(g, r) # {}
    BY <2>1, FS_EmptySet
  <2>3. PICK d \in g.edges : d[1] = r /\ d[2] \notin Range(g.out)
    BY <2>2 DEF Waiting
  <2> QED
    BY <2>3
<1> QED
  BY <1>2, <1>3 DEF Cyclic

\* And with a cycle it never ends with all of them: of the repositories of a
\* cycle one would be the first in the order, with its dependency before it.
LEMMA SortedIsAcyclic ==
  ASSUME NEW nodes \in SUBSET Repos, NEW g, SortInv(nodes, g), g.ready = <<>>,
         g.edges \subseteq nodes \X nodes, Len(g.out) = Cardinality(nodes)
  PROVE  ~Cyclic(g.edges)
<1> SUFFICES ASSUME NEW S \in SUBSET Repos, S # {},
                    \A r \in S : \E s \in S : <<r, s>> \in g.edges
             PROVE  FALSE
  BY DEF Cyclic
<1> DEFINE T == {i \in DOMAIN g.out : g.out[i] \in S}
<1>1. Range(g.out) = nodes
  BY SortEnds
<1>2. DOMAIN g.out \subseteq Nat
  BY LenProperties DEF SortInv, Sorts
<1>3. T # {}
  <2>1. PICK r \in S : r \in nodes
    OBVIOUS
  <2> QED
    BY <1>1, <2>1 DEF Range
<1>4. PICK i \in T : \A j \in T : ~(j < i)
  <2>1. PICK i \in T : \A j \in T : ~(<<j, i>> \in OpToRel(<, Nat))
    BY <1>2, <1>3, NatLessThanWellFounded, WFMin, Zenon
  <2> QED
    BY <1>2, <2>1 DEF OpToRel
<1>5. PICK s \in S : <<g.out[i], s>> \in g.edges
  OBVIOUS
<1>6. PICK j \in 1..(i - 1) : g.out[j] = s
  <2> DEFINE d == <<g.out[i], s>>
  <2>1. d \in g.edges /\ d[1] = g.out[i] /\ d[2] = s
    BY <1>5
  <2> HIDE DEF d
  <2> QED
    BY <2>1 DEF SortInv
<1>7. j \in T /\ j < i
  <2>1. Len(g.out) \in Nat /\ DOMAIN g.out = 1..Len(g.out)
    BY LenProperties DEF SortInv, Sorts
  <2> QED
    BY <1>6, <2>1
<1> QED
  BY <1>4, <1>7

-----------------------------------------------------------------------------
\* An environment whose pass a step leaves alone.
LEMMA PassStays ==
  ASSUME RouteInv, NEW f \in Envs, pass'[f] = pass[f], live'[f] = live[f]
  PROVE  PassInv(f)'
<1>1. PassInv(f)
  BY DEF RouteInv
<1> QED
  BY <1>1 DEF PassInv

\* The same, of a row that the step leaves as it is or does not take from it.
LEMMA RowStays ==
  ASSUME RouteInv, NEW f \in Envs, NEW h \in Hostnames,
         pass'[f] = pass[f], live'[f] = live[f], faults' = 0 => faults = 0,
         claimed[h] \subseteq claimed'[h],
         Mine(f, h)' <=> Mine(f, h), Mine(f, h) => domains'[h] = domains[h]
  PROVE  RowInv(f, h)'
<1>1. RowInv(f, h)
  BY DEF RouteInv
<1>2. Written(f, pass[f].at, h) => Written(f, pass[f].at, h)'
  BY DEF Written
<1> QED
  BY <1>1, <1>2 DEF RowInv, Written

\* A step that changes nothing of it keeps the invariant of the routes.
LEMMA RoutesUntouched ==
  ASSUME RouteInv, live' = live, pass' = pass, domains' = domains, claimed' = claimed,
         faults' = faults
  PROVE  RouteInv'
<1>1. ASSUME NEW f \in Envs PROVE PassInv(f)'
  BY PassStays
<1>2. ASSUME NEW f \in Envs, NEW h \in Hostnames PROVE RowInv(f, h)'
  <2>1. Mine(f, h)' <=> Mine(f, h)
    BY DEF Mine
  <2> QED
    BY <2>1, RowStays
<1> QED
  BY <1>1, <1>2 DEF RouteInv

-----------------------------------------------------------------------------
RequestTypeOK ==
  /\ request \in [Clients -> Dependencies \cup {NoRequest}]
  /\ requests \in 0..MaxRequests

\* A look-up by name gives a repository with a row, or nothing.
LEMMA LookUp ==
  ASSUME RegistryTypeOK, NEW n \in Names
  PROVE  GetByName(n) \in Registered \cup {None} /\ Registered \subseteq Repos
<1>1. CASE \E r \in Repos : repo[r].name = n
  <2>1. GetByName(n) \in Repos /\ repo[GetByName(n)].name = n
    BY <1>1 DEF GetByName
  <2> QED
    BY <2>1, NoneAssumption DEF Registered
<1>2. CASE ~\E r \in Repos : repo[r].name = n
  BY <1>2 DEF GetByName, Registered
<1> QED
  BY <1>1, <1>2 DEF Registered

\* What the API changes leaves plans and routes alone, and registered
\* repositories stay.
LEMMA ApiKeeps ==
  ASSUME CatalogInv, ApiStep, RegistryTypeOK', RequestTypeOK',
         RegistryInv', NoSelfDependency', Registered \subseteq Registered'
  PROVE  CatalogInv'
<1>1. /\ resolver' = resolver /\ plan' = plan /\ plans' = plans /\ live' = live
      /\ pass' = pass /\ domains' = domains /\ claimed' = claimed /\ faults' = faults
  BY DEF ApiStep, planVars, routeVars, NoFault
<1>2. TypeOK'
  BY <1>1 DEF CatalogInv, TypeOK, RequestTypeOK, FaultsTypeOK
<1>3. ResolverInv'
  BY <1>1 DEF CatalogInv, ResolverInv
<1>4. RefusedForCycle'
  BY <1>1, <1>2 DEF CatalogInv, RefusedForCycle, ResolverInv, Cyclic
<1>5. DependenciesFirst' /\ RouteInv'
  BY <1>1, RoutesUntouched DEF CatalogInv, DependenciesFirst
<1> QED
  BY <1>2, <1>3, <1>4, <1>5 DEF CatalogInv

\* A repository once registered stays, under whatever name.
LEMMA UpsertRepoKeeps ==
  ASSUME CatalogInv, NEW row \in Rows, upsertRepo(row.repo, [name |-> row.name, port |-> row.port])
  PROVE  CatalogInv'
<1>1. row.repo \in Repos /\ [name |-> row.name, port |-> row.port] \in Repository /\ row.name # None
  BY RowsAssumption, NoneAssumption DEF Repository
<1>2. /\ repo' = [repo EXCEPT ![row.repo] = [name |-> row.name, port |-> row.port]]
      /\ deps' = deps /\ request' = request /\ requests' = requests - 1 /\ requests > 0
      /\ ApiStep
  BY DEF upsertRepo, Upsert, NewRequest
<1>3. RegistryTypeOK'
  BY <1>1, <1>2 DEF CatalogInv, TypeOK, RegistryTypeOK
<1>4. RequestTypeOK'
  BY <1>2, CatalogBounds DEF CatalogInv, TypeOK, RequestTypeOK
<1>5. Registered \subseteq Registered'
  BY <1>1, <1>2 DEF CatalogInv, TypeOK, RegistryTypeOK, Registered
<1>6. RegistryInv' /\ NoSelfDependency'
  BY <1>2, <1>5 DEF CatalogInv, RegistryInv, RequestInv, NoSelfDependency
<1> QED
  BY <1>2, <1>3, <1>4, <1>5, <1>6, ApiKeeps

\* A step of one request keeps the registry, if what it makes of the request
\* is right.
LEMMA OneHandled ==
  ASSUME CatalogInv, NEW c \in Clients, NEW q, Handled(c, q), ApiStep,
         q \in Dependencies \cup {NoRequest}, RequestInv(q),
         repo' = repo, requests' \in 0..MaxRequests,
         deps' \subseteq Registered \X Registered,
         \A d \in deps' : d[1] # d[2]
  PROVE  CatalogInv'
<1>1. Registered' = Registered /\ Registered \subseteq Repos
  BY DEF Registered
<1>2. \A b \in Clients : request'[b] = IF b = c THEN q ELSE request[b]
  BY DEF CatalogInv, TypeOK, Handled
<1>3. RegistryTypeOK'
  BY <1>1 DEF CatalogInv, TypeOK, RegistryTypeOK
<1>4. RequestTypeOK'
  BY DEF CatalogInv, TypeOK, RequestTypeOK, Handled
<1>5. \A b \in Clients : RequestInv(request'[b])
  BY <1>2 DEF CatalogInv, RegistryInv
<1>6. RegistryInv' /\ NoSelfDependency'
  BY <1>1, <1>5 DEF RegistryInv, RequestInv, NoSelfDependency
<1> QED
  BY <1>1, <1>3, <1>4, <1>6, ApiKeeps

\* What is there already.
LEMMA Linked ==
  ASSUME CatalogInv, deps' = deps
  PROVE  deps' \subseteq Registered \X Registered /\ \A d \in deps' : d[1] # d[2]
BY DEF CatalogInv, RegistryInv, NoSelfDependency

\* The first look-up takes a repository with a row.
LEMMA FindFromKeeps ==
  ASSUME CatalogInv, NEW c \in Clients, NEW n \in Names, NEW op \in {"add", "remove"},
         FindFrom(c, op, n)
  PROVE  CatalogInv'
<1> DEFINE q == [op |-> op, from |-> GetByName(n), to |-> None]
<1>1. /\ repo' = repo /\ deps' = deps /\ requests' = requests - 1 /\ requests > 0
      /\ Handled(c, q) /\ GetByName(n) # None /\ ApiStep
  BY DEF FindFrom, NewRequest, registryVars
<1>2. GetByName(n) \in Registered /\ GetByName(n) \in Repos
  BY <1>1, LookUp DEF CatalogInv, TypeOK
<1>3. q \in Dependencies /\ RequestInv(q)
  BY <1>1, <1>2 DEF Dependencies, RequestInv
<1>4. requests' \in 0..MaxRequests
  BY <1>1, CatalogBounds DEF CatalogInv, TypeOK
<1> HIDE DEF q
<1> QED
  BY <1>1, <1>3, <1>4, Linked, OneHandled

\* The second look-up does not give an addDep the same repository twice.
LEMMA FindToKeeps ==
  ASSUME CatalogInv, NEW c \in Clients, NEW n \in Names, FindTo(c, n)
  PROVE  CatalogInv'
<1> DEFINE to == GetByName(n)
           refused == to = None \/ (request[c].op = "add" /\ to = request[c].from)
           q == IF refused THEN NoRequest ELSE [request[c] EXCEPT !.to = to]
<1>1. /\ repo' = repo /\ deps' = deps /\ requests' = requests /\ ApiStep
      /\ request[c].op # "none" /\ Handled(c, q)
  BY DEF FindTo, registryVars
<1>2. to \in Registered \cup {None} /\ Registered \subseteq Repos
  BY LookUp DEF CatalogInv, TypeOK
<1>3. request[c] \in Dependencies /\ RequestInv(request[c])
  BY <1>1 DEF CatalogInv, TypeOK, RegistryInv, NoRequest
<1>4. requests' \in 0..MaxRequests
  BY <1>1 DEF CatalogInv, TypeOK
<1> HIDE DEF to
<1>5. q \in Dependencies \cup {NoRequest} /\ RequestInv(q)
  <2>1. CASE refused
    BY <2>1 DEF RequestInv, NoRequest
  <2>2. CASE ~refused
    <3>1. q = [op |-> request[c].op, from |-> request[c].from, to |-> to]
      BY <1>3, <2>2 DEF Dependencies
    <3>2. request[c].from \in Repos /\ request[c].op \in {"add", "remove"}
      BY <1>3 DEF Dependencies
    <3>3. request[c].from # None
      BY <3>2, NoneAssumption
    <3> QED
      BY <1>2, <1>3, <2>2, <3>1, <3>2, <3>3 DEF Dependencies, RequestInv
  <2> QED
    BY <2>1, <2>2
<1> HIDE DEF q
<1> QED
  BY <1>1, <1>4, <1>5, Linked, OneHandled

\* The two look-ups were right, and the rows they found are still there.
LEMMA LinkKeeps ==
  ASSUME CatalogInv, NEW c \in Clients, Link(c)
  PROVE  CatalogInv'
<1>1. /\ repo' = repo /\ requests' = requests /\ Handled(c, NoRequest) /\ ApiStep
      /\ request[c].to # None
      /\ \/ request[c].op = "add" /\ deps' = deps \cup {<<request[c].from, request[c].to>>}
         \/ deps' = deps \ {<<request[c].from, request[c].to>>}
  BY DEF Link, AddDependency, RemoveDependency
<1>2. /\ request[c].from \in Registered /\ request[c].to \in Registered
      /\ request[c].op = "add" => request[c].from # request[c].to
  BY <1>1 DEF CatalogInv, RegistryInv, RequestInv
<1>3. RequestInv(NoRequest) /\ requests' \in 0..MaxRequests
  BY <1>1 DEF RequestInv, NoRequest, CatalogInv, TypeOK
<1>4. deps' \subseteq Registered \X Registered /\ \A d \in deps' : d[1] # d[2]
  BY <1>1, <1>2 DEF CatalogInv, RegistryInv, NoSelfDependency
<1> QED
  BY <1>1, <1>3, <1>4, OneHandled

-----------------------------------------------------------------------------
\* What planning changes leaves the registry and the routes alone.
LEMMA PlanKeeps ==
  ASSUME CatalogInv, PlanStep,
         resolver' \in [Envs -> Resolvers], plan' \in [Envs -> Seq(Services)],
         plans' \in [Envs -> 0..MaxPlans],
         ResolverInv', RefusedForCycle', DependenciesFirst'
  PROVE  CatalogInv'
<1>1. /\ repo' = repo /\ deps' = deps /\ request' = request /\ requests' = requests
      /\ live' = live /\ pass' = pass /\ domains' = domains /\ claimed' = claimed
      /\ faults' = faults
  BY DEF PlanStep, registryVars, apiVars, routeVars, NoFault
<1>2. TypeOK'
  BY <1>1 DEF CatalogInv, TypeOK, RegistryTypeOK, FaultsTypeOK
<1>3. RegistryInv' /\ NoSelfDependency'
  BY <1>1 DEF CatalogInv, RegistryInv, RequestInv, NoSelfDependency, Registered
<1>4. RouteInv'
  BY <1>1, RoutesUntouched DEF CatalogInv
<1> QED
  BY <1>2, <1>3, <1>4 DEF CatalogInv

\* A Resolve that has not begun, and one that was refused, hold no sort.
LEMMA IdleResolver ==
  /\ \A edges \in SUBSET (Repos \X Repos) : [NoSort EXCEPT !.edges = edges] \in Sorts
  /\ NoSort \in Sorts
  /\ NoResolver \in Resolvers /\ DOMAIN NoResolver.nodes = {} /\ NoResolver.step = "idle"
<1>1. <<>> \in [{} -> 0..Cardinality(Repos)] /\ <<>> \in [{} -> Repository] /\ DOMAIN <<>> = {}
  OBVIOUS
<1>2. <<>> \in Counters /\ <<>> \in Listings
  BY <1>1 DEF Counters, Listings
<1>3. NoSort \in Sorts
  BY <1>2, EmptySeq DEF NoSort, Sorts
<1>4. ASSUME NEW edges \in SUBSET (Repos \X Repos)
      PROVE  [NoSort EXCEPT !.edges = edges] \in Sorts
  BY <1>2, EmptySeq DEF NoSort, Sorts
<1> QED
  BY <1>1, <1>2, <1>3, <1>4 DEF NoResolver, Resolvers

\* A step of one environment's Resolve before its end.
LEMMA ResolverMoves ==
  ASSUME CatalogInv, NEW e \in Envs, NEW r \in Resolvers, resolver' = [resolver EXCEPT ![e] = r],
         plan' = plan, plans' = plans, PlanStep,
         DOMAIN r.nodes \subseteq Registered,
         r.step \in {"edges", "sort"} => plans[e] > 0,
         r.step = "sort" => /\ r.sort.edges \subseteq Registered \X Registered
                            /\ SortInv(DOMAIN r.nodes, r.sort),
         r.step = "refused" /\ DOMAIN r.nodes = Registered => Cyclic(r.sort.edges)
  PROVE  CatalogInv'
<1>1. resolver \in [Envs -> Resolvers]
  BY DEF CatalogInv, TypeOK
<1>2. /\ resolver'[e] = r
      /\ \A f \in Envs \ {e} : resolver'[f] = resolver[f]
      /\ resolver' \in [Envs -> Resolvers]
  BY <1>1
<1>3. Registered' = Registered
  BY DEF PlanStep, registryVars, Registered
<1>4. ResolverInv'
  <2> SUFFICES ASSUME NEW f \in Envs
               PROVE  /\ DOMAIN resolver'[f].nodes \subseteq Registered
                      /\ resolver'[f].step \in {"edges", "sort"} => plans[f] > 0
                      /\ resolver'[f].step = "sort" =>
                           /\ resolver'[f].sort.edges \subseteq Registered \X Registered
                           /\ SortInv(DOMAIN resolver'[f].nodes, resolver'[f].sort)
    BY <1>3 DEF ResolverInv, SortInv, Waiting
  <2>1. CASE f = e
    BY <1>2, <2>1
  <2>2. CASE f # e
    BY <1>2, <2>2 DEF CatalogInv, ResolverInv
  <2> QED
    BY <2>1, <2>2
<1>5. RefusedForCycle'
  <2> SUFFICES ASSUME NEW f \in Envs, resolver'[f].step = "refused",
                      DOMAIN resolver'[f].nodes = Registered
               PROVE  Cyclic(resolver'[f].sort.edges)
    BY <1>3 DEF RefusedForCycle, Cyclic
  <2>1. CASE f = e
    BY <1>2, <2>1
  <2>2. CASE f # e
    BY <1>2, <2>2 DEF CatalogInv, RefusedForCycle
  <2> QED
    BY <2>1, <2>2
<1>6. DependenciesFirst'
  BY DEF CatalogInv, DependenciesFirst
<1> QED
  BY <1>2, <1>4, <1>5, <1>6, PlanKeeps DEF CatalogInv, TypeOK

\* The list is that of the repositories as they are now.
LEMMA ListNodesKeeps ==
  ASSUME CatalogInv, NEW e \in Envs, ListNodes(e)
  PROVE  CatalogInv'
<1> DEFINE r == [step |-> "edges", nodes |-> List, sort |-> NoSort]
<1>1. List \in Listings /\ DOMAIN List = Registered
  <2>1. \A q \in Registered : q \in Repos /\ repo[q] \in Repository
    BY NoneAssumption DEF CatalogInv, TypeOK, RegistryTypeOK, Registered, NoRow
  <2>2. List \in [Registered -> Repository] /\ Registered \in SUBSET Repos
    BY <2>1 DEF List
  <2> QED
    BY <2>2 DEF Listings
<1>2. r \in Resolvers
  BY <1>1, IdleResolver DEF Resolvers
<1>3. /\ resolver' = [resolver EXCEPT ![e] = r] /\ plan' = plan /\ plans' = plans /\ PlanStep
      /\ plans[e] > 0
  BY DEF ListNodes, Resolving
<1> QED
  BY <1>1, <1>2, <1>3, ResolverMoves

\* The edges are between registered repositories, listed or not.
LEMMA ListEdgesKeeps ==
  ASSUME CatalogInv, NEW e \in Envs, ListEdges(e)
  PROVE  CatalogInv'
<1> DEFINE nodes == resolver[e].nodes
<1>1. PICK sort \in SortStarts(DOMAIN nodes, deps) :
        resolver' = [resolver EXCEPT ![e] = [step |-> "sort", nodes |-> nodes, sort |-> sort]]
  BY DEF ListEdges, Resolving
<1>2. resolver[e] \in Resolvers /\ resolver \in [Envs -> Resolvers]
  BY DEF CatalogInv, TypeOK
<1> DEFINE r == [step |-> "sort", nodes |-> nodes, sort |-> sort]
<1>3. resolver' = [resolver EXCEPT ![e] = r]
  BY <1>1
<1>4. DOMAIN nodes \subseteq Registered /\ Registered \subseteq Repos
  BY DEF CatalogInv, ResolverInv, Registered
<1>5. deps \subseteq Repos \X Repos /\ deps \subseteq Registered \X Registered
  BY DEF CatalogInv, TypeOK, RegistryTypeOK, RegistryInv
<1>6. SortInv(DOMAIN nodes, sort) /\ sort.edges = deps
  BY <1>4, <1>5, SortBegins
<1>7. r \in Resolvers
  BY <1>2, <1>6 DEF Resolvers, SortInv
<1>8. plan' = plan /\ plans' = plans /\ PlanStep /\ plans[e] > 0
  BY DEF ListEdges, CatalogInv, ResolverInv
<1> QED
  BY <1>3, <1>4, <1>5, <1>6, <1>7, <1>8, ResolverMoves

\* A turn keeps the invariant of the sort.
LEMMA SortTurnKeeps ==
  ASSUME CatalogInv, NEW e \in Envs, SortTurn(e)
  PROVE  CatalogInv'
<1> DEFINE nodes == resolver[e].nodes
<1>1. /\ resolver[e].step = "sort" /\ resolver[e].sort.ready # <<>> /\ plans[e] > 0
      /\ plan' = plan /\ plans' = plans /\ PlanStep
  BY DEF SortTurn, CatalogInv, ResolverInv
<1>2. PICK sort \in SortTurns(resolver[e].sort) :
        resolver' = [resolver EXCEPT ![e] = [step |-> "sort", nodes |-> nodes, sort |-> sort]]
  BY DEF SortTurn, Resolving
<1>3. resolver[e] \in Resolvers /\ resolver \in [Envs -> Resolvers]
  BY DEF CatalogInv, TypeOK
<1> DEFINE r == [step |-> "sort", nodes |-> nodes, sort |-> sort]
<1>4. resolver' = [resolver EXCEPT ![e] = r]
  BY <1>2
<1>5. /\ DOMAIN nodes \subseteq Registered /\ Registered \subseteq Repos
      /\ resolver[e].sort.edges \subseteq Registered \X Registered
      /\ SortInv(DOMAIN nodes, resolver[e].sort)
  BY <1>1 DEF CatalogInv, ResolverInv, Registered
<1>6. SortInv(DOMAIN nodes, sort) /\ sort.edges = resolver[e].sort.edges
  <2>1. DOMAIN nodes \in SUBSET Repos
    BY <1>5
  <2> HIDE DEF nodes
  <2> QED
    BY <1>1, <1>2, <1>5, <2>1, SortGoesOn
<1>7. r \in Resolvers
  BY <1>3, <1>6 DEF Resolvers, SortInv
<1> QED
  BY <1>1, <1>4, <1>5, <1>6, <1>7, ResolverMoves

\* What is refused has a cycle, if the list is still complete.
LEMMA RefuseKeeps ==
  ASSUME CatalogInv, NEW e \in Envs, Refuse(e)
  PROVE  CatalogInv'
<1> DEFINE nodes == resolver[e].nodes
           sort == resolver[e].sort
           r == [step |-> "refused", nodes |-> nodes, sort |-> [NoSort EXCEPT !.edges = sort.edges]]
<1>1. /\ resolver[e].step = "sort" /\ sort.ready = <<>>
      /\ Len(sort.out) # Cardinality(DOMAIN nodes)
      /\ plan' = plan /\ plans' = plans /\ PlanStep
  BY DEF Refuse
<1>2. resolver[e] \in Resolvers /\ resolver \in [Envs -> Resolvers]
  BY DEF CatalogInv, TypeOK
<1>3. resolver' = [resolver EXCEPT ![e] = r]
  BY DEF Refuse, Resolving
<1>4. /\ DOMAIN nodes \subseteq Registered /\ Registered \subseteq Repos
      /\ sort.edges \subseteq Registered \X Registered
      /\ SortInv(DOMAIN nodes, sort)
  BY <1>1 DEF CatalogInv, ResolverInv, Registered
<1>5. [NoSort EXCEPT !.edges = sort.edges].edges = sort.edges
  BY DEF NoSort
<1>6. r \in Resolvers
  <2>1. sort.edges \subseteq Repos \X Repos
    BY <1>2 DEF Resolvers, Sorts
  <2> QED
    BY <1>2, <2>1, IdleResolver DEF Resolvers
<1>7. DOMAIN nodes = Registered => Cyclic(sort.edges)
  BY <1>1, <1>4, RefusedIsCyclic
<1> HIDE DEF nodes, sort
<1> QED
  BY <1>1, <1>3, <1>4, <1>5, <1>6, <1>7, ResolverMoves

\* The plan made of an order the loop ends with.
LEMMA PlanOf ==
  ASSUME NEW e \in Envs, NEW pr \in PrLabels, NEW nodes \in Listings, NEW g,
         SortInv(DOMAIN nodes, g),
         NEW services,
         services = [i \in DOMAIN g.out |-> Service(e, pr, nodes, g.edges, g.out[i])]
  PROVE  /\ services \in Seq(Services)
         /\ \A i \in DOMAIN services :
              /\ services[i].repo # None =>
                   \A j \in DOMAIN services : services[j].repo = services[i].repo => j = i
              /\ services[i].urls \subseteq {services[j].repo : j \in 1..(i - 1)}
<1>1. /\ DOMAIN nodes \subseteq Repos
      /\ \A r \in DOMAIN nodes : nodes[r].name \in Names /\ nodes[r].port \in BOOLEAN
  BY DEF Listings, Repository
<1>2. ASSUME NEW r PROVE Service(e, pr, nodes, g.edges, r) \in Services
  <2>1. CASE r \in DOMAIN nodes
    <3>1. Hostname(e, pr, nodes[r].name) \in Hostnames
      BY <1>1, <2>1 DEF Hostnames
    <3> QED
      BY <1>1, <2>1, <3>1 DEF Service, Services
  <2> QED
    BY <2>1 DEF Service, Services
<1>3. /\ g.out \in Seq(Repos) /\ Len(g.out) \in Nat /\ DOMAIN g.out = 1..Len(g.out)
      /\ DOMAIN services = 1..Len(g.out)
  BY LenProperties DEF SortInv, Sorts
<1>4. services \in Seq(Services)
  <2>1. services \in [1..Len(g.out) -> Services]
    BY <1>2, <1>3
  <2> QED
    BY <1>3, <2>1, SeqDef
<1>5. ASSUME NEW i \in DOMAIN services
      PROVE  /\ services[i].repo = IF g.out[i] \in DOMAIN nodes THEN g.out[i] ELSE None
             /\ services[i].urls = IF g.out[i] \in DOMAIN nodes
                                     THEN {d \in DOMAIN nodes : <<g.out[i], d>> \in g.edges} ELSE {}
  BY <1>3 DEF Service, NoService
<1>6. ASSUME NEW i \in DOMAIN services, services[i].repo # None,
             NEW j \in DOMAIN services, services[j].repo = services[i].repo
      PROVE  j = i
  <2>1. g.out[i] = g.out[j]
    BY <1>5, <1>6
  <2> QED
    BY <1>3, <2>1 DEF SortInv, IsInjective
<1>7. ASSUME NEW i \in DOMAIN services, NEW d \in services[i].urls
      PROVE  \E j \in 1..(i - 1) : services[j].repo = d
  <2>1. d \in DOMAIN nodes /\ <<g.out[i], d>> \in g.edges
    BY <1>5, <1>7
  <2> DEFINE edge == <<g.out[i], d>>
  <2>0. i \in DOMAIN g.out /\ edge \in g.edges /\ edge[1] = g.out[i] /\ edge[2] = d
    BY <1>3, <2>1
  <2> HIDE DEF edge
  <2>2. PICK j \in 1..(i - 1) : g.out[j] = d
    BY <2>0 DEF SortInv
  <2>3. j \in DOMAIN services
    BY <1>3, <2>2
  <2>4. services[j].repo = d
    BY <1>5, <2>1, <2>2, <2>3
  <2> QED
    BY <2>2, <2>4
<1>8. \A i \in DOMAIN services : services[i].urls \subseteq {services[j].repo : j \in 1..(i - 1)}
  BY <1>7
<1> QED
  BY <1>4, <1>6, <1>8

\* What is planned is an order the sort ended with.
LEMMA ResolveKeeps ==
  ASSUME CatalogInv, NEW e \in Envs, NEW pr \in PrLabels, Resolve(e, pr)
  PROVE  CatalogInv'
<1> DEFINE nodes == resolver[e].nodes
           sort == resolver[e].sort
           services == [i \in DOMAIN sort.out |-> Service(e, pr, nodes, sort.edges, sort.out[i])]
<1>1. /\ resolver[e].step = "sort"
      /\ plan' = [plan EXCEPT ![e] = services]
      /\ plans' = [plans EXCEPT ![e] = @ - 1]
      /\ resolver' = [resolver EXCEPT ![e] = NoResolver]
      /\ PlanStep
  BY DEF Resolve
<1>2. /\ resolver \in [Envs -> Resolvers] /\ plan \in [Envs -> Seq(Services)]
      /\ plans \in [Envs -> 0..MaxPlans]
  BY DEF CatalogInv, TypeOK
<1>3. resolver[e] \in Resolvers /\ nodes \in Listings /\ SortInv(DOMAIN nodes, sort) /\ plans[e] > 0
  BY <1>1, <1>2 DEF CatalogInv, ResolverInv, Resolvers
<1> HIDE DEF services, nodes, sort
<1>4. /\ services \in Seq(Services)
      /\ \A i \in DOMAIN services :
           /\ services[i].repo # None =>
                \A j \in DOMAIN services : services[j].repo = services[i].repo => j = i
           /\ services[i].urls \subseteq {services[j].repo : j \in 1..(i - 1)}
  BY <1>3, PlanOf DEF services
<1>5. plan' \in [Envs -> Seq(Services)] /\ plans' \in [Envs -> 0..MaxPlans]
  BY <1>1, <1>2, <1>3, <1>4, CatalogBounds
<1>6. NoResolver \in Resolvers /\ DOMAIN NoResolver.nodes = {} /\ NoResolver.step = "idle"
  BY IdleResolver
<1>7. /\ resolver' \in [Envs -> Resolvers] /\ resolver'[e] = NoResolver
      /\ \A f \in Envs \ {e} :
           resolver'[f] = resolver[f] /\ plan'[f] = plan[f] /\ plans'[f] = plans[f]
      /\ plan'[e] = services
  BY <1>1, <1>2, <1>6
<1>8. Registered' = Registered
  BY <1>1 DEF PlanStep, registryVars, Registered
<1>9. ResolverInv'
  <2> SUFFICES ASSUME NEW f \in Envs
               PROVE  /\ DOMAIN resolver'[f].nodes \subseteq Registered
                      /\ resolver'[f].step \in {"edges", "sort"} => plans'[f] > 0
                      /\ resolver'[f].step = "sort" =>
                           /\ resolver'[f].sort.edges \subseteq Registered \X Registered
                           /\ SortInv(DOMAIN resolver'[f].nodes, resolver'[f].sort)
    BY <1>8 DEF ResolverInv, SortInv, Waiting
  <2>1. CASE f = e
    BY <1>6, <1>7, <2>1
  <2>2. CASE f # e
    BY <1>7, <2>2 DEF CatalogInv, ResolverInv
  <2> QED
    BY <2>1, <2>2
<1>10. RefusedForCycle'
  <2> SUFFICES ASSUME NEW f \in Envs, resolver'[f].step = "refused",
                      DOMAIN resolver'[f].nodes = Registered
               PROVE  Cyclic(resolver'[f].sort.edges)
    BY <1>8 DEF RefusedForCycle, Cyclic
  <2> QED
    BY <1>6, <1>7 DEF CatalogInv, RefusedForCycle
<1>11. DependenciesFirst'
  <2> SUFFICES ASSUME NEW f \in Envs, NEW i \in DOMAIN plan'[f]
               PROVE  /\ plan'[f][i].repo # None =>
                           \A j \in DOMAIN plan'[f] : plan'[f][j].repo = plan'[f][i].repo => j = i
                      /\ plan'[f][i].urls \subseteq {plan'[f][j].repo : j \in 1..(i - 1)}
    BY DEF DependenciesFirst
  <2>1. CASE f = e
    BY <1>4, <1>7, <2>1
  <2>2. CASE f # e
    BY <1>7, <2>2 DEF CatalogInv, DependenciesFirst
  <2> QED
    BY <2>1, <2>2
<1> QED
  BY <1>1, <1>5, <1>7, <1>9, <1>10, <1>11, PlanKeeps

-----------------------------------------------------------------------------
\* What syncDomains and tearDown change leaves the registry and the plans alone.
LEMMA RoutesKeep ==
  ASSUME CatalogInv, RouteStep,
         live' \in [Envs -> BOOLEAN], pass' \in [Envs -> Passes],
         domains' \in [Hostnames -> {None} \cup Routes],
         claimed' \in [Hostnames -> SUBSET Envs], faults' \in 0..MaxFaults,
         RouteInv'
  PROVE  CatalogInv'
<1>1. /\ repo' = repo /\ deps' = deps /\ request' = request /\ requests' = requests
      /\ resolver' = resolver /\ plan' = plan /\ plans' = plans
  BY DEF RouteStep, registryVars, apiVars, planVars
<1>2. TypeOK'
  BY <1>1 DEF CatalogInv, TypeOK, RegistryTypeOK, FaultsTypeOK
<1>3. RegistryInv' /\ NoSelfDependency'
  BY <1>1 DEF CatalogInv, RegistryInv, RequestInv, NoSelfDependency, Registered
<1>4. ResolverInv'
  BY <1>1 DEF CatalogInv, ResolverInv, Registered
<1>5. RefusedForCycle' /\ DependenciesFirst'
  BY <1>1 DEF CatalogInv, RefusedForCycle, DependenciesFirst, Registered
<1> QED
  BY <1>2, <1>3, <1>4, <1>5 DEF CatalogInv

\* What the proofs about syncDomains need of the invariant.
LEMMA RouteTypes ==
  ASSUME CatalogInv, NEW e \in Envs
  PROVE  /\ live \in [Envs -> BOOLEAN] /\ pass \in [Envs -> Passes]
         /\ domains \in [Hostnames -> {None} \cup Routes]
         /\ claimed \in [Hostnames -> SUBSET Envs] /\ faults \in 0..MaxFaults
         /\ plan \in [Envs -> Seq(Services)]
         /\ pass[e].step \in {"none", "delete", "upsert", "synced"}
         /\ pass[e].services \in Seq(Services) /\ pass[e].at \in Nat
         /\ NoPass \in Passes /\ RouteInv
<1>1. NoPass \in Passes
  BY EmptySeq DEF NoPass, Passes
<1> QED
  BY <1>1 DEF CatalogInv, TypeOK, FaultsTypeOK, Passes

\* A pass begins with nothing written.
LEMMA StartPassKeeps ==
  ASSUME CatalogInv, NEW e \in Envs, StartPass(e)
  PROVE  CatalogInv'
<1> DEFINE p == [step |-> "delete", services |-> plan[e], at |-> 0]
<1>1. /\ live[e] /\ pass' = [pass EXCEPT ![e] = p] /\ faults' = faults /\ RouteStep
      /\ live' = live /\ domains' = domains /\ claimed' = claimed
  BY DEF StartPass, NoFault
<1>2. p \in Passes
  BY RouteTypes DEF Passes
<1>3. pass' \in [Envs -> Passes] /\ pass'[e] = p /\ \A f \in Envs \ {e} : pass'[f] = pass[f]
  BY <1>1, <1>2, RouteTypes
<1>4. ASSUME NEW f \in Envs, NEW h \in Hostnames PROVE RowInv(f, h)'
  <2>1. Mine(f, h)' <=> Mine(f, h)
    BY <1>1 DEF Mine
  <2>2. CASE f = e
    <3>1. RowInv(e, h)
      BY RouteTypes DEF RouteInv
    <3> QED
      BY <1>1, <1>3, <2>1, <2>2, <3>1 DEF RowInv
  <2>3. CASE f # e
    BY <1>1, <1>3, <2>1, <2>3, RowStays, RouteTypes
  <2> QED
    BY <2>2, <2>3
<1>5. ASSUME NEW f \in Envs PROVE PassInv(f)'
  <2>1. CASE f = e
    BY <1>1, <1>3, <2>1 DEF PassInv
  <2>2. CASE f # e
    BY <1>1, <1>3, <2>2, RouteTypes, PassStays
  <2> QED
    BY <2>1, <2>2
<1> QED
  BY <1>1, <1>3, <1>4, <1>5, RoutesKeep, RouteTypes DEF RouteInv

\* A pass that is given up promises nothing, and the fault is counted.
LEMMA SyncFailsKeeps ==
  ASSUME CatalogInv, NEW e \in Envs, SyncFails(e)
  PROVE  CatalogInv'
<1>1. /\ pass[e].step # "none" /\ pass' = [pass EXCEPT ![e] = NoPass] /\ RouteStep
      /\ faults' = faults + 1 /\ faults < MaxFaults
      /\ live' = live /\ domains' = domains /\ claimed' = claimed
  BY DEF SyncFails, Fault
<1>2. /\ pass' \in [Envs -> Passes] /\ pass'[e] = NoPass
      /\ \A f \in Envs \ {e} : pass'[f] = pass[f]
  BY <1>1, RouteTypes
<1>3. faults' \in 0..MaxFaults /\ faults' # 0
  BY <1>1, RouteTypes, MaxFaultsAssumption
<1>4. ASSUME NEW f \in Envs, NEW h \in Hostnames PROVE RowInv(f, h)'
  <2>1. Mine(f, h)' <=> Mine(f, h)
    BY <1>1 DEF Mine
  <2>2. CASE f = e
    <3>1. RowInv(e, h)
      BY RouteTypes DEF RouteInv
    <3> QED
      BY <1>1, <1>2, <1>3, <2>1, <2>2, <3>1 DEF RowInv, NoPass
  <2>3. CASE f # e
    BY <1>1, <1>2, <1>3, <2>1, <2>3, RowStays, RouteTypes
  <2> QED
    BY <2>2, <2>3
<1>5. ASSUME NEW f \in Envs PROVE PassInv(f)'
  <2>1. CASE f = e
    BY <1>2, <2>1 DEF PassInv, NoPass
  <2>2. CASE f # e
    BY <1>1, <1>2, <2>2, RouteTypes, PassStays
  <2> QED
    BY <2>1, <2>2
<1> QED
  BY <1>1, <1>2, <1>3, <1>4, <1>5, RoutesKeep, RouteTypes DEF RouteInv

\* What DeleteForEnv leaves.
LEMMA Deleted ==
  ASSUME CatalogInv, NEW e \in Envs, DeleteForEnv(e)
  PROVE  /\ domains' \in [Hostnames -> {None} \cup Routes]
         /\ \A h \in Hostnames :
              /\ ~Mine(e, h)'
              /\ \A f \in Envs \ {e} : /\ Mine(f, h)' <=> Mine(f, h)
                                       /\ Mine(f, h) => domains'[h] = domains[h]
<1>1. domains \in [Hostnames -> {None} \cup Routes]
  BY RouteTypes
<1>2. \A h \in Hostnames :
        domains'[h] = IF domains[h] # None /\ domains[h].env = e THEN None ELSE domains[h]
  BY DEF DeleteForEnv
<1>3. domains' \in [Hostnames -> {None} \cup Routes]
  BY <1>1, <1>2 DEF DeleteForEnv
<1> QED
  BY <1>2, <1>3 DEF Mine

\* DeleteForEnv leaves what no service at all asks for.
LEMMA DeleteRoutesKeeps ==
  ASSUME CatalogInv, NEW e \in Envs, DeleteRoutes(e)
  PROVE  CatalogInv'
<1> DEFINE next == IF Ahead(pass[e].services, 0) = {} THEN "synced" ELSE "upsert"
<1>1. /\ pass[e].step = "delete" /\ pass' = [pass EXCEPT ![e].step = next] /\ RouteStep
      /\ DeleteForEnv(e) /\ faults' = faults /\ live' = live /\ claimed' = claimed
  BY DEF DeleteRoutes, NoFault
<1>2. PassInv(e) /\ pass[e].at = 0
  BY <1>1, RouteTypes DEF RouteInv, PassInv
<1>3. /\ pass' \in [Envs -> Passes]
      /\ pass'[e].step = next /\ pass'[e].services = pass[e].services /\ pass'[e].at = 0
      /\ \A f \in Envs \ {e} : pass'[f] = pass[f]
  <2>1. pass[e] \in Passes
    BY RouteTypes
  <2> QED
    BY <1>1, <1>2, <2>1, RouteTypes DEF Passes
<1>4. ASSUME NEW f \in Envs, NEW h \in Hostnames PROVE RowInv(f, h)'
  <2>1. CASE f = e
    <3>1. Wanted(pass[e].services, 0, h) = {}
      <4>1. DOMAIN pass[e].services = 1..Len(pass[e].services) /\ Len(pass[e].services) \in Nat
        BY RouteTypes, LenProperties
      <4> QED
        BY <4>1 DEF Wanted
    <3>2. ~Mine(e, h)'
      BY <1>1, Deleted
    <3>3. Written(e, 0, h)'
      BY <1>3, <3>1, <3>2 DEF Written
    <3> QED
      BY <1>3, <2>1, <3>2, <3>3 DEF RowInv
  <2>2. CASE f # e
    BY <1>1, <1>3, <2>2, Deleted, RowStays, RouteTypes
  <2> QED
    BY <2>1, <2>2
<1>5. ASSUME NEW f \in Envs PROVE PassInv(f)'
  <2>1. CASE f = e
    BY <1>1, <1>2, <1>3, <2>1 DEF PassInv
  <2>2. CASE f # e
    BY <1>1, <1>3, <2>2, RouteTypes, PassStays
  <2> QED
    BY <2>1, <2>2
<1> QED
  BY <1>1, <1>3, <1>4, <1>5, Deleted, RoutesKeep, RouteTypes DEF RouteInv

\* One that is gone has no pass, and no route unless its statement failed.
LEMMA TearDownKeeps ==
  ASSUME CatalogInv, NEW e \in Envs, TearDown(e)
  PROVE  CatalogInv'
<1>1. /\ live' = [live EXCEPT ![e] = FALSE] /\ pass' = [pass EXCEPT ![e] = NoPass] /\ RouteStep
      /\ claimed' = claimed
      /\ \/ DeleteForEnv(e) /\ faults' = faults
         \/ domains' = domains /\ faults' = faults + 1 /\ faults < MaxFaults
  BY DEF TearDown, NoFault, Fault
<1>2. /\ pass' \in [Envs -> Passes] /\ pass'[e] = NoPass
      /\ live' \in [Envs -> BOOLEAN] /\ live'[e] = FALSE
      /\ \A f \in Envs \ {e} : pass'[f] = pass[f] /\ live'[f] = live[f]
  BY <1>1, RouteTypes
<1>3. faults' \in 0..MaxFaults /\ (faults' = 0 => faults = 0)
  BY <1>1, RouteTypes, MaxFaultsAssumption
<1>4. domains' \in [Hostnames -> {None} \cup Routes]
  BY <1>1, Deleted, RouteTypes
<1>5. ASSUME NEW h \in Hostnames
      PROVE  /\ Mine(e, h)' => Mine(e, h) /\ faults' # 0
             /\ \A f \in Envs \ {e} : /\ Mine(f, h)' <=> Mine(f, h)
                                      /\ Mine(f, h) => domains'[h] = domains[h]
  <2>1. CASE DeleteForEnv(e)
    BY <2>1, Deleted
  <2>2. CASE domains' = domains /\ faults' = faults + 1
    BY <2>2, RouteTypes DEF Mine
  <2> QED
    BY <1>1, <2>1, <2>2
<1>6. ASSUME NEW f \in Envs, NEW h \in Hostnames PROVE RowInv(f, h)'
  <2>1. CASE f = e
    <3>1. RowInv(e, h)
      BY RouteTypes DEF RouteInv
    <3> QED
      BY <1>1, <1>2, <1>5, <2>1, <3>1 DEF RowInv, NoPass
  <2>2. CASE f # e
    BY <1>1, <1>2, <1>3, <1>5, <2>2, RowStays, RouteTypes
  <2> QED
    BY <2>1, <2>2
<1>7. ASSUME NEW f \in Envs PROVE PassInv(f)'
  <2>1. CASE f = e
    BY <1>2, <2>1 DEF PassInv, NoPass
  <2>2. CASE f # e
    BY <1>2, <2>2, RouteTypes, PassStays
  <2> QED
    BY <2>1, <2>2
<1> QED
  BY <1>1, <1>2, <1>3, <1>4, <1>6, <1>7, RoutesKeep, RouteTypes DEF RouteInv

\* A route is written for the next service; the others' routes it takes are
\* hostnames both have claimed.
LEMMA UpsertRouteKeeps ==
  ASSUME CatalogInv, NEW e \in Envs, UpsertRoute(e)
  PROVE  CatalogInv'
<1> DEFINE services == pass[e].services
           at == pass[e].at
<1>1. /\ pass[e].step = "upsert" /\ faults' = faults /\ live' = live /\ RouteStep
  BY DEF UpsertRoute, NoFault
<1>2. PICK i \in Ahead(services, at) :
        /\ \A j \in Ahead(services, at) : i <= j
        /\ UpsertDomain(e, services[i])
        /\ claimed' = [claimed EXCEPT ![services[i].host] = @ \cup {e}]
        /\ pass' = [pass EXCEPT ![e].at = i,
             ![e].step = IF Ahead(services, i) = {} THEN "synced" ELSE "upsert"]
  BY DEF UpsertRoute
<1> DEFINE s == services[i]
           row == [env |-> e, repo |-> s.repo]
<1>3. /\ services \in Seq(Services) /\ at \in Nat
      /\ DOMAIN services = 1..Len(services) /\ Len(services) \in Nat
      /\ i \in DOMAIN services /\ i > at /\ s.host # None /\ i \in Nat
  BY RouteTypes, LenProperties DEF Ahead
<1>4. s \in Services /\ s.host \in Hostnames /\ row \in Routes /\ row # None
  <2>1. s \in Services
    BY <1>3, ElementOfSeq
  <2>2. s.host \in Hostnames /\ s.repo \in Repos
    BY <1>3, <2>1 DEF Services, NoService
  <2> QED
    BY <2>1, <2>2, NoRouteAssumption DEF Routes
<1>5. /\ domains' \in [Hostnames -> {None} \cup Routes] /\ domains'[s.host] = row
      /\ \A h \in Hostnames \ {s.host} : domains'[h] = domains[h]
  BY <1>2, <1>4, RouteTypes DEF UpsertDomain
<1>6. /\ claimed' \in [Hostnames -> SUBSET Envs] /\ e \in claimed'[s.host]
      /\ \A h \in Hostnames : claimed[h] \subseteq claimed'[h]
      /\ \A h \in Hostnames \ {s.host} : claimed'[h] = claimed[h]
  BY <1>2, <1>4, RouteTypes
<1>7. /\ pass' \in [Envs -> Passes]
      /\ pass'[e].step = IF Ahead(services, i) = {} THEN "synced" ELSE "upsert"
      /\ pass'[e].services = services /\ pass'[e].at = i
      /\ \A f \in Envs \ {e} : pass'[f] = pass[f]
  <2>1. pass[e] \in Passes
    BY RouteTypes
  <2> QED
    BY <1>2, <1>3, <2>1, RouteTypes DEF Passes
<1>8. live[e]
  BY <1>1, RouteTypes DEF RouteInv, PassInv
<1> HIDE DEF services, at, s, row
<1>9. ASSUME NEW h \in Hostnames PROVE RowInv(e, h)'
  <2>1. RowInv(e, h)
    BY RouteTypes DEF RouteInv
  <2>2. CASE h = s.host
    <3>1. Mine(e, h)'
      BY <1>4, <1>5, <2>2 DEF Mine, row
    <3>2. /\ i \in Wanted(services, i, h) /\ \A j \in Wanted(services, i, h) : j <= i
          /\ domains'[h].repo = services[i].repo
      BY <1>3, <1>5, <2>2 DEF Wanted, s, row
    <3>3. Written(e, i, h)'
      BY <1>7, <3>1, <3>2 DEF Written
    <3> QED
      BY <1>1, <1>6, <1>7, <1>8, <2>2, <3>3 DEF RowInv
  <2>3. CASE h # s.host
    <3>1. (Mine(e, h)' <=> Mine(e, h)) /\ domains'[h] = domains[h] /\ claimed'[h] = claimed[h]
      BY <1>5, <1>6, <2>3 DEF Mine
    <3>2. Wanted(services, i, h) = Wanted(services, at, h)
      <4>1. ASSUME NEW j \in DOMAIN services, services[j].host = h, j <= i PROVE j <= at
        <5> SUFFICES ASSUME j > at PROVE FALSE
          BY <1>3
        <5>1. j \in Ahead(services, at)
          BY <4>1, NoRouteAssumption DEF Ahead
        <5> QED
          BY <1>2, <1>3, <2>3, <4>1, <5>1 DEF s
      <4> QED
        BY <1>3, <4>1 DEF Wanted
    <3>3. Written(e, at, h) => Written(e, i, h)'
      BY <1>7, <3>1, <3>2 DEF Written, services
    <3> QED
      BY <1>1, <1>7, <1>8, <2>1, <3>1, <3>3 DEF RowInv, at
  <2> QED
    BY <2>2, <2>3
<1>10. ASSUME NEW f \in Envs \ {e}, NEW h \in Hostnames PROVE RowInv(f, h)'
  <2>1. CASE h = s.host
    <3>1. ~Mine(f, h)' /\ ~(claimed'[h] \subseteq {f})
      BY <1>5, <1>6, <2>1 DEF Mine, row
    <3> QED
      BY <3>1 DEF RowInv
  <2>2. CASE h # s.host
    <3>1. (Mine(f, h)' <=> Mine(f, h)) /\ domains'[h] = domains[h]
      BY <1>5, <2>2 DEF Mine
    <3> QED
      BY <1>1, <1>6, <1>7, <3>1, RowStays, RouteTypes
  <2> QED
    BY <2>1, <2>2
<1>11. ASSUME NEW f \in Envs PROVE PassInv(f)'
  <2>1. CASE f = e
    BY <1>1, <1>7, <1>8, <2>1 DEF PassInv
  <2>2. CASE f # e
    BY <1>1, <1>7, <2>2, RouteTypes, PassStays
  <2> QED
    BY <2>1, <2>2
<1> QED
  BY <1>1, <1>5, <1>6, <1>7, <1>9, <1>10, <1>11, RoutesKeep, RouteTypes DEF RouteInv

-----------------------------------------------------------------------------
\* A run starts with the invariant, in each of Starts.
LEMMA CatalogInit ==
  ASSUME Init PROVE CatalogInv
<1>1. PICK s \in Starts :
        /\ repo = [r \in Repos |-> IF r \in DOMAIN s.repo THEN s.repo[r] ELSE NoRow]
        /\ deps = s.deps
        /\ live = [e \in Envs |-> e \in s.live]
        /\ requests = s.requests
        /\ plans = s.plans
  BY DEF Init
<1>2. /\ request = [c \in Clients |-> NoRequest]
      /\ resolver = [e \in Envs |-> NoResolver]
      /\ plan = [e \in Envs |-> <<>>]
      /\ pass = [e \in Envs |-> NoPass]
      /\ domains = [h \in Hostnames |-> None]
      /\ claimed = [h \in Hostnames |-> {}]
      /\ faults = 0
  BY DEF Init, FaultsInit
<1>3. /\ s.repo \in Listings /\ DOMAIN s.repo \subseteq Repos
      /\ \A r \in DOMAIN s.repo : s.repo[r] \in Repository
      /\ \A d \in s.deps : d \in (DOMAIN s.repo) \X (DOMAIN s.repo) /\ d[1] # d[2]
      /\ s.requests \in 0..MaxRequests /\ s.plans \in [Envs -> 0..MaxPlans]
  BY StartsAssumption DEF Listings
<1>4. Registered = DOMAIN s.repo
  <2>1. \A r \in DOMAIN s.repo : s.repo[r].name # None
    BY <1>3, NoneAssumption DEF Repository
  <2> QED
    BY <1>1, <1>3, <2>1 DEF Registered, NoRow
<1>5. RegistryTypeOK /\ RegistryInv /\ NoSelfDependency
  <2>1. repo \in [Repos -> Repository \cup {NoRow}]
    BY <1>1, <1>3
  <2>2. deps \subseteq Repos \X Repos
    BY <1>1, <1>3
  <2> QED
    BY <1>1, <1>2, <1>3, <1>4, <2>1, <2>2, NoneAssumption
    DEF RegistryTypeOK, RegistryInv, RequestInv, NoSelfDependency, NoRequest
<1>6. NoResolver \in Resolvers /\ DOMAIN NoResolver.nodes = {} /\ NoResolver.step = "idle"
  BY IdleResolver
<1>7. NoPass \in Passes /\ NoPass.step = "none" /\ <<>> \in Seq(Services) /\ DOMAIN <<>> = {}
  BY EmptySeq DEF NoPass, Passes
<1>8. TypeOK
  BY <1>1, <1>2, <1>3, <1>5, <1>6, <1>7, MaxFaultsAssumption DEF TypeOK, FaultsTypeOK
<1>9. ResolverInv /\ RefusedForCycle
  BY <1>2, <1>6 DEF ResolverInv, RefusedForCycle
<1>10. DependenciesFirst
  BY <1>2, <1>7 DEF DependenciesFirst
<1>11. RouteInv
  BY <1>2, <1>7 DEF RouteInv, PassInv, RowInv, Mine
<1> QED
  BY <1>5, <1>8, <1>9, <1>10, <1>11 DEF CatalogInv

\* Every action keeps it.
LEMMA CatalogStep ==
  ASSUME CatalogInv, [Next]_vars PROVE CatalogInv'
<1>1. ASSUME NEW row \in Rows, upsertRepo(row.repo, [name |-> row.name, port |-> row.port])
      PROVE  CatalogInv'
  BY <1>1, UpsertRepoKeeps
<1>2. ASSUME NEW c \in Clients, NEW n \in Names,
             FindFrom(c, "add", n) \/ FindFrom(c, "remove", n) \/ FindTo(c, n)
      PROVE  CatalogInv'
  BY <1>2, FindFromKeeps, FindToKeeps
<1>3. ASSUME NEW c \in Clients, Link(c)
      PROVE  CatalogInv'
  BY <1>3, LinkKeeps
<1>4. ASSUME NEW e \in Envs, ListNodes(e) \/ ListEdges(e) \/ SortTurn(e) \/ Refuse(e)
      PROVE  CatalogInv'
  BY <1>4, ListNodesKeeps, ListEdgesKeeps, SortTurnKeeps, RefuseKeeps
<1>5. ASSUME NEW e \in Envs, NEW pr \in PrLabels, Resolve(e, pr)
      PROVE  CatalogInv'
  BY <1>5, ResolveKeeps
<1>6. ASSUME NEW e \in Envs,
             \/ StartPass(e) \/ DeleteRoutes(e) \/ UpsertRoute(e) \/ SyncFails(e) \/ TearDown(e)
      PROVE  CatalogInv'
  BY <1>6, StartPassKeeps, DeleteRoutesKeeps, UpsertRouteKeeps, SyncFailsKeeps, TearDownKeeps
<1>7. CASE UNCHANGED vars
  <2>1. PlanStep /\ resolver' = resolver /\ plan' = plan /\ plans' = plans
    BY <1>7 DEF vars, PlanStep, registryVars, apiVars, planVars, routeVars, NoFault
  <2>2. ResolverInv' /\ RefusedForCycle' /\ DependenciesFirst'
    BY <1>7 DEF CatalogInv, ResolverInv, RefusedForCycle, DependenciesFirst, Registered,
                vars, registryVars, planVars
  <2> QED
    BY <2>1, <2>2, PlanKeeps DEF CatalogInv, TypeOK
<1> QED
  BY <1>1, <1>2, <1>3, <1>4, <1>5, <1>6, <1>7 DEF Next

\* The invariant holds throughout, whatever the registry starts with.
LEMMA CatalogInvHolds == Spec => []CatalogInv
<1> QED
  BY CatalogInit, CatalogStep, PTL DEF Spec

\* After the end of a pass the services it is past are all that are routed, so
\* that what is written so far is what the whole topology asks for.
LEMMA SyncedIsWritten ==
  ASSUME CatalogInv PROVE RoutesFollowPlan
<1> SUFFICES ASSUME NEW e \in Envs, NEW h \in Hostnames
             PROVE  LET wanted == {i \in DOMAIN pass[e].services : pass[e].services[i].host = h}
                        mine == domains[h] # None /\ domains[h].env = e
                    IN /\ pass[e].step = "synced" /\ claimed[h] \subseteq {e} =>
                            IF wanted = {} THEN ~mine
                            ELSE mine /\ \E i \in wanted :
                                            /\ \A j \in wanted : j <= i
                                            /\ domains[h].repo = pass[e].services[i].repo
                       /\ ~live[e] /\ faults = 0 => ~mine
  BY DEF RoutesFollowPlan
<1> DEFINE wanted == {i \in DOMAIN pass[e].services : pass[e].services[i].host = h}
<1>1. PassInv(e) /\ RowInv(e, h)
  BY RouteTypes DEF RouteInv
<1>2. ASSUME pass[e].step = "synced" PROVE Wanted(pass[e].services, pass[e].at, h) = wanted
  <2>1. /\ DOMAIN pass[e].services = 1..Len(pass[e].services) /\ Len(pass[e].services) \in Nat
        /\ pass[e].at \in Nat
    BY RouteTypes, LenProperties
  <2>2. Ahead(pass[e].services, pass[e].at) = {}
    BY <1>1, <1>2 DEF PassInv
  <2>3. h # None
    BY NoRouteAssumption
  <2>4. ASSUME NEW i \in wanted PROVE i <= pass[e].at
    BY <2>1, <2>2, <2>3 DEF Ahead
  <2> QED
    BY <2>4 DEF Wanted
<1> HIDE DEF wanted
<1>3. ASSUME pass[e].step = "synced", claimed[h] \subseteq {e}
      PROVE  IF wanted = {} THEN ~Mine(e, h)
             ELSE Mine(e, h) /\ \E i \in wanted : /\ \A j \in wanted : j <= i
                                                 /\ domains[h].repo = pass[e].services[i].repo
  <2>1. Written(e, pass[e].at, h)
    BY <1>1, <1>3 DEF RowInv
  <2> QED
    BY <1>2, <1>3, <2>1 DEF Written
<1>4. ~live[e] /\ faults = 0 => ~Mine(e, h)
  BY <1>1 DEF RowInv
<1> QED
  BY <1>3, <1>4 DEF Mine, wanted

\* The variables keep their types: the counters of the sort among them stay
\* between zero and the number of repositories (graph.go:45-74).
THEOREM Types == Spec => []TypeOK
<1>1. CatalogInv => TypeOK
  BY DEF CatalogInv
<1> QED
  BY <1>1, CatalogInvHolds, PTL

\* No interleaving of addDep, removeDep and renames links a repository to
\* itself (api.go:185-193).
THEOREM NoneOnItself == Spec => []NoSelfDependency
<1>1. CatalogInv => NoSelfDependency
  BY DEF CatalogInv
<1> QED
  BY <1>1, CatalogInvHolds, PTL

\* TopoSort, for every graph and every order of its maps: a plan names each
\* repository once and after all that it depends on (graph.go:42-83).
THEOREM SortedPlans == Spec => []DependenciesFirst
<1>1. CatalogInv => DependenciesFirst
  BY DEF CatalogInv
<1> QED
  BY <1>1, CatalogInvHolds, PTL

\* TopoSort, for every graph: what it refuses has a cycle, as long as the list
\* it read is still that of all repositories (graph.go:79-81).
THEOREM RefusalsAreCycles == Spec => []RefusedForCycle
<1>1. CatalogInv => RefusedForCycle
  BY DEF CatalogInv
<1> QED
  BY <1>1, CatalogInvHolds, PTL

\* Of all actions only Resolve makes a plan.
LEMMA OnlyResolvePlans ==
  ASSUME Next, NEW e \in Envs, plan'[e] # plan[e], plan \in [Envs -> Seq(Services)]
  PROVE  \E pr \in PrLabels : Resolve(e, pr)
<1>1. plan' # plan
  OBVIOUS
<1>2. ~(\E row \in Rows : upsertRepo(row.repo, [name |-> row.name, port |-> row.port]))
  BY <1>1 DEF upsertRepo, ApiStep, planVars
<1>3. ~(\E c \in Clients :
           \/ \E n \in Names :
                 FindFrom(c, "add", n) \/ FindFrom(c, "remove", n) \/ FindTo(c, n)
           \/ Link(c))
  BY <1>1 DEF FindFrom, FindTo, Link, ApiStep, planVars
<1>4. ASSUME NEW f \in Envs
      PROVE  /\ ~(ListNodes(f) \/ ListEdges(f) \/ SortTurn(f) \/ Refuse(f))
             /\ ~(StartPass(f) \/ DeleteRoutes(f) \/ UpsertRoute(f) \/ SyncFails(f) \/ TearDown(f))
  BY <1>1 DEF ListNodes, ListEdges, SortTurn, Refuse, StartPass, DeleteRoutes, UpsertRoute,
              SyncFails, TearDown, RouteStep, planVars
<1>5. PICK f \in Envs, pr \in PrLabels : Resolve(f, pr)
  BY <1>2, <1>3, <1>4 DEF Next
<1>6. f = e
  BY <1>5 DEF Resolve
<1> QED
  BY <1>5, <1>6

\* TopoSort, for every graph: none with a cycle gives a plan, as long as the
\* list it read is still that of all repositories (graph.go:61-82).
THEOREM NoCycleIsPlanned == Spec => CyclesAreRefused
<1>1. ASSUME CatalogInv, Next, NEW e \in Envs, plan'[e] # plan[e],
             DOMAIN resolver[e].nodes = Registered
      PROVE  ~Cyclic(resolver[e].sort.edges)
  <2>1. PICK pr \in PrLabels : Resolve(e, pr)
    BY <1>1, OnlyResolvePlans DEF CatalogInv, TypeOK
  <2>2. /\ resolver[e].step = "sort" /\ resolver[e].sort.ready = <<>>
        /\ Len(resolver[e].sort.out) = Cardinality(Registered)
    BY <1>1, <2>1 DEF Resolve
  <2>3. /\ resolver[e].sort.edges \subseteq Registered \X Registered
        /\ SortInv(Registered, resolver[e].sort) /\ Registered \in SUBSET Repos
    BY <1>1, <2>2 DEF CatalogInv, ResolverInv, Registered
  <2> QED
    BY <2>2, <2>3, SortedIsAcyclic
<1>2. CatalogInv /\ [Next]_vars =>
        [\A e \in Envs : plan'[e] # plan[e] /\ DOMAIN resolver[e].nodes = Registered
            => ~Cyclic(resolver[e].sort.edges)]_vars
  BY <1>1
<1> QED
  BY <1>2, CatalogInvHolds, PTL DEF Spec, CyclesAreRefused

\* syncDomains and tearDown, for any number of environments with hostnames in
\* common: a pass ends with the routes of its topology, and one that is gone
\* has none (reconciler.go:308-346).
THEOREM RoutesEndRight == Spec => []RoutesFollowPlan
<1> QED
  BY SyncedIsWritten, CatalogInvHolds, PTL
=============================================================================
