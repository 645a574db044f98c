------------------------------ MODULE Catalog ------------------------------
(***************************************************************************)
(* From the registry to the routes: the API requests that register         *)
(* repositories and link them (internal/api/api.go), Resolve, which builds *)
(* the graph in two reads and turns the sorted repositories into services  *)
(* and hostnames (internal/topology/resolver.go), and syncDomains and      *)
(* tearDown, which keep the domains table (internal/reconciler). A         *)
(* hostname is unique in that table, also between environments. Which      *)
(* commit a service runs is Planning's subject, one pass per environment   *)
(* at a time is Lease's.                                                   *)
(***************************************************************************)
EXTENDS Registry, Faults

CONSTANTS Clients,      \* whoever has a request to addDep or removeDep under way
          Envs,         \* environments, each of a feature of its own
          Slug,         \* the feature's slug, the sequence of its words
          LabelOf,      \* HostnameLabel of a name: a word
          EntryNames,   \* "frontend", "web", "app", "ui"
          PrLabels,     \* <<"pr7">>, or <<>> when there is no origin
          Starts,       \* the situations a run starts in
          Rows,         \* the rows asked for in POST /repositories
          MaxRequests,  \* bound: API requests
          MaxPlans      \* bound: plans of an environment

ASSUME NamingAssumption ==
  LabelOf \in [Names -> STRING] /\ EntryNames \subseteq Names
ASSUME CatalogBounds == MaxRequests \in Nat /\ MaxPlans \in Nat

ASSUME RowsAssumption == Rows \subseteq [repo : Repos, name : Names, port : BOOLEAN]

\* A registry with unique names and no dependency of a repository on itself,
\* the environments that are live, and how much of the two bounds is used.
ASSUME StartsAssumption ==
  \A s \in Starts :
    /\ s.repo \in Listings
    /\ \A q, r \in DOMAIN s.repo : s.repo[q].name = s.repo[r].name => q = r
    /\ s.deps \subseteq {d \in (DOMAIN s.repo) \X (DOMAIN s.repo) : d[1] # d[2]}
    /\ s.live \subseteq Envs
    /\ s.requests \in 0..MaxRequests /\ s.plans \in [Envs -> 0..MaxPlans]

VARIABLES request,   \* per client: the addDep or removeDep being handled
          requests,  \* API requests left
          resolver,  \* per environment: where its Resolve is and what it read
          plan,      \* per environment: desired_topology, <<>> before the first
          plans,     \* per environment: plans left
          live,      \* per environment: not destroyed
          pass,      \* per environment: its reconciler's syncDomains
          domains,   \* the table: hostname -> the environment and repository it is for
          claimed    \* history: the environments that ever wrote each hostname

registryVars == <<repo, deps>>
apiVars == <<request, requests>>
planVars == <<resolver, plan, plans>>
routeVars == <<live, pass, domains, claimed>>
vars == <<registryVars, apiVars, planVars, routeVars, faults>>

Suffix(e, pr) == Slug[e] \o pr

\* buildDomains: the hostname without its base domain. Joining with a hyphen
\* is concatenation, so the words of the parts are not told apart.
Hostname(e, pr, n) ==
  IF n \in EntryNames THEN Suffix(e, pr) ELSE <<LabelOf[n]>> \o Suffix(e, pr)

Hostnames == {Hostname(e, pr, n) : e \in Envs, pr \in PrLabels, n \in Names}

Routes == [env : Envs, repo : Repos]
ASSUME NoRouteAssumption == None \notin Routes \cup Hostnames

NoService == [repo |-> None, urls |-> {}, host |-> None]
Services ==
  [repo : Repos, urls : SUBSET Repos, host : Hostnames \cup {None}] \cup {NoService}

Resolvers == [step : {"idle", "edges", "sort", "refused"}, nodes : Listings, sort : Sorts]
Passes == [step : {"none", "delete", "upsert", "synced"},
           services : Seq(Services), at : Nat]

Dependencies == [op : {"add", "remove"}, from : Repos, to : Repos \cup {None}]
NoRequest == [op |-> "none", from |-> None, to |-> None]
NoResolver == [step |-> "idle", nodes |-> <<>>, sort |-> NoSort]
NoPass == [step |-> "none", services |-> <<>>, at |-> 0]

TypeOK ==
  /\ RegistryTypeOK
  /\ FaultsTypeOK
  /\ request \in [Clients -> Dependencies \cup {NoRequest}]
  /\ requests \in 0..MaxRequests
  /\ resolver \in [Envs -> Resolvers]
  /\ plan \in [Envs -> Seq(Services)]
  /\ pass \in [Envs -> Passes]
  /\ plans \in [Envs -> 0..MaxPlans]
  /\ live \in [Envs -> BOOLEAN]
  /\ domains \in [Hostnames -> {None} \cup Routes]
  /\ claimed \in [Hostnames -> SUBSET Envs]

Init ==
  /\ \E s \in Starts :
       /\ repo = [r \in Repos |-> IF r \in DOMAIN s.repo THEN s.repo[r] ELSE NoRow]
       /\ deps = s.deps
       /\ live = [e \in Envs |-> e \in s.live]
       /\ requests = s.requests
       /\ plans = s.plans
  /\ request = [c \in Clients |-> NoRequest]
  /\ resolver = [e \in Envs |-> NoResolver]
  /\ plan = [e \in Envs |-> <<>>]
  /\ pass = [e \in Envs |-> NoPass]
  /\ domains = [h \in Hostnames |-> None]
  /\ claimed = [h \in Hostnames |-> {}]
  /\ FaultsInit

-----------------------------------------------------------------------------
ApiStep == UNCHANGED <<planVars, routeVars>> /\ NoFault

NewRequest == requests > 0 /\ requests' = requests - 1

\* POST /repositories.
upsertRepo(r, row) ==
  /\ NewRequest
  /\ Upsert(r, row)
  /\ ApiStep
  /\ UNCHANGED <<deps, request>>

\* The request of c is looked up further, or answered.
Handled(c, q) == request' = [request EXCEPT ![c] = q]

\* Mutant of FindFrom: the handler goes on when there is no such repository.
FindFrom_NoCheck(c, op, n) ==
  /\ request[c] = NoRequest
  /\ NewRequest
  /\ Handled(c, [op |-> op, from |-> GetByName(n), to |-> None])
  /\ ApiStep
  /\ UNCHANGED registryVars

\* addDep and removeDep look the two names up one after the other.
FindFrom(c, op, n) ==
  /\ request[c] = NoRequest
  /\ NewRequest
  /\ GetByName(n) # None
  /\ Handled(c, [op |-> op, from |-> GetByName(n), to |-> None])
  /\ ApiStep
  /\ UNCHANGED registryVars

\* Mutant of FindTo: addDep does not compare the two.
FindTo_Unchecked(c, n) ==
  /\ request[c].op # "none" /\ request[c].to = None
  /\ Handled(c, IF GetByName(n) = None THEN NoRequest
                ELSE [request[c] EXCEPT !.to = GetByName(n)])
  /\ ApiStep
  /\ UNCHANGED <<registryVars, requests>>

\* The second look-up. Only addDep refuses a repository as its own dependency.
FindTo(c, n) ==
  /\ request[c].op # "none" /\ request[c].to = None
  /\ LET to == GetByName(n)
         refused == to = None \/ (request[c].op = "add" /\ to = request[c].from)
     IN Handled(c, IF refused THEN NoRequest ELSE [request[c] EXCEPT !.to = to])
  /\ ApiStep
  /\ UNCHANGED <<registryVars, requests>>

\* The one statement of addDep or removeDep, and its reply.
Link(c) ==
  /\ request[c].to # None
  /\ IF request[c].op = "add" THEN AddDependency(request[c].from, request[c].to)
                              ELSE RemoveDependency(request[c].from, request[c].to)
  /\ Handled(c, NoRequest)
  /\ ApiStep
  /\ UNCHANGED <<repo, requests>>

-----------------------------------------------------------------------------
PlanStep == UNCHANGED <<registryVars, apiVars, routeVars>> /\ NoFault

Resolving(e, step, nodes, sort) ==
  resolver' = [resolver EXCEPT ![e] = [step |-> step, nodes |-> nodes, sort |-> sort]]

\* Build, first half: the repositories.
ListNodes(e) ==
  /\ resolver[e].step \in {"idle", "refused"}
  /\ live[e] /\ plans[e] > 0
  /\ Resolving(e, "edges", List, NoSort)
  /\ PlanStep
  /\ UNCHANGED <<plan, plans>>

\* Build, second half, and TopoSort up to its loop.
ListEdges(e) ==
  /\ resolver[e].step = "edges"
  /\ \E sort \in SortStarts(DOMAIN resolver[e].nodes, deps) :
       Resolving(e, "sort", resolver[e].nodes, sort)
  /\ PlanStep
  /\ UNCHANGED <<plan, plans>>

\* A turn of TopoSort's loop.
SortTurn(e) ==
  /\ resolver[e].step = "sort" /\ resolver[e].sort.ready # <<>>
  /\ \E sort \in SortTurns(resolver[e].sort) : Resolving(e, "sort", resolver[e].nodes, sort)
  /\ PlanStep
  /\ UNCHANGED <<plan, plans>>

\* TopoSort returns, "dependency cycle detected".
Refuse(e) ==
  LET sort == resolver[e].sort IN
  /\ resolver[e].step = "sort" /\ sort.ready = <<>>
  /\ Len(sort.out) # Cardinality(DOMAIN resolver[e].nodes)
  /\ Resolving(e, "refused", resolver[e].nodes, [NoSort EXCEPT !.edges = sort.edges])
  /\ PlanStep
  /\ UNCHANGED <<plan, plans>>

\* The second pass of Resolve, buildServiceEnv and buildDomains: one service
\* for each repository of the order, with the URLs of its dependencies. A
\* repository that List has not seen is the zero value of graph.Nodes.
Service(e, pr, nodes, edges, r) ==
  IF r \notin DOMAIN nodes THEN NoService
  ELSE [repo |-> r,
        urls |-> {d \in DOMAIN nodes : <<r, d>> \in edges},
        host |-> IF nodes[r].port THEN Hostname(e, pr, nodes[r].name) ELSE None]

\* Mutant of Resolve: it does not count what TopoSort returns.
Resolve_Uncounted(e, pr) ==
  LET nodes == resolver[e].nodes
      sort == resolver[e].sort IN
  /\ resolver[e].step = "sort" /\ sort.ready = <<>>
  /\ plan' = [plan EXCEPT ![e] =
                [i \in DOMAIN sort.out |-> Service(e, pr, nodes, sort.edges, sort.out[i])]]
  /\ plans' = [plans EXCEPT ![e] = @ - 1]
  /\ resolver' = [resolver EXCEPT ![e] = NoResolver]
  /\ PlanStep

\* TopoSort returns an order, and what is made of it. Storing the topology
\* (BumpGeneration) comes later in the code, and nothing here reads the
\* registry again, so that one step stands for both.
Resolve(e, pr) ==
  LET nodes == resolver[e].nodes
      sort == resolver[e].sort IN
  /\ resolver[e].step = "sort" /\ sort.ready = <<>>
  /\ Len(sort.out) = Cardinality(DOMAIN nodes)
  /\ plan' = [plan EXCEPT ![e] =
                [i \in DOMAIN sort.out |-> Service(e, pr, nodes, sort.edges, sort.out[i])]]
  /\ plans' = [plans EXCEPT ![e] = @ - 1]
  /\ resolver' = [resolver EXCEPT ![e] = NoResolver]
  /\ PlanStep

-----------------------------------------------------------------------------
RouteStep == UNCHANGED <<registryVars, apiVars, planVars>>

\* The services whose hostnames syncDomains has still to write: those after
\* the one it is at. buildDomains leaves out what exposes no port.
Ahead(services, at) == {i \in DOMAIN services : i > at /\ services[i].host # None}

\* A pass reads the topology; syncDomains comes after the containers.
StartPass(e) ==
  /\ pass[e].step \in {"none", "synced"}
  /\ live[e] /\ plan[e] # <<>>
  /\ pass' = [pass EXCEPT ![e] = [step |-> "delete", services |-> plan[e], at |-> 0]]
  /\ NoFault
  /\ RouteStep
  /\ UNCHANGED <<live, domains, claimed>>

DeleteForEnv(e) ==
  domains' = [h \in Hostnames |->
                IF domains[h] # None /\ domains[h].env = e THEN None ELSE domains[h]]

DeleteRoutes(e) ==
  /\ pass[e].step = "delete"
  /\ DeleteForEnv(e)
  /\ pass' = [pass EXCEPT ![e].step =
                IF Ahead(pass[e].services, 0) = {} THEN "synced" ELSE "upsert"]
  /\ NoFault
  /\ RouteStep
  /\ UNCHANGED <<live, claimed>>

\* Mutant of UpsertDomain: a hostname that is there is left as it is.
UpsertDomain_DoNothing(e, s) ==
  domains' = IF domains[s.host] = None
               THEN [domains EXCEPT ![s.host] = [env |-> e, repo |-> s.repo]]
               ELSE domains

\* DomainStore.Upsert: ON CONFLICT (hostname) the row changes hands.
UpsertDomain(e, s) == domains' = [domains EXCEPT ![s.host] = [env |-> e, repo |-> s.repo]]

UpsertRoute(e) ==
  LET services == pass[e].services IN
  /\ pass[e].step = "upsert"
  /\ \E i \in Ahead(services, pass[e].at) :
       /\ \A j \in Ahead(services, pass[e].at) : i <= j
       /\ UpsertDomain(e, services[i])
       /\ claimed' = [claimed EXCEPT ![services[i].host] = @ \cup {e}]
       /\ pass' = [pass EXCEPT ![e].at = i,
            ![e].step = IF Ahead(services, i) = {} THEN "synced" ELSE "upsert"]
  /\ NoFault
  /\ RouteStep
  /\ UNCHANGED live

\* A statement fails: the pass logs it and goes on without the other routes.
SyncFails(e) ==
  /\ pass[e].step \in {"delete", "upsert"}
  /\ Fault("db")
  /\ pass' = [pass EXCEPT ![e] = NoPass]
  /\ RouteStep
  /\ UNCHANGED <<live, domains, claimed>>

\* tearDown drops the error of DeleteForEnv.
TearDown(e) ==
  /\ live[e]
  /\ pass[e].step \in {"none", "synced"}
  /\ live' = [live EXCEPT ![e] = FALSE]
  /\ pass' = [pass EXCEPT ![e] = NoPass]
  /\ \/ DeleteForEnv(e) /\ NoFault
     \/ Fault("db") /\ UNCHANGED domains
  /\ RouteStep
  /\ UNCHANGED claimed

Next ==
  \/ \E row \in Rows : upsertRepo(row.repo, [name |-> row.name, port |-> row.port])
  \/ \E c \in Clients :
        \/ \E n \in Names :
              FindFrom(c, "add", n) \/ FindFrom(c, "remove", n) \/ FindTo(c, n)
        \/ Link(c)
  \/ \E e \in Envs :
        \/ ListNodes(e) \/ ListEdges(e) \/ SortTurn(e) \/ Refuse(e)
        \/ (\E pr \in PrLabels : Resolve(e, pr))
        \/ StartPass(e) \/ DeleteRoutes(e) \/ UpsertRoute(e) \/ SyncFails(e)
        \/ TearDown(e)

Spec == Init /\ [][Next]_vars

-----------------------------------------------------------------------------
\* A repository is never its own dependency, though a rename between the two
\* look-ups of addDep can give both names to one repository (api.go:185-193):
\* it would be a cycle that no call of the API could be blamed for.
NoSelfDependency == \A d \in deps : d[1] # d[2]

\* A stored plan names each repository once, and every URL it injects is that
\* of a service that comes before, whatever was registered and linked between
\* the two reads of Build (graph.go:23-40, resolver.go:154-172).
DependenciesFirst ==
  \A e \in Envs : \A i \in DOMAIN plan[e] :
    /\ plan[e][i].repo # None =>
         \A j \in DOMAIN plan[e] : plan[e][j].repo = plan[e][i].repo => j = i
    /\ plan[e][i].urls \subseteq {plan[e][j].repo : j \in 1..(i - 1)}

\* "dependency cycle detected" (graph.go:79) is true, unless a repository was
\* registered after the list was read.
RefusedForCycle ==
  \A e \in Envs :
    resolver[e].step = "refused" /\ DOMAIN resolver[e].nodes = Registered
      => Cyclic(resolver[e].sort.edges)

\* And the other way round, with the same exception: no topology is planned
\* from a graph with a cycle, wherever in the graph it is. "Returns an error if
\* a cycle is detected" (graph.go:43) makes no exception, but the loop's order
\* is only counted, and repositories that List has not seen count as well.
CyclesAreRefused ==
  [][\A e \in Envs :
       plan'[e] # plan[e] /\ DOMAIN resolver[e].nodes = Registered
         => ~Cyclic(resolver[e].sort.edges)]_vars

\* After a pass (syncDomains, reconciler.go:308-324) the environment has, of
\* the hostnames that no other environment has ever written, exactly those of
\* the topology it read, each for the last service that claims it; and one
\* that is gone has none, unless the statement failed that should remove them.
RoutesFollowPlan ==
  \A e \in Envs : \A h \in Hostnames :
    LET wanted == {i \in DOMAIN pass[e].services : pass[e].services[i].host = h}
        mine == domains[h] # None /\ domains[h].env = e
    IN /\ pass[e].step = "synced" /\ claimed[h] \subseteq {e} =>
            IF wanted = {} THEN ~mine
            ELSE mine /\ \E i \in wanted : /\ \A j \in wanted : j <= i
                                          /\ domains[h].repo = pass[e].services[i].repo
       /\ ~live[e] /\ faults = 0 => ~mine
=============================================================================
