------------------------------- MODULE Docker -------------------------------
(***************************************************************************)
(* The Docker host, as internal/docker/driver.go changes it: the network   *)
(* of one environment and at most one container per service name. A        *)
(* container carries the generation it was built for: its image tag is the *)
(* commit the topology of that generation chose.                           *)
(***************************************************************************)
EXTENDS Params

VARIABLES ctr,   \* the container of each service
          net    \* whether the environment's network exists

dockerVars == <<ctr, net>>

\* gen 0: no such container. up: running, and not unhealthy.
Containers == [gen : 0..MaxGen, up : BOOLEAN]

Absent == [gen |-> 0, up |-> FALSE]

DockerTypeOK ==
  /\ ctr \in [Services -> Containers]
  /\ net \in BOOLEAN

DockerInit ==
  /\ ctr = [s \in Services |-> Absent]
  /\ net = FALSE

Exists(s) == ctr[s].gen # 0

-----------------------------------------------------------------------------
\* Idempotent: created unless a network of this name is listed.
EnsureNetwork == net' = TRUE /\ UNCHANGED ctr

\* Stop and force-remove the container of that name, if there is one.
RemoveByName(s) == ctr' = [ctr EXCEPT ![s] = Absent] /\ UNCHANGED net

\* ContainerCreate refuses a name in use and a network that does not exist.
CanCreate(s) == net /\ ~Exists(s)

\* ContainerCreate, then ContainerStart (up) or a start that fails (~up).
CreateContainer(s, g, up) ==
  /\ CanCreate(s)
  /\ ctr' = [ctr EXCEPT ![s] = [gen |-> g, up |-> up]]
  /\ UNCHANGED net

\* NetworkRemove is refused while a running container is attached to it.
RemoveNetwork ==
  /\ \/ net' = FALSE /\ \A s \in Services : ~ctr[s].up
     \/ net' = net /\ \E s \in Services : Exists(s)
  /\ UNCHANGED ctr

\* A container exits, or its health check turns unhealthy.
ContainerFails(s) ==
  /\ ctr[s].up
  /\ ctr' = [ctr EXCEPT ![s].up = FALSE]
  /\ UNCHANGED net
=============================================================================
