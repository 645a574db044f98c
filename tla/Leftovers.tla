------------------------------ MODULE Leftovers ------------------------------
(***************************************************************************)
(* A history variable beside the workers' steps: what a call that failed,  *)
(* or a worker that died, has left where no teardown will find it, or in   *)
(* spite of one. Nothing in the program knows about it; CleanWhenDestroyed *)
(* says that nothing else is ever left.                                    *)
(***************************************************************************)
EXTENDS Reconciler

VARIABLE left

\* ctr: services whose container a failure left without its runtime row, or
\* that a teardown failed to remove. net, dom, rr: the last teardown failed to
\* remove the network, the domains or the runtime rows.
LeftTypeOK ==
  left \in [ctr : SUBSET Services, net : BOOLEAN, dom : BOOLEAN, rr : BOOLEAN]

LeftInit == left = [ctr |-> {}, net |-> FALSE, dom |-> FALSE, rr |-> FALSE]

\* The step is a failed call, or the end of the process.
Fails == faults' # faults

Dies(w) == pc'[w] = "idle"

\* The containers that this failure makes a teardown miss: one that was
\* created and not recorded (reconciler.go:270-303), those whose rows could
\* not be read, and one that could not be removed (reconciler.go:331-336).
Missed(w) ==
  {s \in Services :
     \/ /\ s = svc(w) /\ s \notin rr
        /\ \/ pc[w] \in {"create", "track"}
           \/ pc[w] = "running" /\ Dies(w)
     \/ pc[w] \in {"rows", "containers"} /\ ~Dies(w)
          /\ s \in (IF pc[w] = "rows" THEN rr ELSE pass[w].todo) \ pass'[w].todo}

\* What a call leaves of one kind, once it has been tried: all if it failed.
Leaves(w, step, then, before) ==
  IF pc[w] = step /\ pc'[w] = then THEN Fails ELSE before

\* What is left after a step of w. A container is forgotten when it is gone,
\* and when it gets its row.
Remember(w) ==
  left' =
    [ctr |-> {s \in left.ctr \cup (IF Fails THEN Missed(w) ELSE {}) :
                /\ Exists(s)'
                /\ ~(pc[w] = "track" /\ ~Fails /\ s = svc(w))},
     net |-> Leaves(w, "containers", "unroute", left.net),
     dom |-> Leaves(w, "unroute", "untrack", left.dom),
     rr  |-> Leaves(w, "untrack", "mark", left.rr)]
=============================================================================
