---------------------------- MODULE LeaseContract ----------------------------
(***************************************************************************)
(* What one Redis lease promises the code that takes it: the key goes from *)
(* one owner to the next only through being free, and a key that nobody    *)
(* can release any more is freed by its TTL. It does not promise that the  *)
(* owner keeps the key until it asks to release it.                        *)
(***************************************************************************)
CONSTANTS Clients,   \* the goroutines that take the lease
          Nobody,    \* the key does not exist
          Orphan     \* the key exists, but no client holds its token

VARIABLE owner

Init == owner = Nobody

Grant(c) == owner = Nobody /\ owner' = c

\* The key was written, but the client never learned so.
Leak == owner = Nobody /\ owner' = Orphan

Release(c) == owner = c /\ owner' = Nobody

\* The owner is gone (it crashed, or its release never reached Redis).
Abandon(c) == owner = c /\ owner' = Orphan

Lapse == owner # Nobody /\ owner' = Nobody

OrphanLapse == owner = Orphan /\ owner' = Nobody

Next == \/ \E c \in Clients : Grant(c) \/ Release(c) \/ Abandon(c)
        \/ Leak
        \/ Lapse

\* What never happens, and with it what must happen in the end.
Safety == Init /\ [][Next]_owner

Spec == Safety /\ WF_owner(OrphanLapse)
=============================================================================
