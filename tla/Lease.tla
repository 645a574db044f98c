-------------------------------- MODULE Lease --------------------------------
(***************************************************************************)
(* internal/locks/locks.go: one lease key in Redis and the clients that    *)
(* take it. Every lock of the program (the per-environment deploy lock and *)
(* the per-feature plan lock) is one key of this kind, and keys do not     *)
(* interact. Time is a countdown: Tick lets one unit pass for the TTL that *)
(* Redis keeps and for the deadline of AcquireWait.                        *)
(***************************************************************************)
EXTENDS Naturals, FiniteSets

CONSTANTS Clients,   \* the goroutines that use the key
          Tokens,    \* the tokens that rand.Read can produce
          NoToken,   \* the key is absent; the client has no *Lock
          TTL,       \* ttl of Acquire, in ticks
          MaxWait    \* wait of AcquireWait, in ticks

ASSUME TTLAssumption == TTL \in Nat \ {0}
ASSUME WaitAssumption == MaxWait \in Nat
ASSUME TokenAssumption == NoToken \notin Tokens

VARIABLES store,     \* the value of the key in Redis
          ttl,       \* what is left of its TTL
          handle,    \* the token of the *Lock each client has
          mode,      \* what each client is doing
          wait,      \* what is left until the deadline of its AcquireWait
          lease      \* what is left of the TTL the client last obtained

vars == <<store, ttl, handle, mode, wait, lease>>

TypeOK ==
  /\ store \in Tokens \cup {NoToken}
  /\ ttl \in 0..TTL
  /\ handle \in [Clients -> Tokens \cup {NoToken}]
  /\ mode \in [Clients -> {"idle", "waiting", "holding"}]
  /\ wait \in [Clients -> 0..MaxWait]
  /\ lease \in [Clients -> 0..TTL]

Init ==
  /\ store = NoToken
  /\ ttl = 0
  /\ handle = [c \in Clients |-> NoToken]
  /\ mode = [c \in Clients |-> "idle"]
  /\ wait = [c \in Clients |-> 0]
  /\ lease = [c \in Clients |-> 0]

-----------------------------------------------------------------------------
\* 16 random bytes: the token drawn is none of those in use.
token(t) ==
  /\ t \in Tokens
  /\ t # store
  /\ \A c \in Clients : handle[c] # t

\* Mutant of SetNX: the key is set without its PX.
SetNX_NoExpiry(t) ==
  /\ store = NoToken
  /\ token(t)
  /\ store' = t
  /\ ttl' = 0

\* Mutant of SetNX: the TTL is one unit too long.
SetNX_LongTTL(t) ==
  /\ store = NoToken
  /\ token(t)
  /\ store' = t
  /\ ttl' = TTL + 1

\* SET key token NX PX ttl, on the server.
SetNX(t) ==
  /\ store = NoToken
  /\ token(t)
  /\ store' = t
  /\ ttl' = TTL

\* Acquire, called directly or by an attempt of AcquireWait.
Acquire(c) ==
  /\ mode[c] # "holding"
  /\ \E t \in Tokens :
        /\ SetNX(t)
        /\ handle' = [handle EXCEPT ![c] = t]
  /\ mode' = [mode EXCEPT ![c] = "holding"]
  /\ lease' = [lease EXCEPT ![c] = TTL]
  /\ wait' = [wait EXCEPT ![c] = 0]

\* The key was set, but the reply was lost: the caller gets an error that is
\* not ErrLocked, also out of AcquireWait.
AcquireReplyLost(c) ==
  /\ mode[c] # "holding"
  /\ \E t \in Tokens : SetNX(t)
  /\ mode' = [mode EXCEPT ![c] = "idle"]
  /\ wait' = [wait EXCEPT ![c] = 0]
  /\ UNCHANGED <<handle, lease>>

\* The first attempt of AcquireWait met a key that is taken.
AcquireWait(c) ==
  /\ mode[c] = "idle"
  /\ store # NoToken
  /\ mode' = [mode EXCEPT ![c] = "waiting"]
  /\ wait' = [wait EXCEPT ![c] = MaxWait]
  /\ UNCHANGED <<store, ttl, handle, lease>>

\* Mutant of GiveUp: the deadline is looked at only when the key is free.
GiveUp_OnlyWhenFree(c) ==
  /\ mode[c] = "waiting"
  /\ wait[c] = 0
  /\ store = NoToken
  /\ mode' = [mode EXCEPT ![c] = "idle"]
  /\ UNCHANGED <<store, ttl, handle, wait, lease>>

\* An attempt fails after the deadline: ErrLocked.
GiveUp(c) ==
  /\ mode[c] = "waiting"
  /\ wait[c] = 0
  /\ store # NoToken
  /\ mode' = [mode EXCEPT ![c] = "idle"]
  /\ UNCHANGED <<store, ttl, handle, wait, lease>>

\* ctx is done while the client sleeps between two attempts.
CancelWait(c) ==
  /\ mode[c] = "waiting"
  /\ mode' = [mode EXCEPT ![c] = "idle"]
  /\ wait' = [wait EXCEPT ![c] = 0]
  /\ UNCHANGED <<store, ttl, handle, lease>>

\* get = token => pexpire; otherwise the script returns 0, which is no error.
Refresh(c) ==
  /\ mode[c] = "holding"
  /\ store = handle[c]
  /\ ttl' = TTL
  /\ lease' = [lease EXCEPT ![c] = TTL]
  /\ UNCHANGED <<store, handle, mode, wait>>

\* The client is done with its *Lock, whatever the script found.
Forget(c) ==
  /\ mode[c] = "holding"
  /\ mode' = [mode EXCEPT ![c] = "idle"]
  /\ handle' = [handle EXCEPT ![c] = NoToken]
  /\ lease' = [lease EXCEPT ![c] = 0]
  /\ UNCHANGED wait

\* Mutant of Release: del without the comparison.
Release_NoCompare(c) ==
  /\ Forget(c)
  /\ store' = NoToken
  /\ ttl' = 0

\* get = token => del, as one script.
Release(c) ==
  /\ Forget(c)
  /\ IF store = handle[c]
       THEN store' = NoToken /\ ttl' = 0
       ELSE UNCHANGED <<store, ttl>>

\* The process dies, or the script never reaches Redis (ctx cancelled).
Abandon(c) ==
  /\ Forget(c)
  /\ UNCHANGED <<store, ttl>>

\* One unit of time: Redis deletes a key whose TTL runs out.
Tick ==
  /\ \/ ttl > 0
     \/ \E c \in Clients : wait[c] > 0
  /\ ttl' = IF ttl > 0 THEN ttl - 1 ELSE 0
  /\ store' = IF ttl > 1 THEN store ELSE NoToken
  /\ wait' = [c \in Clients |-> IF wait[c] > 0 THEN wait[c] - 1 ELSE 0]
  /\ lease' = [c \in Clients |-> IF lease[c] > 0 THEN lease[c] - 1 ELSE 0]
  /\ UNCHANGED <<handle, mode>>

Next ==
  \/ \E c \in Clients :
        \/ Acquire(c) \/ AcquireReplyLost(c)
        \/ AcquireWait(c) \/ GiveUp(c) \/ CancelWait(c)
        \/ Refresh(c) \/ Release(c) \/ Abandon(c)
  \/ Tick

\* Time passes; a holder is done at some point (every caller defers Release);
\* a waiter tries again every 200ms.
Fairness ==
  /\ WF_vars(Tick)
  /\ \A c \in Clients :
        /\ WF_vars(Release(c))
        /\ WF_vars(mode[c] = "waiting" /\ (Acquire(c) \/ GiveUp(c)))

Spec == Init /\ [][Next]_vars /\ Fairness

-----------------------------------------------------------------------------
\* While the TTL a client obtained has not run out, the key holds its token.
LeaseIsKey == \A c \in Clients : lease[c] > 0 => store = handle[c] /\ lease[c] = ttl

\* Two clients never have a lease that has not run out at the same time
\* ("make sure two workers don't concurrently mutate", locks.go:2-3): it
\* takes an expiry, a late release and a new acquire to get this wrong.
MutualExclusion ==
  \A c, d \in Clients : lease[c] > 0 /\ lease[d] > 0 => c = d

\* A key is taken away only from the client that gives it up, or by its TTL:
\* a holder that comes back after its lease expired does not drop the lock of
\* the client that has it now ("only release if the token still matches").
OnlyOwnerDrops ==
  [][\A c \in Clients :
        handle[c] # NoToken /\ store = handle[c] /\ store' # store
          => handle'[c] = NoToken \/ ttl = 1]_vars

\* A caller of AcquireWait gets the lock or an error, however often others
\* take the lock in between (locks.go:50, "retries until the deadline").
WaiterReturns ==
  \A c \in Clients : mode[c] = "waiting" ~> mode[c] # "waiting"

\* The lease implements its contract: the owner is the client whose token is
\* in the key.
owner ==
  IF store = NoToken THEN "nobody"
  ELSE IF \E c \in Clients : handle[c] = store
       THEN CHOOSE c \in Clients : handle[c] = store
       ELSE "orphan"

Contract == INSTANCE LeaseContract WITH Nobody <- "nobody", Orphan <- "orphan"

\* A taken key passes to another client only by being free in between, and a
\* key that no live client can release is freed by its TTL (locks.go:34-48).
ImplementsContract == Contract!Spec
=============================================================================
