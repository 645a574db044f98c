----------------------------- MODULE LeaseProofs -----------------------------
(***************************************************************************)
(* Proofs about the lease of internal/locks/locks.go, for any number of    *)
(* clients, any TTL and any deadline.                                      *)
(***************************************************************************)
EXTENDS Lease, TLAPS

USE TTLAssumption, WaitAssumption, TokenAssumption

\* The store, the handles, the modes and the countdowns keep their types.
THEOREM TypeCorrect == Spec => []TypeOK
<1>1. Init => TypeOK
  BY DEF Init, TypeOK
<1>2. TypeOK /\ [Next]_vars => TypeOK'
  <2> SUFFICES ASSUME TypeOK, [Next]_vars
               PROVE  TypeOK'
    OBVIOUS
  <2>1. ASSUME NEW c \in Clients, Acquire(c)
        PROVE  TypeOK'
    BY <2>1 DEF TypeOK, Acquire, SetNX, token
  <2>2. ASSUME NEW c \in Clients, AcquireReplyLost(c)
        PROVE  TypeOK'
    BY <2>2 DEF TypeOK, AcquireReplyLost, SetNX, token
  <2>3. ASSUME NEW c \in Clients, AcquireWait(c)
        PROVE  TypeOK'
    BY <2>3 DEF TypeOK, AcquireWait
  <2>4. ASSUME NEW c \in Clients, GiveUp(c) \/ CancelWait(c)
        PROVE  TypeOK'
    BY <2>4 DEF TypeOK, GiveUp, CancelWait
  <2>5. ASSUME NEW c \in Clients, Refresh(c)
        PROVE  TypeOK'
    BY <2>5 DEF TypeOK, Refresh
  <2>6. ASSUME NEW c \in Clients, Release(c) \/ Abandon(c)
        PROVE  TypeOK'
    BY <2>6 DEF TypeOK, Release, Abandon, Forget
  <2>7. CASE Tick
    BY <2>7 DEF TypeOK, Tick
  <2>8. CASE UNCHANGED vars
    BY <2>8 DEF TypeOK, vars
  <2> QED
    BY <2>1, <2>2, <2>3, <2>4, <2>5, <2>6, <2>7, <2>8 DEF Next
<1> QED
  BY <1>1, <1>2, PTL DEF Spec

-----------------------------------------------------------------------------
\* The inductive invariant: a handle is held by one client only; a client with
\* TTL left is the one whose token is in the key, and Redis and the client
\* agree on what is left. A key that is there has TTL left, and a client
\* without a handle holds nothing and has no lease.
DistinctHandles ==
  \A c, d \in Clients :
    handle[c] = handle[d] /\ handle[c] # NoToken => c = d

LeaseInv ==
  /\ TypeOK
  /\ DistinctHandles
  /\ LeaseIsKey
  /\ store # NoToken <=> ttl > 0
  /\ \A c \in Clients :
        mode[c] = "holding" \/ lease[c] > 0 => handle[c] # NoToken

\* The lease of a client that has not run out is the key itself, in every
\* reachable state: the strengthening that mutual exclusion rests on.
THEOREM LeaseInvariant == Spec => []LeaseInv
<1>1. Init => LeaseInv
  BY DEF Init, LeaseInv, TypeOK, DistinctHandles, LeaseIsKey
<1>2. LeaseInv /\ TypeOK' /\ [Next]_vars => LeaseInv'
  <2> SUFFICES ASSUME LeaseInv, TypeOK', [Next]_vars
               PROVE  LeaseInv'
    OBVIOUS
  <2> USE DEF LeaseInv
  <2>1. ASSUME NEW c \in Clients, Acquire(c)
        PROVE  LeaseInv'
    <3>1. PICK t \in Tokens : /\ SetNX(t)
                              /\ handle' = [handle EXCEPT ![c] = t]
      BY <2>1 DEF Acquire
    <3>2. DistinctHandles'
      BY <3>1 DEF DistinctHandles, SetNX, token, TypeOK
    <3>3. \A d \in Clients : lease[d] = 0
      BY <3>1 DEF SetNX, LeaseIsKey, TypeOK
    <3> QED
      BY <2>1, <3>1, <3>2, <3>3 DEF Acquire, SetNX, LeaseIsKey, TypeOK
  <2>2. ASSUME NEW c \in Clients, AcquireReplyLost(c)
        PROVE  LeaseInv'
    <3>1. PICK t \in Tokens : SetNX(t)
      BY <2>2 DEF AcquireReplyLost
    <3>2. \A d \in Clients : lease[d] = 0
      BY <3>1 DEF SetNX, LeaseIsKey, TypeOK
    <3>3. store' # NoToken /\ ttl' > 0
      BY <3>1 DEF SetNX
    <3>4. \A d \in Clients : mode'[d] = "holding" => mode[d] = "holding"
      BY <2>2 DEF AcquireReplyLost, TypeOK
    <3>5. handle' = handle /\ lease' = lease
      BY <2>2 DEF AcquireReplyLost
    <3>6. DistinctHandles' /\ LeaseIsKey'
      BY <3>2, <3>5 DEF LeaseIsKey, DistinctHandles
    <3>7. \A d \in Clients : mode'[d] = "holding" \/ lease'[d] > 0 => handle'[d] # NoToken
      BY <3>2, <3>4, <3>5
    <3> QED
      BY <3>3, <3>6, <3>7
  <2>3. ASSUME NEW c \in Clients, AcquireWait(c) \/ GiveUp(c) \/ CancelWait(c)
        PROVE  LeaseInv'
    BY <2>3 DEF AcquireWait, GiveUp, CancelWait, LeaseIsKey, DistinctHandles, TypeOK
  <2>4. ASSUME NEW c \in Clients, Refresh(c)
        PROVE  LeaseInv'
    <3>1. \A d \in Clients : lease[d] > 0 => d = c
      BY <2>4 DEF Refresh, LeaseIsKey, DistinctHandles, TypeOK
    <3> QED
      BY <2>4, <3>1 DEF Refresh, LeaseIsKey, DistinctHandles, TypeOK
  <2>5. ASSUME NEW c \in Clients, Release(c)
        PROVE  LeaseInv'
    <3>1. \A d \in Clients \ {c} : store = handle[c] => lease[d] = 0
      BY <2>5 DEF LeaseIsKey, DistinctHandles, TypeOK
    <3> QED
      BY <2>5, <3>1 DEF Release, Forget, LeaseIsKey, DistinctHandles, TypeOK
  <2>6. ASSUME NEW c \in Clients, Abandon(c)
        PROVE  LeaseInv'
    BY <2>6 DEF Abandon, Forget, LeaseIsKey, DistinctHandles, TypeOK
  <2>7. CASE Tick
    BY <2>7 DEF Tick, LeaseIsKey, DistinctHandles, TypeOK
  <2>8. CASE UNCHANGED vars
    BY <2>8 DEF vars, LeaseIsKey, DistinctHandles
  <2> QED
    BY <2>1, <2>2, <2>3, <2>4, <2>5, <2>6, <2>7, <2>8 DEF Next
<1> QED
  BY <1>1, <1>2, TypeCorrect, PTL DEF Spec

\* Two clients never have an unexpired lease at the same time, whatever
\* expires, crashes, or is released late (locks.go:2-3).
THEOREM LeaseExclusion == Spec => []MutualExclusion
<1>1. LeaseInv => MutualExclusion
  BY DEF LeaseInv, LeaseIsKey, DistinctHandles, MutualExclusion
<1> QED
  BY <1>1, LeaseInvariant, PTL

\* A key is removed only by the client whose token it is, or by its TTL
\* (locks.go:19-20, 85-95).
THEOREM OwnerDrops == Spec => OnlyOwnerDrops
<1> DEFINE Drop == \A c \in Clients :
                     handle[c] # NoToken /\ store = handle[c] /\ store' # store
                       => handle'[c] = NoToken \/ ttl = 1
<1>1. LeaseInv /\ [Next]_vars => [Drop]_vars
  <2> SUFFICES ASSUME LeaseInv, Next,
                      NEW c \in Clients, handle[c] # NoToken,
                      store = handle[c], store' # store
               PROVE  handle'[c] = NoToken \/ ttl = 1
    BY DEF Drop
  <2> USE DEF LeaseInv, TypeOK
  <2>1. ASSUME NEW d \in Clients, Acquire(d) \/ AcquireReplyLost(d)
        PROVE  FALSE
    BY <2>1 DEF Acquire, AcquireReplyLost, SetNX
  <2>2. ASSUME NEW d \in Clients, Release(d)
        PROVE  handle'[c] = NoToken
    BY <2>2 DEF Release, Forget, DistinctHandles
  <2>3. ASSUME NEW d \in Clients,
               AcquireWait(d) \/ GiveUp(d) \/ CancelWait(d) \/ Refresh(d) \/ Abandon(d)
        PROVE  FALSE
    BY <2>3 DEF AcquireWait, GiveUp, CancelWait, Refresh, Abandon
  <2>4. CASE Tick
    BY <2>4 DEF Tick
  <2> QED
    BY <2>1, <2>2, <2>3, <2>4 DEF Next
<1> QED
  BY <1>1, LeaseInvariant, PTL DEF Spec, OnlyOwnerDrops

-----------------------------------------------------------------------------
(* The lease implements its contract.                                      *)

\* The owner that the contract sees: the client with the key's token, which
\* no other client has.
LEMMA OwnerIs ==
  ASSUME LeaseInv
  PROVE  /\ store = NoToken => owner = "nobody"
         /\ \A c \in Clients : store # NoToken /\ handle[c] = store => owner = c
         /\ store # NoToken /\ (\A c \in Clients : handle[c] # store) => owner = "orphan"
BY DEF LeaseInv, DistinctHandles, owner

\* The same, after a step.
LEMMA OwnerBecomes ==
  ASSUME LeaseInv'
  PROVE  /\ store' = NoToken => owner' = "nobody"
         /\ \A c \in Clients : store' # NoToken /\ handle'[c] = store' => owner' = c
         /\ store' # NoToken /\ (\A c \in Clients : handle'[c] # store') => owner' = "orphan"
BY DEF LeaseInv, DistinctHandles, owner

\* Every step of the lease is a step of the contract or leaves the owner as
\* it is.
LEMMA StepContract ==
  ASSUME LeaseInv, LeaseInv', [Next]_vars
  PROVE  [Contract!Next]_owner
<1> USE DEF Contract!Next
<1>0. handle \in [Clients -> Tokens \cup {NoToken}]
  BY DEF LeaseInv, TypeOK
<1>1. ASSUME NEW c \in Clients, Acquire(c)
      PROVE  Contract!Grant(c)
  <2>1. PICK t \in Tokens : SetNX(t) /\ handle' = [handle EXCEPT ![c] = t]
    BY <1>1 DEF Acquire
  <2>2. store = NoToken /\ store' # NoToken /\ handle'[c] = store'
    BY <1>0, <2>1, TokenAssumption DEF SetNX
  <2> QED
    BY <2>2, OwnerIs, OwnerBecomes DEF Contract!Grant
<1>2. ASSUME NEW c \in Clients, AcquireReplyLost(c)
      PROVE  Contract!Leak
  <2>1. PICK t \in Tokens : SetNX(t) /\ UNCHANGED handle
    BY <1>2 DEF AcquireReplyLost
  <2>2. /\ store = NoToken /\ store' # NoToken
        /\ \A d \in Clients : handle'[d] # store'
    BY <2>1, TokenAssumption DEF SetNX, token
  <2> QED
    BY <2>2, OwnerIs, OwnerBecomes DEF Contract!Leak
<1>3. ASSUME UNCHANGED <<store, handle>>
      PROVE  UNCHANGED owner
  BY <1>3 DEF owner
<1>4. ASSUME NEW c \in Clients,
             AcquireWait(c) \/ GiveUp(c) \/ CancelWait(c) \/ Refresh(c)
      PROVE  UNCHANGED owner
  BY <1>3, <1>4 DEF AcquireWait, GiveUp, CancelWait, Refresh
<1>5. ASSUME NEW c \in Clients, Forget(c), store = handle[c]
      PROVE  owner = c /\ \A d \in Clients : handle'[d] # store
  <2>1. handle[c] # NoToken
    BY <1>5 DEF Forget, LeaseInv
  <2> QED
    BY <1>0, <1>5, <2>1, OwnerIs DEF Forget, LeaseInv, DistinctHandles
<1>6. ASSUME NEW c \in Clients, Forget(c), store # handle[c], UNCHANGED store
      PROVE  UNCHANGED owner
  <2>1. /\ \A d \in Clients \ {c} : handle'[d] = handle[d]
        /\ handle'[c] = NoToken
    BY <1>0, <1>6 DEF Forget
  <2>2. CASE store = NoToken
    BY <1>6, <2>2, OwnerIs, OwnerBecomes
  <2>3. CASE store # NoToken /\ \E d \in Clients : handle[d] = store
    <3>1. PICK d \in Clients : handle[d] = store
      BY <2>3
    <3>2. handle'[d] = store'
      BY <1>6, <2>1, <3>1
    <3> QED
      BY <1>6, <2>3, <3>1, <3>2, OwnerIs, OwnerBecomes
  <2>4. CASE store # NoToken /\ \A d \in Clients : handle[d] # store
    <3>1. \A d \in Clients : handle'[d] # store'
      BY <1>6, <2>1, <2>4
    <3> QED
      BY <1>6, <2>4, <3>1, OwnerIs, OwnerBecomes
  <2> QED
    BY <2>2, <2>3, <2>4
<1>7. ASSUME NEW c \in Clients, Release(c)
      PROVE  Contract!Release(c) \/ UNCHANGED owner
  <2>1. CASE store = handle[c]
    BY <1>5, <1>7, <2>1, OwnerBecomes DEF Release, Contract!Release
  <2> QED
    BY <1>6, <1>7, <2>1 DEF Release
<1>8. ASSUME NEW c \in Clients, Abandon(c)
      PROVE  Contract!Abandon(c) \/ UNCHANGED owner
  <2>1. CASE store = handle[c]
    <3>1. store # NoToken
      BY <1>8, <2>1 DEF Abandon, Forget, LeaseInv
    <3> QED
      BY <1>5, <1>8, <2>1, <3>1, OwnerBecomes DEF Abandon, Contract!Abandon
  <2> QED
    BY <1>6, <1>8, <2>1 DEF Abandon
<1>9. CASE Tick
  <2>1. CASE store' = store
    BY <1>3, <1>9, <2>1 DEF Tick
  <2>2. CASE store' = NoToken
    BY <2>2, OwnerBecomes DEF Contract!Lapse
  <2> QED
    BY <1>9, <2>1, <2>2 DEF Tick
<1>10. CASE UNCHANGED vars
  BY <1>3, <1>10 DEF vars
<1> QED
  BY <1>1, <1>2, <1>4, <1>7, <1>8, <1>9, <1>10 DEF Next

\* The safety part of ImplementsContract: seen from outside, a taken key goes
\* to another client only by being free in between, whatever expires, crashes
\* or loses its reply (locks.go:34-48, :85-95). That an orphan's key is freed
\* is left to the model checker.
THEOREM LeaseKeepsContract == Spec => Contract!Safety
<1>1. Init => Contract!Init
  BY DEF Init, owner, Contract!Init
<1> QED
  BY <1>1, StepContract, LeaseInvariant, PTL DEF Spec, Contract!Safety
=============================================================================
