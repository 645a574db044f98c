------------------------- MODULE IntegrationsProofs -------------------------
(***************************************************************************)
(* Proofs about the integrations table, for any number of rows, requests,  *)
(* secrets and master keys.                                                *)
(***************************************************************************)
EXTENDS Integrations, TLAPS

USE EmptyAssumption, NoneAssumption, SecretAssumption, RowAssumption, PatchAssumption

\* What a request says about the secret.
Asked == Secrets \cup {Keep, Clear}

\* The row ON CONFLICT finds, or the one INSERT makes, is a row.
LEMMA OldTyped ==
  ASSUME TypeOK, NEW k \in Keys
  PROVE  /\ Old(k) \in Integration
         /\ row[k] # None => Old(k) = row[k]
         /\ row[k] = None => Old(k).enc = None /\ Old(k).nonce = None
  BY DEF TypeOK, Old, NewRow, Integration

\* What the statement of Upsert makes of the row is a row, with the new secret of
\* the request.
LEMMA UpsertedCases ==
  ASSUME TypeOK, NEW k \in Keys, NEW config \in Configs, NEW secret \in Asked,
         NEW nonce \in Nonces, Sealable(secret)
  PROVE  /\ Upserted(k, config, secret, nonce) \in Integration
         /\ secret \notin {Keep, Clear} =>
              /\ secret \in Secrets
              /\ [plain |-> secret, key |-> master, nonce |-> nonce] \in Sealed
              /\ Upserted(k, config, secret, nonce).enc = [plain |-> secret, key |-> master, nonce |-> nonce]
              /\ Upserted(k, config, secret, nonce).nonce = nonce
<1> DEFINE old == Old(k)
<1>1. old \in Integration
  BY OldTyped
<1>2. CASE secret = Keep
  <2>1. Upserted(k, config, secret, nonce) = [old EXCEPT !.config = config]
    BY <1>1, <1>2 DEF Upserted, Column, EncVal, NonceVal, Integration
  <2> HIDE DEF old
  <2> QED
    BY <1>1, <1>2, <2>1 DEF Integration, old
<1>3. CASE secret = Clear
  <2>1. Upserted(k, config, secret, nonce)
          = [old EXCEPT !.config = config, !.enc = None, !.nonce = None]
    BY <1>1, <1>3 DEF Upserted, Column, EncVal, NonceVal, Integration
  <2> HIDE DEF old
  <2> QED
    BY <1>1, <1>3, <2>1 DEF Integration, old
<1>4. CASE secret \notin {Keep, Clear}
  <2> DEFINE sealed == [plain |-> secret, key |-> master, nonce |-> nonce]
  <2>1. Upserted(k, config, secret, nonce)
          = [old EXCEPT !.config = config, !.nonce = nonce, !.enc = sealed]
    <3>1. secret \in Secrets /\ sealed \in Sealed
      BY <1>4 DEF Asked, Sealable, TypeOK, Sealed
    <3>2. sealed # None /\ nonce # None
      BY <3>1
    <3>3. EncVal(secret, nonce) = sealed /\ NonceVal(secret, nonce) = nonce
      BY <1>4 DEF EncVal, NonceVal
    <3> HIDE DEF sealed
    <3> QED
      BY <1>1, <1>4, <3>2, <3>3 DEF Upserted, Column, Integration
  <2>2. secret \in Secrets /\ sealed \in Sealed
    BY <1>4 DEF Asked, Sealable, TypeOK, Sealed
  <2> HIDE DEF old, sealed
  <2>3. LET new == Upserted(k, config, secret, nonce)
        IN new \in Integration /\ new.enc = sealed /\ new.nonce = nonce
    BY <1>1, <2>1, <2>2 DEF Integration
  <2> QED
    BY <1>4, <2>2, <2>3 DEF sealed
<1> QED
  BY <1>2, <1>3, <1>4

\* The row has the config of the request.
LEMMA UpsertedConfig ==
  ASSUME TypeOK, NEW k \in Keys, NEW config, NEW secret, NEW nonce
  PROVE  Upserted(k, config, secret, nonce).config = config
  BY OldTyped DEF Upserted, Column, EncVal, NonceVal, Integration

\* Marking the patches under way leaves them patches.
LEMMA ChangedTyped ==
  ASSUME TypeOK, NEW k \in Keys
  PROVE  Changed(k) \in [Clients -> Patches \cup {None}]
<1>1. ASSUME NEW p \in Patches PROVE [p EXCEPT !.stale = TRUE] \in Patches
  BY DEF Patches
<1> QED
  BY <1>1 DEF Changed, TypeOK

\* What a request leaves as the last secret is a secret or none.
LEMMA SentTyped ==
  ASSUME TypeOK, NEW k \in Keys, NEW secret \in Asked
  PROVE  Sent(k, secret) \in Secrets \cup {None}
  BY DEF TypeOK, Sent, Asked

\* A verification changes neither the config nor the secret.
LEMMA MarkVerifiedKeeps ==
  ASSUME NEW r \in Integration, NEW ok \in BOOLEAN
  PROVE  LET new == MarkVerified(r, ok)
         IN new \in Integration /\ new.config = r.config /\ new.enc = r.enc /\ new.nonce = r.nonce
  BY DEF MarkVerified, Integration

-----------------------------------------------------------------------------
\* One step keeps the types: a lemma, for the proofs below need it too.
LEMMA TypeStep == TypeOK /\ [Next]_vars => TypeOK'
<1> SUFFICES ASSUME TypeOK, [Next]_vars
             PROVE  TypeOK'
  OBVIOUS
<1>1. ASSUME NEW k \in Keys, NEW config \in Configs \cup {None}, NEW secret \in Asked,
             NEW nonce \in Nonces, upsertIntegration(k, config, secret, nonce)
      PROVE  TypeOK'
  <2>1. Body(config) \in Configs
    BY DEF Body
  <2>2. Upserted(k, Body(config), secret, nonce) \in Integration
    BY <1>1, <2>1, UpsertedCases DEF upsertIntegration
  <2> QED
    BY <1>1, <2>1, <2>2, ChangedTyped, SentTyped DEF upsertIntegration, TypeOK
<1>2. ASSUME NEW c \in Clients, NEW k \in Keys, NEW secret \in Asked, PatchRead(c, k, secret)
      PROVE  TypeOK'
  <2>1. row[k] \in Integration
    BY <1>2 DEF PatchRead, Readable, TypeOK
  <2>2. [key |-> k, config |-> row[k].config, secret |-> secret, stale |-> FALSE] \in Patches
    BY <2>1 DEF Patches, Integration, Asked
  <2> QED
    BY <1>2, <2>2 DEF PatchRead, TypeOK
<1>3. ASSUME NEW c \in Clients, NEW config \in Configs \cup {None}, NEW nonce \in Nonces,
             PatchWrite(c, config, nonce)
      PROVE  TypeOK'
  <2> DEFINE k == patch[c].key
             secret == patch[c].secret
  <2>1. patch[c] \in Patches
    BY <1>3 DEF PatchWrite, TypeOK
  <2>2. k \in Keys /\ secret \in Asked /\ Merged(c, config) \in Configs /\ patch[c].stale \in BOOLEAN
    BY <2>1 DEF Patches, Asked, Merged
  <2>3. Upserted(k, Merged(c, config), secret, nonce) \in Integration
    BY <1>3, <2>2, UpsertedCases DEF PatchWrite
  <2>4. Changed(k) \in [Clients -> Patches \cup {None}]
    BY <2>2, ChangedTyped
  <2>5. Sent(k, secret) \in Secrets \cup {None}
    BY <2>2, SentTyped
  <2>6. /\ row' = [row EXCEPT ![k] = Upserted(k, Merged(c, config), secret, nonce)]
        /\ patch' = [Changed(k) EXCEPT ![c] = None]
        /\ lastConfig' = [lastConfig EXCEPT ![k] = IF config = None THEN @ ELSE config]
        /\ lastSecret' = [lastSecret EXCEPT ![k] = Sent(k, secret)]
        /\ overlapped' = [overlapped EXCEPT ![k] = @ \/ patch[c].stale]
        /\ UNCHANGED <<master, deleted>>
    BY <1>3 DEF PatchWrite
  <2> HIDE DEF k, secret
  <2>7. lastConfig' \in [Keys -> Configs] /\ overlapped' \in [Keys -> BOOLEAN]
    BY <2>2, <2>6 DEF TypeOK
  <2> QED
    BY <2>2, <2>3, <2>4, <2>5, <2>6, <2>7 DEF TypeOK
<1>4. ASSUME NEW c \in Clients, PatchRefused(c)
      PROVE  TypeOK'
  BY <1>4 DEF PatchRefused, TypeOK
<1>5. ASSUME NEW k \in Keys, deleteIntegration(k)
      PROVE  TypeOK'
  BY <1>5, ChangedTyped DEF deleteIntegration, Delete, TypeOK
<1>6. ASSUME NEW k \in Keys, NEW ok \in BOOLEAN, verifyIntegration(k, ok)
      PROVE  TypeOK'
  <2>1. row[k] \in Integration
    BY <1>6 DEF verifyIntegration, TypeOK
  <2>2. MarkVerified(row[k], ok) \in Integration
    BY <2>1, MarkVerifiedKeeps
  <2> QED
    BY <1>6, <2>2 DEF verifyIntegration, TypeOK
<1>7. CASE Restart
  BY <1>7 DEF Restart, TypeOK
<1>8. CASE UNCHANGED vars
  BY <1>8 DEF vars, TypeOK
<1> QED
  BY <1>1, <1>2, <1>3, <1>4, <1>5, <1>6, <1>7, <1>8 DEF Next, Asked

\* The rows, the patches under way and the histories keep their types.
THEOREM TypeCorrect == Spec => []TypeOK
<1>1. Init => TypeOK
  BY DEF Init, TypeOK
<1> QED
  BY <1>1, TypeStep, PTL DEF Spec

-----------------------------------------------------------------------------
\* The inductive invariant about secrets: it does not speak of the key of the
\* process, which a restart changes.
Matched(r) ==
  /\ (r.enc = None) <=> (r.nonce = None)
  /\ r.enc # None => r.enc.nonce = r.nonce

SecretInv ==
  \A k \in Keys : row[k] # None => Matched(row[k]) /\ Reveal(row[k]) = lastSecret[k]

\* Whatever a request says of the secret, the row it leaves has a matching
\* nonce and the secret that was sent last.
LEMMA UpsertKeepsSecret ==
  ASSUME TypeOK, SecretInv, NEW k \in Keys, NEW config \in Configs,
         NEW secret \in Asked, NEW nonce \in Nonces, Sealable(secret)
  PROVE  LET new == Upserted(k, config, secret, nonce)
         IN Matched(new) /\ Reveal(new) = Sent(k, secret)
<1> DEFINE new == Upserted(k, config, secret, nonce)
           sealed == [plain |-> secret, key |-> master, nonce |-> nonce]
<1>1. secret = Keep => new.enc = Old(k).enc /\ new.nonce = Old(k).nonce
  BY OldTyped DEF Upserted, Column, EncVal, NonceVal, Integration
<1>2. secret = Clear => new.enc = None /\ new.nonce = None
  BY OldTyped DEF Upserted, Column, EncVal, NonceVal, Integration
<1>3. secret \notin {Keep, Clear} =>
        secret \in Secrets /\ sealed \in Sealed /\ new.enc = sealed /\ new.nonce = nonce
  BY UpsertedCases
<1>4. sealed.plain = secret /\ sealed.nonce = nonce /\ nonce # None
  OBVIOUS
<1> HIDE DEF new, sealed
<1>5. ASSUME secret = Keep
      PROVE  Matched(new) /\ Reveal(new) = Sent(k, secret)
  BY <1>1, <1>5, OldTyped DEF SecretInv, Matched, Reveal, Sent
<1>6. ASSUME secret = Clear
      PROVE  Matched(new) /\ Reveal(new) = Sent(k, secret)
  BY <1>2, <1>6 DEF Matched, Reveal, Sent
<1>7. ASSUME secret \notin {Keep, Clear}
      PROVE  Matched(new) /\ Reveal(new) = Sent(k, secret)
  BY <1>3, <1>4, <1>7 DEF Matched, Reveal, Sent
<1>8. Matched(new) /\ Reveal(new) = Sent(k, secret)
  BY <1>5, <1>6, <1>7
<1> QED
  BY <1>8 DEF new

\* Every step keeps the invariant; only Upsert touches a stored secret.
LEMMA SecretStep == TypeOK /\ SecretInv /\ [Next]_vars => SecretInv'
<1> SUFFICES ASSUME TypeOK, SecretInv, [Next]_vars
             PROVE  SecretInv'
  OBVIOUS
<1>1. ASSUME NEW k \in Keys, NEW config \in Configs \cup {None}, NEW secret \in Asked,
             NEW nonce \in Nonces, upsertIntegration(k, config, secret, nonce)
      PROVE  SecretInv'
  <2>1. Body(config) \in Configs
    BY DEF Body
  <2>2. LET new == Upserted(k, Body(config), secret, nonce)
        IN Matched(new) /\ Reveal(new) = Sent(k, secret)
    BY <1>1, <2>1, UpsertKeepsSecret DEF upsertIntegration
  <2> QED
    BY <1>1, <2>2 DEF upsertIntegration, SecretInv, TypeOK
<1>2. ASSUME NEW c \in Clients, NEW config \in Configs \cup {None}, NEW nonce \in Nonces,
             PatchWrite(c, config, nonce)
      PROVE  SecretInv'
  <2> DEFINE k == patch[c].key
             secret == patch[c].secret
             new == Upserted(k, Merged(c, config), secret, nonce)
  <2>1. k \in Keys /\ secret \in Asked /\ Merged(c, config) \in Configs
    BY <1>2 DEF PatchWrite, TypeOK, Patches, Asked, Merged
  <2>2. Matched(new) /\ Reveal(new) = Sent(k, secret)
    BY <1>2, <2>1, UpsertKeepsSecret DEF PatchWrite
  <2>3. row' = [row EXCEPT ![k] = new] /\ lastSecret' = [lastSecret EXCEPT ![k] = Sent(k, secret)]
    BY <1>2 DEF PatchWrite
  <2> HIDE DEF k, secret, new
  <2> QED
    BY <2>1, <2>2, <2>3 DEF SecretInv, TypeOK
<1>3. ASSUME NEW k \in Keys, NEW ok \in BOOLEAN, verifyIntegration(k, ok)
      PROVE  SecretInv'
  <2> DEFINE new == MarkVerified(row[k], ok)
  <2>1. row[k] # None /\ row[k] \in Integration
    BY <1>3 DEF verifyIntegration, TypeOK
  <2>2. new.enc = row[k].enc /\ new.nonce = row[k].nonce
    BY <2>1, MarkVerifiedKeeps
  <2>3. Matched(new) /\ Reveal(new) = lastSecret[k]
    BY <2>1, <2>2 DEF SecretInv, Matched, Reveal
  <2>4. row' = [row EXCEPT ![k] = new] /\ lastSecret' = lastSecret
    BY <1>3 DEF verifyIntegration
  <2> HIDE DEF new
  <2> QED
    BY <2>3, <2>4 DEF SecretInv, TypeOK
<1>4. ASSUME NEW k \in Keys, deleteIntegration(k)
      PROVE  SecretInv'
  BY <1>4 DEF deleteIntegration, Delete, SecretInv, TypeOK
<1>5. ASSUME UNCHANGED <<row, lastSecret>>
      PROVE  SecretInv'
  BY <1>5 DEF SecretInv
<1> QED
  BY <1>1, <1>2, <1>3, <1>4, <1>5 DEF Next, Asked, PatchRead, PatchRefused, Restart, vars

\* A stored secret has the nonce it was sealed with and opens with the key it
\* was sealed with, whatever requests came in whatever order and however often
\* the process was restarted with another key (integrations.go:108-116).
THEOREM SecretsOpen == Spec => []SecretOpens
<1>1. Init => TypeOK /\ SecretInv
  BY DEF Init, TypeOK, SecretInv
<1>2. SecretInv => SecretOpens
  BY DEF SecretInv, Matched, SecretOpens, Opens
<1> QED
  BY <1>1, <1>2, TypeStep, SecretStep, PTL DEF Spec

\* Revealing a secret gives the one that was sent last, also when a PATCH
\* without a secret overlaps with the request that replaces it.
THEOREM SecretIsLastSent == Spec => []RevealsLastSecret
<1>1. Init => TypeOK /\ SecretInv
  BY DEF Init, TypeOK, SecretInv
<1>2. SecretInv => RevealsLastSecret
  BY DEF SecretInv, RevealsLastSecret
<1> QED
  BY <1>1, <1>2, TypeStep, SecretStep, PTL DEF Spec
-----------------------------------------------------------------------------
\* The inductive invariant about configs and deletions: a PATCH that no other
\* write has overtaken still has before it the row that it read.
PatchesFresh ==
  \A c \in Clients :
    patch[c] # None /\ ~patch[c].stale =>
      row[patch[c].key] # None /\ row[patch[c].key].config = patch[c].config

ConfigInv == PatchesFresh /\ KeepsLastConfig /\ DeletedStaysAway

\* After a write to k, the patches that are not stale are those of other rows.
LEMMA ChangedMarks ==
  ASSUME TypeOK, NEW k \in Keys, NEW c \in Clients,
         Changed(k)[c] # None, ~Changed(k)[c].stale
  PROVE  Changed(k)[c] = patch[c] /\ patch[c].key # k
<1>1. ASSUME NEW p \in Patches PROVE [p EXCEPT !.stale = TRUE].stale
  BY DEF Patches
<1> QED
  BY <1>1 DEF Changed, TypeOK

\* A POST settles the config and the row, whatever came before.
LEMMA UpsertKeepsConfigInv ==
  ASSUME TypeOK, ConfigInv, NEW k \in Keys, NEW config \in Configs \cup {None},
         NEW secret \in Asked, NEW nonce \in Nonces,
         upsertIntegration(k, config, secret, nonce)
  PROVE  ConfigInv'
<1> DEFINE new == Upserted(k, Body(config), secret, nonce)
<1>1. Body(config) \in Configs
  BY DEF Body
<1>2. new \in Integration /\ new.config = Body(config)
  <2>1. Sealable(secret)
    BY DEF upsertIntegration
  <2>2. new \in Integration
    BY <1>1, <2>1, UpsertedCases
  <2>3. new.config = Body(config)
    BY UpsertedConfig
  <2> QED
    BY <2>2, <2>3
<1>3. /\ row' = [row EXCEPT ![k] = new]
      /\ patch' = Changed(k)
      /\ lastConfig' = [lastConfig EXCEPT ![k] = Body(config)]
      /\ deleted' = [deleted EXCEPT ![k] = FALSE]
      /\ overlapped' = [overlapped EXCEPT ![k] = FALSE]
  BY DEF upsertIntegration
<1> HIDE DEF new
<1>4. PatchesFresh'
  <2> SUFFICES ASSUME NEW c \in Clients, Changed(k)[c] # None, ~Changed(k)[c].stale
               PROVE  /\ row'[Changed(k)[c].key] # None
                      /\ row'[Changed(k)[c].key].config = Changed(k)[c].config
    BY <1>3 DEF PatchesFresh
  <2>1. Changed(k)[c] = patch[c] /\ patch[c].key # k
    BY ChangedMarks
  <2>2. patch[c].key \in Keys
    BY <2>1 DEF TypeOK, Patches
  <2> QED
    BY <1>3, <2>1, <2>2 DEF ConfigInv, PatchesFresh, TypeOK
<1>5. KeepsLastConfig'
  BY <1>2, <1>3 DEF ConfigInv, KeepsLastConfig, TypeOK
<1>6. DeletedStaysAway'
  BY <1>3 DEF ConfigInv, DeletedStaysAway, TypeOK
<1> QED
  BY <1>4, <1>5, <1>6 DEF ConfigInv

\* A PATCH writes what it read, or marks the row as overlapped.
LEMMA PatchKeepsConfigInv ==
  ASSUME TypeOK, ConfigInv, NEW d \in Clients, NEW config \in Configs \cup {None},
         NEW nonce \in Nonces, PatchWrite(d, config, nonce)
  PROVE  ConfigInv'
<1> DEFINE k == patch[d].key
           secret == patch[d].secret
           new == Upserted(k, Merged(d, config), secret, nonce)
           last == IF config = None THEN lastConfig[k] ELSE config
<1>1. patch[d] \in Patches /\ patch[d] # None
  BY DEF PatchWrite, TypeOK
<1>2. /\ k \in Keys /\ secret \in Asked /\ Merged(d, config) \in Configs
      /\ patch[d].stale \in BOOLEAN
  BY <1>1 DEF Patches, Asked, Merged
<1>3. new \in Integration /\ new.config = Merged(d, config)
  <2>1. Sealable(secret)
    BY DEF PatchWrite
  <2>2. new \in Integration
    BY <1>2, <2>1, UpsertedCases
  <2>3. new.config = Merged(d, config)
    BY <1>2, UpsertedConfig
  <2> QED
    BY <2>2, <2>3
<1>4. /\ row' = [row EXCEPT ![k] = new]
      /\ patch' = [Changed(k) EXCEPT ![d] = None]
      /\ lastConfig' = [lastConfig EXCEPT ![k] = last]
      /\ overlapped' = [overlapped EXCEPT ![k] = @ \/ patch[d].stale]
      /\ UNCHANGED deleted
  BY DEF PatchWrite
<1>5. ~patch[d].stale => row[k] # None /\ row[k].config = patch[d].config
  BY <1>1 DEF ConfigInv, PatchesFresh
<1>6. ~patch[d].stale /\ ~overlapped[k] => new.config = last /\ ~deleted[k]
  BY <1>2, <1>3, <1>5 DEF ConfigInv, KeepsLastConfig, DeletedStaysAway, Merged
<1>7. Changed(k) \in [Clients -> Patches \cup {None}]
  BY <1>2, ChangedTyped
<1> HIDE DEF k, new, secret, last
<1>8. overlapped'[k] = (overlapped[k] \/ patch[d].stale)
  BY <1>2, <1>4 DEF TypeOK
<1>9. \A j \in Keys : j # k => /\ row'[j] = row[j] /\ lastConfig'[j] = lastConfig[j]
                               /\ overlapped'[j] = overlapped[j] /\ deleted'[j] = deleted[j]
  BY <1>4 DEF TypeOK
<1>10. /\ row'[k] = new /\ lastConfig'[k] = last
       /\ deleted'[k] = deleted[k]
  BY <1>2, <1>4 DEF TypeOK
<1>11. PatchesFresh'
  <2> SUFFICES ASSUME NEW c \in Clients, patch'[c] # None, ~patch'[c].stale
               PROVE  /\ row'[patch'[c].key] # None
                      /\ row'[patch'[c].key].config = patch'[c].config
    BY DEF PatchesFresh
  <2>1. c # d /\ patch'[c] = Changed(k)[c]
    BY <1>4, <1>7
  <2>2. patch'[c] = patch[c] /\ patch[c].key # k
    BY <1>2, <2>1, ChangedMarks
  <2>3. patch[c].key \in Keys
    BY <2>2 DEF TypeOK, Patches
  <2> QED
    BY <1>9, <2>2, <2>3 DEF ConfigInv, PatchesFresh
<1>12. KeepsLastConfig'
  BY <1>6, <1>8, <1>9, <1>10 DEF ConfigInv, KeepsLastConfig
<1>13. DeletedStaysAway'
  BY <1>6, <1>8, <1>9, <1>10 DEF ConfigInv, DeletedStaysAway
<1> QED
  BY <1>11, <1>12, <1>13 DEF ConfigInv

\* Every step keeps the invariant.
LEMMA ConfigStep == TypeOK /\ ConfigInv /\ [Next]_vars => ConfigInv'
<1> SUFFICES ASSUME TypeOK, ConfigInv, [Next]_vars
             PROVE  ConfigInv'
  OBVIOUS
<1>1. ASSUME NEW c \in Clients, NEW k \in Keys, NEW secret \in Asked, PatchRead(c, k, secret)
      PROVE  ConfigInv'
  <2> DEFINE read == [key |-> k, config |-> row[k].config, secret |-> secret, stale |-> FALSE]
  <2>1. row[k] # None /\ patch' = [patch EXCEPT ![c] = read]
    BY <1>1 DEF PatchRead, Readable
  <2>2. read.key = k /\ read.config = row[k].config
    OBVIOUS
  <2> HIDE DEF read
  <2>3. PatchesFresh'
    BY <1>1, <2>1, <2>2 DEF PatchRead, ConfigInv, PatchesFresh, TypeOK
  <2> QED
    BY <1>1, <2>3 DEF PatchRead, ConfigInv, KeepsLastConfig, DeletedStaysAway
<1>2. ASSUME NEW c \in Clients, PatchRefused(c)
      PROVE  ConfigInv'
  BY <1>2 DEF PatchRefused, ConfigInv, PatchesFresh, KeepsLastConfig, DeletedStaysAway, TypeOK
<1>3. ASSUME NEW k \in Keys, deleteIntegration(k)
      PROVE  ConfigInv'
  <2>1. PatchesFresh'
    <3> SUFFICES ASSUME NEW c \in Clients, Changed(k)[c] # None, ~Changed(k)[c].stale
                 PROVE  /\ row'[Changed(k)[c].key] # None
                        /\ row'[Changed(k)[c].key].config = Changed(k)[c].config
      BY <1>3 DEF deleteIntegration, PatchesFresh
    <3>1. Changed(k)[c] = patch[c] /\ patch[c].key # k
      BY ChangedMarks
    <3>2. patch[c].key \in Keys
      BY <3>1 DEF TypeOK, Patches
    <3> QED
      BY <1>3, <3>1, <3>2 DEF deleteIntegration, Delete, ConfigInv, PatchesFresh, TypeOK
  <2>2. KeepsLastConfig' /\ DeletedStaysAway'
    BY <1>3 DEF deleteIntegration, Delete, ConfigInv, KeepsLastConfig, DeletedStaysAway, TypeOK
  <2> QED
    BY <2>1, <2>2 DEF ConfigInv
<1>4. ASSUME NEW k \in Keys, NEW ok \in BOOLEAN, verifyIntegration(k, ok)
      PROVE  ConfigInv'
  <2> DEFINE new == MarkVerified(row[k], ok)
  <2>1. row[k] # None /\ row[k] \in Integration
    BY <1>4 DEF verifyIntegration, TypeOK
  <2>2. new # None /\ new.config = row[k].config
    BY <2>1, MarkVerifiedKeeps
  <2>3. /\ row' = [row EXCEPT ![k] = new]
        /\ UNCHANGED <<patch, lastConfig, deleted, overlapped>>
    BY <1>4 DEF verifyIntegration
  <2> HIDE DEF new
  <2>4. \A j \in Keys : /\ row[j] # None <=> row'[j] # None
                        /\ row[j] # None => row'[j].config = row[j].config
    BY <2>1, <2>2, <2>3 DEF TypeOK
  <2>5. \A c \in Clients : patch[c] # None => patch[c].key \in Keys
    BY DEF TypeOK, Patches
  <2> QED
    BY <2>3, <2>4, <2>5 DEF ConfigInv, PatchesFresh, KeepsLastConfig, DeletedStaysAway
<1>5. CASE Restart
  BY <1>5 DEF Restart, ConfigInv, PatchesFresh, KeepsLastConfig, DeletedStaysAway
<1>6. CASE UNCHANGED vars
  BY <1>6 DEF vars, ConfigInv, PatchesFresh, KeepsLastConfig, DeletedStaysAway
<1> QED
  BY <1>1, <1>2, <1>3, <1>4, <1>5, <1>6, UpsertKeepsConfigInv, PatchKeepsConfigInv DEF Next, Asked

\* No config that was sent is lost but to a PATCH that had read an older row.
THEOREM ConfigIsLastSent == Spec => []KeepsLastConfig
<1>1. Init => TypeOK /\ ConfigInv
  BY DEF Init, TypeOK, ConfigInv, PatchesFresh, KeepsLastConfig, DeletedStaysAway
<1>2. ConfigInv => KeepsLastConfig
  BY DEF ConfigInv
<1> QED
  BY <1>1, <1>2, TypeStep, ConfigStep, PTL DEF Spec

\* No row that was deleted comes back but by a POST or an overtaken PATCH.
THEOREM DeletionLasts == Spec => []DeletedStaysAway
<1>1. Init => TypeOK /\ ConfigInv
  BY DEF Init, TypeOK, ConfigInv, PatchesFresh, KeepsLastConfig, DeletedStaysAway
<1>2. ConfigInv => DeletedStaysAway
  BY DEF ConfigInv
<1> QED
  BY <1>1, <1>2, TypeStep, ConfigStep, PTL DEF Spec
=============================================================================
