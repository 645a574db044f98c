---------------------------- MODULE Integrations ----------------------------
(***************************************************************************)
(* The credentials of third parties: the integrations table with its       *)
(* encrypted secrets (internal/db/integrations.go) and the API handlers    *)
(* that change it (internal/api/api.go). POST, DELETE and verify make one  *)
(* statement each; PATCH reads the row and then upserts what it read. A    *)
(* request for an id that no row has changes nothing and is left out. The  *)
(* state is finite, so that nothing is bounded.                            *)
(***************************************************************************)
CONSTANTS Keys,        \* (kind, name), unique in the table
          Clients,     \* requests the API handles at once
          Configs,     \* the config of a row
          Empty,       \* {}
          Secrets,
          MasterKeys,  \* values of ORCH_SECRET_KEY
          Nonces,
          None,        \* NULL, or absent
          Keep, Clear  \* the secret of a request: left out, or ""

ASSUME EmptyAssumption == Empty \in Configs
ASSUME NoneAssumption == None \notin Configs \cup Secrets \cup MasterKeys \cup Nonces
ASSUME SecretAssumption == {Keep, Clear} \cap Secrets = {} /\ Keep # Clear

Sealed == [plain : Secrets, key : MasterKeys, nonce : Nonces]

\* last_error is set or NULL; last_verified_at is set or NULL.
Integration ==
  [config : Configs, enc : Sealed \cup {None}, nonce : Nonces \cup {None},
   failed : BOOLEAN, verified : BOOLEAN]

ASSUME RowAssumption == None \notin Integration /\ None \notin Sealed

VARIABLES row,        \* integrations: the row of each key, or None
          master,     \* the key of the running process, None when not configured
          patch,      \* the PATCH each client's handler is in, or None
          lastConfig, \* history: the config that was sent last
          lastSecret, \* history: the secret that was sent last, None when cleared
          deleted,    \* history: deleted, and not created by a POST since
          overlapped  \* history: written by a PATCH that had read an older row

vars == <<row, master, patch, lastConfig, lastSecret, deleted, overlapped>>

\* What patchIntegration has read, what it was sent, and whether the row was
\* written or deleted since (a history, the code does not know).
Patches == [key : Keys, config : Configs, secret : Secrets \cup {Keep, Clear}, stale : BOOLEAN]

ASSUME PatchAssumption == None \notin Patches

TypeOK ==
  /\ row \in [Keys -> Integration \cup {None}]
  /\ master \in MasterKeys \cup {None}
  /\ patch \in [Clients -> Patches \cup {None}]
  /\ lastConfig \in [Keys -> Configs]
  /\ lastSecret \in [Keys -> Secrets \cup {None}]
  /\ deleted \in [Keys -> BOOLEAN]
  /\ overlapped \in [Keys -> BOOLEAN]

Init ==
  /\ row = [k \in Keys |-> None]
  /\ master \in MasterKeys \cup {None}
  /\ patch = [c \in Clients |-> None]
  /\ lastConfig = [k \in Keys |-> Empty]
  /\ lastSecret = [k \in Keys |-> None]
  /\ deleted = [k \in Keys |-> FALSE]
  /\ overlapped = [k \in Keys |-> FALSE]

-----------------------------------------------------------------------------
\* Upsert refuses a secret it has no key for: ErrNoSecretKey.
Sealable(secret) == secret \in {Keep, Clear} \/ master # None

NewRow == [config |-> Empty, enc |-> None, nonce |-> None, failed |-> FALSE, verified |-> FALSE]

\* The row that ON CONFLICT finds, or the one that INSERT makes.
Old(k) == IF row[k] = None THEN NewRow ELSE row[k]

\* encVal and nonceVal of a request: NULL when it sends no secret.
EncVal(secret, nonce) ==
  IF secret \in {Keep, Clear} THEN None
  ELSE [plain |-> secret, key |-> master, nonce |-> nonce]

NonceVal(secret, nonce) == IF secret \in {Keep, Clear} THEN None ELSE nonce

\* The CASE of a column: cleared, replaced by what was sent, or kept.
Column(clear, sent, stored) ==
  CASE clear                  -> None
    [] ~clear /\ sent # None  -> sent
    [] OTHER                  -> stored

\* Mutant of Upserted: the stored secret is replaced by what was not sent.
Upserted_Overwrite(k, config, secret, nonce) ==
  [Old(k) EXCEPT !.config = config, !.enc = EncVal(secret, nonce),
                 !.nonce = NonceVal(secret, nonce)]

\* Mutant of Upserted: the CASE of the nonce keeps the one that is stored.
Upserted_KeepNonce(k, config, secret, nonce) ==
  [Old(k) EXCEPT
    !.config = config,
    !.enc = Column(secret = Clear, EncVal(secret, nonce), @),
    !.nonce = Column(secret = Clear, @, NonceVal(secret, nonce))]

\* IntegrationStore.Upsert: what the statement makes of the row. The secret
\* and its nonce have a CASE each.
Upserted(k, config, secret, nonce) ==
  [Old(k) EXCEPT
    !.config = config,
    !.enc = Column(secret = Clear, EncVal(secret, nonce), @),
    !.nonce = Column(secret = Clear, NonceVal(secret, nonce), @)]

\* The secret of the row after a request with this one.
Sent(k, secret) ==
  CASE secret = Clear -> None
    [] secret = Keep  -> IF row[k] = None THEN None ELSE lastSecret[k]
    [] OTHER          -> secret

\* The patches under way, now that k has changed.
Changed(k) ==
  [c \in Clients |->
     IF patch[c] # None /\ patch[c].key = k THEN [patch[c] EXCEPT !.stale = TRUE] ELSE patch[c]]

\* Mutant of Body: no {} for a config that was left out.
Body_NoDefault(config) == config

\* Upsert: len(in.Config) == 0 means {}.
Body(config) == IF config = None THEN Empty ELSE config

\* POST /integrations. (The answer is an error whenever last_error is NULL,
\* which scanIntegration cannot read; the row is written all the same.)
upsertIntegration(k, config, secret, nonce) ==
  /\ Sealable(secret)
  /\ row' = [row EXCEPT ![k] = Upserted(k, Body(config), secret, nonce)]
  /\ patch' = Changed(k)
  /\ lastConfig' = [lastConfig EXCEPT ![k] = Body(config)]
  /\ lastSecret' = [lastSecret EXCEPT ![k] = Sent(k, secret)]
  /\ deleted' = [deleted EXCEPT ![k] = FALSE]
  /\ overlapped' = [overlapped EXCEPT ![k] = FALSE]
  /\ UNCHANGED master

\* scanIntegration reads last_error into a string: NULL is an error.
Readable(k) == row[k] # None /\ row[k].failed

\* PATCH, first half: Get.
PatchRead(c, k, secret) ==
  /\ patch[c] = None
  /\ Readable(k)
  /\ patch' = [patch EXCEPT ![c] =
                 [key |-> k, config |-> row[k].config, secret |-> secret, stale |-> FALSE]]
  /\ UNCHANGED <<row, master, lastConfig, lastSecret, deleted, overlapped>>

\* Mutant of Merged: a config that was left out is {}.
Merged_NotLoaded(c, config) == IF config = None THEN Empty ELSE config

\* The config of the request, or the one read.
Merged(c, config) == IF config = None THEN patch[c].config ELSE config

\* PATCH, second half: Upsert by kind and name, whatever has become of the row.
PatchWrite(c, config, nonce) ==
  LET k == patch[c].key
      secret == patch[c].secret
  IN /\ patch[c] # None
     /\ Sealable(secret)
     /\ row' = [row EXCEPT ![k] = Upserted(k, Merged(c, config), secret, nonce)]
     /\ patch' = [Changed(k) EXCEPT ![c] = None]
     /\ lastConfig' = [lastConfig EXCEPT ![k] = IF config = None THEN @ ELSE config]
     /\ lastSecret' = [lastSecret EXCEPT ![k] = Sent(k, secret)]
     /\ overlapped' = [overlapped EXCEPT ![k] = @ \/ patch[c].stale]
     /\ UNCHANGED <<master, deleted>>

\* ErrNoSecretKey of the second half.
PatchRefused(c) ==
  /\ patch[c] # None
  /\ ~Sealable(patch[c].secret)
  /\ patch' = [patch EXCEPT ![c] = None]
  /\ UNCHANGED <<row, master, lastConfig, lastSecret, deleted, overlapped>>

\* Mutant of Delete: the row is kept and its verification withdrawn.
Delete_Soft(k) == row' = [row EXCEPT ![k].verified = FALSE]

Delete(k) == row' = [row EXCEPT ![k] = None]

\* DELETE /integrations/{id}.
deleteIntegration(k) ==
  /\ row[k] # None
  /\ Delete(k)
  /\ patch' = Changed(k)
  /\ deleted' = [deleted EXCEPT ![k] = TRUE]
  /\ UNCHANGED <<master, lastConfig, lastSecret, overlapped>>

\* MarkVerified: a success keeps its time and clears the error.
MarkVerified(r, ok) == [r EXCEPT !.failed = ~ok, !.verified = r.verified \/ ok]

\* POST /integrations/{id}/verify: MarkVerified with what the client reports.
verifyIntegration(k, ok) ==
  /\ row[k] # None
  /\ row' = [row EXCEPT ![k] = MarkVerified(row[k], ok)]
  /\ UNCHANGED <<master, patch, lastConfig, lastSecret, deleted, overlapped>>

\* The process is restarted, perhaps with another ORCH_SECRET_KEY
\* (NewIntegrationStore): requests under way are lost, the rows stay.
Restart ==
  /\ master' \in MasterKeys \cup {None}
  /\ patch' = [c \in Clients |-> None]
  /\ UNCHANGED <<row, lastConfig, lastSecret, deleted, overlapped>>

Next ==
  \/ \E k \in Keys, config \in Configs \cup {None},
        secret \in Secrets \cup {Keep, Clear}, nonce \in Nonces :
          upsertIntegration(k, config, secret, nonce)
  \/ \E c \in Clients :
        \/ \E k \in Keys, secret \in Secrets \cup {Keep, Clear} : PatchRead(c, k, secret)
        \/ \E config \in Configs \cup {None}, nonce \in Nonces : PatchWrite(c, config, nonce)
        \/ PatchRefused(c)
  \/ \E k \in Keys : deleteIntegration(k) \/ (\E ok \in BOOLEAN : verifyIntegration(k, ok))
  \/ Restart

Spec == Init /\ [][Next]_vars

-----------------------------------------------------------------------------
\* Reveal: it decrypts with the key of the process and the nonce of the row,
\* and returns the plain text; None is "".
Opens(r) == r.enc.key = master /\ r.enc.nonce = r.nonce
Reveal(r) == IF r.enc = None THEN None ELSE r.enc.plain

\* "secret_nonce: NULL iff secret_enc IS NULL" (migrations/0002_integrations.sql), and a
\* secret that is stored is decrypted for whoever has the key it was stored
\* with, through every order of replacing, keeping and clearing it: three CASE
\* expressions of one statement have to agree (integrations.go:108-116).
SecretOpens ==
  \A k \in Keys : row[k] # None =>
    /\ (row[k].enc = None) <=> (row[k].nonce = None)
    /\ row[k].enc # None /\ row[k].enc.key = master => Opens(row[k])

\* "Omit secret to leave the existing secret unchanged" (api/reference.md:189):
\* the secret is the one that was sent last, also when a PATCH that was sent
\* none overlaps with the request that replaces it.
RevealsLastSecret == \A k \in Keys : row[k] # None => Reveal(row[k]) = lastSecret[k]

\* A config that was sent is undone only by a PATCH that had read an older row
\* (api.go:502-514): one PATCH at a time loses nothing.
KeepsLastConfig ==
  \A k \in Keys : row[k] # None /\ ~overlapped[k] => row[k].config = lastConfig[k]

\* A row that was deleted comes back only through a POST, or through a PATCH
\* that read it before: Upsert inserts what it does not find (api.go:514).
DeletedStaysAway == \A k \in Keys : deleted[k] /\ ~overlapped[k] => row[k] = None
=============================================================================
