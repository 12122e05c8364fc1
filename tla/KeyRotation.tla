---------------------------- MODULE KeyRotation ----------------------------
(***************************************************************************)
(* Rotation of the encryption key (services/encryption_service.py) beside  *)
(* the saving of tenant secrets (services/config_service.py): the stored   *)
(* ciphertexts, the key file, the key the SQLCipher file is encrypted      *)
(* with and the algorithm setting change one after the other, in sessions  *)
(* and files of their own.                                                 *)
(*                                                                         *)
(* A key is a number, a ciphertext the value, the key and the algorithm    *)
(* it was made with: it can be read back with exactly that key and that    *)
(* algorithm.  The algorithm of ZSCALER_ENCRYPTION_ALGORITHM is fernet     *)
(* (its default), which decodes the key file of either kind to the bytes   *)
(* that were written.                                                      *)
(***************************************************************************)
EXTENDS Naturals, FiniteSets

CONSTANTS
    Rotation,    \* requests to rotate, and the rotation at start
    Tenant,      \* tenants
    Value,       \* client secrets
    Algorithm,   \* the algorithms allowed (FIPS mode takes some away)
    EnvKey,      \* the key in ZSCALER_SECRET_KEY, or None
    None,
    MaxKeys,     \* bound: keys ever generated
    MaxStops,    \* bound: stops of the server
    MaxSaves     \* bound: secrets saved

Key == 1..MaxKeys

Secret == [val : Value, key : Key, alg : Algorithm]

ASSUME EnvKeyAssumption == EnvKey \in Key \cup {None}
ASSUME NoneAssumption == None \notin Key \cup Value \cup Secret
ASSUME BoundsAssumption == MaxKeys \in Nat \ {0} /\ MaxStops \in Nat /\ MaxSaves \in Nat

VARIABLES
    secrets,     \* tenant -> its client_secret_enc, None while it has no row
    told,        \* tenant -> the secret last saved for it (history)
    keyFile,     \* the key in secret.key
    backup,      \* the key in secret.key.bak, or None
    dbKey,       \* the key the database file is encrypted with
    setting,     \* app_settings: encryption_algorithm
    pool,        \* the key the pooled connections opened the file with, or None
    up,          \* the server runs
    at,          \* rotation -> where it stands
    work,        \* rotation -> [alg, key: the old ones, as, new, held: what it read]
    saving,      \* the save under way: [tenant, secret], or None
    keys,        \* keys generated
    saves,       \* secrets saved
    stops,       \* stops of the server
    alone,       \* rotation -> nothing overlapped with it (history)
    upset,       \* a step went wrong where it matters, not repaired since (history)
    raced        \* the tenants saved while a rotation held their secret (history)

stored  == <<secrets, keyFile, backup, dbKey, setting>>
history == <<told, alone, upset, raced>>
bounds  == <<keys, saves, stops>>
vars == <<stored, pool, up, at, work, saving, history, bounds>>

NoWork == [alg |-> None, key |-> None, as |-> None, new |-> None,
           held |-> [t \in Tenant |-> None]]

\* The steps at which stored data disagrees with the key file or the setting.
Window == {"save", "rekey", "record"}

Active(r)  == at[r] # "idle"
Holding(r) == at[r] \in {"commit"} \cup Window

\* load_key: the environment variable before the file.
LoadedKey == IF EnvKey # None THEN EnvKey ELSE keyFile

\* decrypt_secret with what is stored now.
Readable(s, alg, key) == s.alg = alg /\ s.key = key

\* The creator derives the file's key from the active key material.
Openable == dbKey = LoadedKey

\* A session gets a pooled connection that still fits, or opens a new one.
Connected == up /\ (pool = dbKey \/ Openable)

Init ==
    /\ keyFile = 1 /\ backup = None
    /\ \E alg \in Algorithm, some \in SUBSET Tenant, v \in Value :
         /\ setting = alg
         /\ secrets = [t \in Tenant |->
                         IF t \in some THEN [val |-> v, key |-> LoadedKey, alg |-> alg] ELSE None]
         /\ told = [t \in Tenant |-> IF t \in some THEN v ELSE None]
    /\ dbKey = LoadedKey /\ pool = LoadedKey /\ up = TRUE
    /\ at = [r \in Rotation |-> "idle"] /\ work = [r \in Rotation |-> NoWork]
    /\ saving = None
    /\ keys = 1 /\ saves = 0 /\ stops = 0
    /\ alone = [r \in Rotation |-> TRUE] /\ upset = FALSE /\ raced = {}

-----------------------------------------------------------------------------
(* rotate_key *)

\* It reads the algorithm and loads the key.
Begin(r, new) ==
    /\ Connected /\ ~Active(r) /\ keys < MaxKeys
    /\ at' = [at EXCEPT ![r] = "read"]
    /\ work' = [work EXCEPT ![r] = [alg |-> setting, key |-> LoadedKey, as |-> new,
                                    new |-> None, held |-> NoWork.held]]
    /\ LET others == {s \in Rotation \ {r} : Active(s)}
       IN /\ alone' = [s \in Rotation |-> IF s = r THEN others = {}
                                          ELSE alone[s] /\ s \notin others]
          /\ upset' = (upset \/ others # {})
    /\ UNCHANGED <<stored, pool, up, saving, told, raced, bounds>>

Decrypted(r) == \A t \in Tenant : secrets[t] # None => Readable(secrets[t], work[r].alg, work[r].key)

\* It reads and decrypts every row, generates a key and copies the key file.
Read(r) ==
    /\ at[r] = "read" /\ Connected /\ Decrypted(r) /\ keys < MaxKeys
    /\ keys' = keys + 1
    /\ LET held == [t \in Tenant |-> IF secrets[t] = None THEN None ELSE secrets[t].val]
       IN work' = [work EXCEPT ![r] = [alg |-> work[r].alg, key |-> work[r].key,
                                       as |-> work[r].as, new |-> keys + 1, held |-> held]]
    /\ backup' = keyFile
    /\ at' = [at EXCEPT ![r] = "commit"]
    /\ alone' = [alone EXCEPT ![r] = @ /\ saving = None]
    /\ upset' = (upset \/ saving # None)
    /\ raced' = raced \cup IF saving = None THEN {} ELSE {saving.tenant}
    /\ UNCHANGED <<secrets, told, keyFile, dbKey, setting, pool, up, saving, saves, stops>>

\* One row that cannot be decrypted, or a session that fails, ends it.
Abort(r) ==
    /\ at[r] = "read" /\ ~(Connected /\ Decrypted(r))
    /\ at' = [at EXCEPT ![r] = "idle"] /\ work' = [work EXCEPT ![r] = NoWork]
    /\ UNCHANGED <<stored, pool, up, saving, history, bounds>>

\* Values looked up by position instead of by tenant (mutant for
\* SavedSecretsStay).
Commit_ByPosition(r) ==
    /\ at[r] = "commit" /\ Connected
    /\ LET first == CHOOSE t \in Tenant : work[r].held[t] # None
       IN secrets' = [t \in Tenant |->
                        IF work[r].held[t] = None THEN secrets[t]
                        ELSE [val |-> work[r].held[first], key |-> work[r].new, alg |-> work[r].as]]
    /\ at' = [at EXCEPT ![r] = "save"]
    /\ UNCHANGED <<keyFile, backup, dbKey, setting, pool, up, work, saving, history, bounds>>

Commit(r) ==
    /\ at[r] = "commit" /\ Connected
    /\ secrets' = [t \in Tenant |->
                     IF work[r].held[t] = None THEN secrets[t]
                     ELSE [val |-> work[r].held[t], key |-> work[r].new, alg |-> work[r].as]]
    /\ at' = [at EXCEPT ![r] = "save"]
    /\ UNCHANGED <<keyFile, backup, dbKey, setting, pool, up, work, saving, history, bounds>>

\* The commit fails: the copy goes back over the key file.
CommitFails(r) ==
    /\ at[r] = "commit"
    /\ keyFile' = IF backup # None THEN backup ELSE keyFile
    /\ backup' = None
    /\ at' = [at EXCEPT ![r] = "idle"] /\ work' = [work EXCEPT ![r] = NoWork]
    /\ UNCHANGED <<secrets, dbKey, setting, pool, up, saving, history, bounds>>

save_key(r) ==
    /\ at[r] = "save"
    /\ keyFile' = work[r].new
    /\ at' = [at EXCEPT ![r] = "rekey"]
    /\ UNCHANGED <<secrets, backup, dbKey, setting, pool, up, work, saving, history, bounds>>

\* PRAGMA rekey needs a connection opened with the old key: a pooled one.
Rekey(r) ==
    /\ at[r] = "rekey" /\ Connected
    /\ dbKey' = work[r].new /\ pool' = work[r].new
    /\ backup' = None
    /\ at' = [at EXCEPT ![r] = "record"]
    /\ UNCHANGED <<secrets, keyFile, setting, up, work, saving, history, bounds>>

\* Either fails after the commit: nothing is put back.
PhaseTwoFails(r) ==
    /\ at[r] \in {"save", "rekey"}
    /\ backup' = None
    /\ at' = [at EXCEPT ![r] = "idle"] /\ work' = [work EXCEPT ![r] = NoWork]
    /\ upset' = TRUE
    /\ UNCHANGED <<secrets, keyFile, dbKey, setting, pool, up, saving, told, alone, raced, bounds>>

\* A rotation that never sets the algorithm (mutant for KeptReadable).
Record_NoAlgorithm(r) ==
    /\ at[r] = "record" /\ Openable
    /\ pool' = dbKey
    /\ upset' = (upset /\ ~alone[r])
    /\ at' = [at EXCEPT ![r] = "idle"] /\ work' = [work EXCEPT ![r] = NoWork]
    /\ UNCHANGED <<stored, up, saving, told, alone, raced, bounds>>

\* It drops the pool and sets the algorithm in a new connection.
Record(r) ==
    /\ at[r] = "record" /\ Openable
    /\ pool' = dbKey
    /\ setting' = work[r].as
    /\ upset' = (upset /\ ~alone[r])
    /\ at' = [at EXCEPT ![r] = "idle"] /\ work' = [work EXCEPT ![r] = NoWork]
    /\ UNCHANGED <<secrets, keyFile, backup, dbKey, up, saving, told, alone, raced, bounds>>

RecordFails(r) ==
    /\ at[r] = "record"
    /\ pool' = None
    /\ upset' = TRUE
    /\ at' = [at EXCEPT ![r] = "idle"] /\ work' = [work EXCEPT ![r] = NoWork]
    /\ UNCHANGED <<stored, up, saving, told, alone, raced, bounds>>

-----------------------------------------------------------------------------
(* add_tenant, update_tenant *)

\* encrypt_secret, in a request whose commit comes later.
Encrypt(t, v) ==
    /\ Connected /\ saving = None /\ saves < MaxSaves
    /\ saves' = saves + 1
    /\ saving' = [tenant |-> t, secret |-> [val |-> v, key |-> LoadedKey, alg |-> setting]]
    /\ alone' = [r \in Rotation |-> alone[r] /\ ~Holding(r)]
    /\ upset' = (upset \/ \E r \in Rotation : Holding(r))
    /\ raced' = raced \cup IF \E r \in Rotation : Holding(r) THEN {t} ELSE {}
    /\ UNCHANGED <<stored, told, pool, up, at, work, keys, stops>>

Store ==
    /\ Connected /\ saving # None
    /\ secrets' = [secrets EXCEPT ![saving.tenant] = saving.secret]
    /\ told' = [told EXCEPT ![saving.tenant] = saving.secret.val]
    /\ saving' = None
    /\ UNCHANGED <<keyFile, backup, dbKey, setting, pool, up, at, work, alone, upset, raced, bounds>>

-----------------------------------------------------------------------------
(* The server stops anywhere, and starts if it can open the database. *)

Stop ==
    /\ up /\ stops < MaxStops
    /\ stops' = stops + 1
    /\ up' = FALSE /\ pool' = None
    /\ upset' = (upset \/ \E r \in Rotation : at[r] \in Window)
    /\ at' = [r \in Rotation |-> "idle"] /\ work' = [r \in Rotation |-> NoWork]
    /\ saving' = None
    /\ UNCHANGED <<stored, told, alone, raced, keys, saves>>

Start ==
    /\ ~up /\ Openable
    /\ up' = TRUE /\ pool' = LoadedKey
    /\ UNCHANGED <<stored, at, work, saving, history, bounds>>

Rotate(r) ==
    \/ \E new \in Algorithm : Begin(r, new)
    \/ Read(r) \/ Abort(r) \/ Commit(r) \/ CommitFails(r)
    \/ save_key(r) \/ Rekey(r) \/ PhaseTwoFails(r) \/ Record(r) \/ RecordFails(r)

Next ==
    \/ \E r \in Rotation : Rotate(r)
    \/ \E t \in Tenant, v \in Value : Encrypt(t, v)
    \/ Store \/ Stop \/ Start

Spec == Init /\ [][Next]_vars

-----------------------------------------------------------------------------
TypeOK ==
    /\ secrets \in [Tenant -> Secret \cup {None}]
    /\ told \in [Tenant -> Value \cup {None}]
    /\ keyFile \in Key /\ dbKey \in Key
    /\ backup \in Key \cup {None} /\ pool \in Key \cup {None}
    /\ setting \in Algorithm
    /\ up \in BOOLEAN /\ upset \in BOOLEAN
    /\ at \in [Rotation -> {"idle", "read", "commit"} \cup Window]
    /\ work \in [Rotation -> [alg : Algorithm \cup {None}, key : Key \cup {None},
                              as : Algorithm \cup {None}, new : Key \cup {None},
                              held : [Tenant -> Value \cup {None}]]]
    /\ saving \in [tenant : Tenant, secret : Secret] \cup {None}
    /\ keys \in Key /\ saves \in 0..MaxSaves /\ stops \in 0..MaxStops
    /\ alone \in [Rotation -> BOOLEAN] /\ raced \in SUBSET Tenant

\* While nothing went wrong between a rotation's commit and its last step, no
\* two rotations overlapped and no secret was saved during one, every tenant
\* secret can be read and the database opened, whatever failed or stopped
\* before a commit; and the first undisturbed rotation that succeeds after
\* trouble brings that back (rotate_key, "the full-database encryption key is
\* rotated atomically alongside the column encryption key").
KeptReadable ==
    ~upset /\ (\A r \in Rotation : at[r] \notin Window) =>
        /\ Openable
        /\ \A t \in Tenant : secrets[t] # None => Readable(secrets[t], setting, LoadedKey)

\* Whatever fails or stops, a stored ciphertext holds the secret last saved
\* for its tenant, unless that save overlapped a rotation: rotation writes
\* back what it read (encryption_service.py:96).
SavedSecretsStay ==
    \A t \in Tenant \ raced :
        IF secrets[t] = None THEN told[t] = None ELSE secrets[t].val = told[t]
=============================================================================
