------------------------- MODULE KeyRotationProofs -------------------------
(***************************************************************************)
(* Proofs about KeyRotation: its type invariant, that undisturbed          *)
(* rotations keep every tenant secret readable, and that no ciphertext     *)
(* ever holds another secret than the one saved, but for saves that race   *)
(* a rotation.                                                             *)
(***************************************************************************)
EXTENDS KeyRotation, TLAPS

\* Every stored secret can be read with this algorithm and key.
AllReadable(alg, key) == \A t \in Tenant : secrets[t] # None => Readable(secrets[t], alg, key)

\* A rotation nothing overlapped with is the only one, and no save is open
\* while it holds what it read.
AloneIsAlone ==
    \A r \in Rotation : alone[r] /\ Active(r) =>
        /\ \A s \in Rotation \ {r} : ~Active(s)
        /\ Holding(r) => saving = None

\* Without trouble every rotation under way is such a one.
CalmIsAlone == ~upset => \A r \in Rotation : Active(r) => alone[r]

\* How far such a rotation has got with the stored data.
Progress ==
    \A r \in Rotation : alone[r] =>
        /\ at[r] = "commit" =>
             \A t \in Tenant : secrets[t] # None => work[r].held[t] # None
        /\ at[r] \in Window => AllReadable(work[r].as, work[r].new)
        /\ at[r] \in {"rekey", "record"} => keyFile = work[r].new
        /\ at[r] = "record" => dbKey = work[r].new

Working ==
    /\ \A r \in Rotation : Holding(r) => work[r].new \in Key
    /\ \A r \in Rotation : Active(r) => work[r].as \in Algorithm /\ work[r].alg \in Algorithm

\* Without trouble the copy is the key file, and an open save is readable.
CopyIsFile ==
    ~upset => \A r \in Rotation : at[r] = "commit" => backup = keyFile

SaveFits ==
    ~upset /\ saving # None => Readable(saving.secret, setting, LoadedKey)

\* What a rotation read is what was saved, and a save it overlaps is known.
HeldAsTold ==
    \A r \in Rotation : at[r] = "commit" =>
        \A t \in Tenant \ raced : work[r].held[t] = told[t]

OpenSaveRaced ==
    saving # None /\ (\E r \in Rotation : Holding(r)) => saving.tenant \in raced

-----------------------------------------------------------------------------
USE DEF Key, Secret, Window, NoWork, stored, history, bounds

LEMMA InitType == Init => TypeOK
<1> SUFFICES ASSUME Init PROVE TypeOK
    OBVIOUS
<1>1. LoadedKey \in Key /\ keyFile \in Key
    BY EnvKeyAssumption, BoundsAssumption, NoneAssumption DEF Init, LoadedKey
<1>2. PICK alg \in Algorithm, some \in SUBSET Tenant, v \in Value :
         /\ setting = alg
         /\ secrets = [t \in Tenant |->
                         IF t \in some THEN [val |-> v, key |-> LoadedKey, alg |-> alg] ELSE None]
         /\ told = [t \in Tenant |-> IF t \in some THEN v ELSE None]
    BY DEF Init
<1>3. secrets \in [Tenant -> Secret \cup {None}] /\ told \in [Tenant -> Value \cup {None}]
    BY <1>1, <1>2
<1>4. work \in [Rotation -> [alg : Algorithm \cup {None}, key : Key \cup {None},
                            as : Algorithm \cup {None}, new : Key \cup {None},
                            held : [Tenant -> Value \cup {None}]]]
    BY DEF Init
<1>5. keys \in Key /\ backup \in Key \cup {None} /\ setting \in Algorithm
    BY <1>2, BoundsAssumption DEF Init
<1>6. at \in [Rotation -> {"idle", "read", "commit"} \cup Window]
    BY DEF Init
<1>7. saves \in 0..MaxSaves /\ stops \in 0..MaxStops
    BY BoundsAssumption DEF Init
<1>8. dbKey \in Key /\ pool \in Key /\ up \in BOOLEAN /\ upset \in BOOLEAN
    BY <1>1 DEF Init
<1>9. alone \in [Rotation -> BOOLEAN] /\ raced \in SUBSET Tenant /\ saving = None
    BY DEF Init
<1> QED
    BY <1>1, <1>3, <1>4, <1>5, <1>6, <1>7, <1>8, <1>9 DEF TypeOK

(***************************************************************************)
(* Types: what each step assigns stays in its domain.                      *)
(***************************************************************************)
Typed == TypeOK /\ Working

LEMMA StepType == Typed /\ [Next]_vars => Typed'
<1> SUFFICES ASSUME Typed, [Next]_vars PROVE Typed'
    OBVIOUS
<1> USE BoundsAssumption DEF Typed, TypeOK, Working, Holding, Active
<1>0. LoadedKey \in Key
    BY EnvKeyAssumption DEF LoadedKey
<1>1. ASSUME NEW r \in Rotation, NEW new \in Algorithm, Begin(r, new) PROVE Typed'
    BY <1>0, <1>1 DEF Begin
<1>2. ASSUME NEW r \in Rotation, Read(r) PROVE Typed'
  <2> DEFINE held == [t \in Tenant |-> IF secrets[t] = None THEN None ELSE secrets[t].val]
  <2>1. held \in [Tenant -> Value \cup {None}]
    OBVIOUS
  <2>2. work' \in [Rotation -> [alg : Algorithm \cup {None}, key : Key \cup {None},
                               as : Algorithm \cup {None}, new : Key \cup {None},
                               held : [Tenant -> Value \cup {None}]]]
    BY <1>2, <2>1 DEF Read
  <2>3. keys' \in Key /\ raced' \in SUBSET Tenant
    BY <1>2 DEF Read
  <2>4. Working'
    BY <1>2, <2>3 DEF Read
  <2> QED
    BY <1>2, <2>2, <2>3, <2>4 DEF Read
<1>3. ASSUME NEW r \in Rotation, Abort(r) PROVE Typed'
    BY <1>3 DEF Abort
<1>4. ASSUME NEW r \in Rotation, Commit(r) PROVE Typed'
  <2>1. work[r].new \in Key /\ work[r].as \in Algorithm
    BY <1>4 DEF Commit
  <2>2. secrets' \in [Tenant -> Secret \cup {None}]
    BY <1>4, <2>1 DEF Commit
  <2> QED
    BY <1>4, <2>2 DEF Commit
<1>5. ASSUME NEW r \in Rotation, CommitFails(r) PROVE Typed'
    BY <1>5 DEF CommitFails
<1>6. ASSUME NEW r \in Rotation, save_key(r) PROVE Typed'
    BY <1>6 DEF save_key
<1>7. ASSUME NEW r \in Rotation, Rekey(r) PROVE Typed'
    BY <1>7 DEF Rekey
<1>8. ASSUME NEW r \in Rotation, PhaseTwoFails(r) PROVE Typed'
    BY <1>8 DEF PhaseTwoFails
<1>9. ASSUME NEW r \in Rotation, Record(r) PROVE Typed'
    BY <1>9 DEF Record
<1>10. ASSUME NEW r \in Rotation, RecordFails(r) PROVE Typed'
    BY <1>10 DEF RecordFails
<1>11. ASSUME NEW t \in Tenant, NEW v \in Value, Encrypt(t, v) PROVE Typed'
    BY <1>0, <1>11 DEF Encrypt
<1>12. CASE Store
    BY <1>12 DEF Store
<1>13. CASE Stop
  <2>1. work' \in [Rotation -> [alg : Algorithm \cup {None}, key : Key \cup {None},
                               as : Algorithm \cup {None}, new : Key \cup {None},
                               held : [Tenant -> Value \cup {None}]]]
    BY <1>13 DEF Stop
  <2> DEFINE midway == \E r \in Rotation : at[r] \in Window
  <2>2. upset' \in BOOLEAN
    <3>1. CASE midway
      BY <1>13, <3>1 DEF Stop
    <3>2. CASE ~midway
      BY <1>13, <3>2 DEF Stop
    <3> QED
      BY <3>1, <3>2
  <2>4. up' = FALSE /\ stops' = stops + 1 /\ stops < MaxStops
    BY <1>13 DEF Stop
  <2>5. stops' \in 0..MaxStops
    BY <2>4
  <2>3. at' \in [Rotation -> {"idle", "read", "commit"} \cup Window] /\ Working'
    BY <1>13 DEF Stop
  <2> QED
    BY <1>13, <2>1, <2>2, <2>3, <2>4, <2>5 DEF Stop
<1>14. CASE Start
    BY <1>0, <1>14 DEF Start
<1>15. CASE UNCHANGED vars
    BY <1>15 DEF vars
<1> QED
    BY <1>1, <1>2, <1>3, <1>4, <1>5, <1>6, <1>7, <1>8, <1>9, <1>10, <1>11, <1>12, <1>13, <1>14, <1>15 DEF Next, Rotate

LEMMA TypeInvariant == Spec => []Typed
<1>1. Init => Typed
    BY InitType DEF Typed, Working, Init, Holding, Active
<1> QED
    BY <1>1, StepType, PTL DEF Spec

\* Every variable keeps to its domain, whatever fails, overlaps or stops.
THEOREM TypeCorrect == Spec => []TypeOK
<1>1. Typed => TypeOK
    BY DEF Typed
<1> QED
    BY <1>1, TypeInvariant, PTL

(***************************************************************************)
(* Undisturbed rotations keep every secret readable.                       *)
(***************************************************************************)
Readied == AloneIsAlone /\ CalmIsAlone /\ Progress /\ CopyIsFile /\ SaveFits /\ KeptReadable

LEMMA StepReadied == Typed /\ Readied /\ [Next]_vars => Readied'
<1> SUFFICES ASSUME Typed, Readied, [Next]_vars PROVE Readied'
    OBVIOUS
<1> USE DEF Typed, TypeOK, Working, Holding, Active, Readied, AloneIsAlone, CalmIsAlone,
            Progress, CopyIsFile, SaveFits, KeptReadable, AllReadable, Readable, Openable, LoadedKey
<1>1. ASSUME NEW r \in Rotation, NEW new \in Algorithm, Begin(r, new) PROVE Readied'
    BY <1>1 DEF Begin
<1>2. ASSUME NEW r \in Rotation, Read(r) PROVE Readied'
  <2>1. AloneIsAlone' /\ CalmIsAlone' /\ CopyIsFile'
    BY <1>2 DEF Read
  <2>2. ASSUME NEW t \in Tenant, secrets[t] # None PROVE work'[r].held[t] # None
    BY <1>2, <2>2, NoneAssumption DEF Read
  <2>3. ASSUME NEW s \in Rotation, s # r PROVE at'[s] = at[s] /\ work'[s] = work[s] /\ alone'[s] = alone[s]
    BY <1>2, <2>3 DEF Read
  <2>4. at'[r] = "commit" /\ UNCHANGED <<secrets, keyFile, dbKey, setting, saving>>
    BY <1>2 DEF Read
  <2>5. Progress'
    BY <2>2, <2>3, <2>4
  <2>6. SaveFits' /\ KeptReadable'
    BY <1>2 DEF Read
  <2> QED
    BY <2>1, <2>5, <2>6
<1>3. ASSUME NEW r \in Rotation, Abort(r) PROVE Readied'
    BY <1>3 DEF Abort
<1>4. ASSUME NEW r \in Rotation, Commit(r) PROVE Readied'
    BY <1>4 DEF Commit
<1>5. ASSUME NEW r \in Rotation, CommitFails(r) PROVE Readied'
    BY <1>5 DEF CommitFails
<1>6. ASSUME NEW r \in Rotation, save_key(r) PROVE Readied'
    BY <1>6 DEF save_key
<1>7. ASSUME NEW r \in Rotation, Rekey(r) PROVE Readied'
    BY <1>7 DEF Rekey
<1>8. ASSUME NEW r \in Rotation, PhaseTwoFails(r) PROVE Readied'
    BY <1>8 DEF PhaseTwoFails
<1>9. ASSUME NEW r \in Rotation, Record(r) PROVE Readied'
    BY <1>9 DEF Record
<1>10. ASSUME NEW r \in Rotation, RecordFails(r) PROVE Readied'
    BY <1>10 DEF RecordFails
<1>11. ASSUME NEW t \in Tenant, NEW v \in Value, Encrypt(t, v) PROVE Readied'
    BY <1>11 DEF Encrypt
<1>12. CASE Store
    BY <1>12 DEF Store
<1>13. CASE Stop
    BY <1>13 DEF Stop
<1>14. CASE Start
    BY <1>14 DEF Start
<1>15. CASE UNCHANGED vars
    BY <1>15 DEF vars
<1> QED
    BY <1>1, <1>2, <1>3, <1>4, <1>5, <1>6, <1>7, <1>8, <1>9, <1>10, <1>11, <1>12, <1>13, <1>14, <1>15 DEF Next, Rotate

LEMMA InitReadied == Init => Readied
<1> SUFFICES ASSUME Init PROVE Readied
    OBVIOUS
<1>1. \A r \in Rotation : at[r] = "idle"
    BY DEF Init
<1>2. ~upset /\ saving = None /\ dbKey = LoadedKey
    BY DEF Init
<1>3. \A t \in Tenant : secrets[t] # None => Readable(secrets[t], setting, LoadedKey)
    BY DEF Init, Readable
<1> QED
    BY <1>1, <1>2, <1>3 DEF Readied, AloneIsAlone, CalmIsAlone, Progress, CopyIsFile, SaveFits,
       KeptReadable, Active, Holding, Openable

\* Refused, failed before its commit, stopped there or run to its end, a
\* rotation nothing overlapped with keeps every tenant secret readable and
\* the database openable; and the first such one that succeeds after trouble
\* makes them so again.
THEOREM Readability == Spec => []KeptReadable
<1>1. Typed /\ Readied /\ [Next]_vars => Readied'
    BY StepReadied
<1>2. Readied => KeptReadable
    BY DEF Readied
<1> QED
    BY <1>1, <1>2, InitReadied, TypeInvariant, PTL DEF Spec

(***************************************************************************)
(* Stored ciphertexts hold what was saved.                                 *)
(***************************************************************************)
Faithful == HeldAsTold /\ OpenSaveRaced /\ SavedSecretsStay

LEMMA StepFaithful == Typed /\ Faithful /\ [Next]_vars => Faithful'
<1> SUFFICES ASSUME Typed, Faithful, [Next]_vars PROVE Faithful'
    OBVIOUS
<1> USE NoneAssumption DEF Typed, TypeOK, Holding, Active, Faithful, HeldAsTold, OpenSaveRaced,
                           SavedSecretsStay
<1>1. ASSUME NEW r \in Rotation, NEW new \in Algorithm, Begin(r, new) PROVE Faithful'
    BY <1>1 DEF Begin
<1>2. ASSUME NEW r \in Rotation, Read(r) PROVE Faithful'
    BY <1>2 DEF Read
<1>3. ASSUME NEW r \in Rotation, Abort(r) PROVE Faithful'
    BY <1>3 DEF Abort
<1>4. ASSUME NEW r \in Rotation, Commit(r) PROVE Faithful'
  <2>1. ASSUME NEW t \in Tenant \ raced
        PROVE  IF secrets'[t] = None THEN told[t] = None ELSE secrets'[t].val = told[t]
    <3>1. work[r].held[t] = told[t]
      BY <1>4 DEF Commit
    <3>2. CASE work[r].held[t] = None
      BY <1>4, <3>2 DEF Commit
    <3>3. CASE work[r].held[t] # None
      <4>1. secrets'[t] = [val |-> told[t], key |-> work[r].new, alg |-> work[r].as]
        BY <1>4, <3>1, <3>3 DEF Commit
      <4>2. secrets'[t] \in Secret
        <5>1. told[t] \in Value
          BY <3>1, <3>3
        <5>2. work[r].new \in Key /\ work[r].as \in Algorithm
          BY <1>4 DEF Commit, Working
        <5> QED
          BY <4>1, <5>1, <5>2
      <4> QED
        BY <4>1, <4>2
    <3> QED
      BY <3>2, <3>3
  <2>2. HeldAsTold' /\ OpenSaveRaced'
    BY <1>4 DEF Commit
  <2> QED
    BY <1>4, <2>1, <2>2 DEF Commit
<1>5. ASSUME NEW r \in Rotation, CommitFails(r) PROVE Faithful'
    BY <1>5 DEF CommitFails
<1>6. ASSUME NEW r \in Rotation, save_key(r) PROVE Faithful'
    BY <1>6 DEF save_key
<1>7. ASSUME NEW r \in Rotation, Rekey(r) PROVE Faithful'
    BY <1>7 DEF Rekey
<1>8. ASSUME NEW r \in Rotation, PhaseTwoFails(r) PROVE Faithful'
    BY <1>8 DEF PhaseTwoFails
<1>9. ASSUME NEW r \in Rotation, Record(r) PROVE Faithful'
    BY <1>9 DEF Record
<1>10. ASSUME NEW r \in Rotation, RecordFails(r) PROVE Faithful'
    BY <1>10 DEF RecordFails
<1>11. ASSUME NEW t \in Tenant, NEW v \in Value, Encrypt(t, v) PROVE Faithful'
    BY <1>11 DEF Encrypt
<1>12. CASE Store
  <2> DEFINE u == saving.tenant
  <2>1. saving \in [tenant : Tenant, secret : Secret] /\ u \in Tenant /\ saving.secret \in Secret
    BY <1>12 DEF Store
  <2>2. secrets' = [secrets EXCEPT ![u] = saving.secret] /\ told' = [told EXCEPT ![u] = saving.secret.val]
    BY <1>12 DEF Store
  <2>3. saving' = None /\ UNCHANGED <<at, work, raced>>
    BY <1>12 DEF Store
  <2>4. ASSUME NEW t \in Tenant \ raced
        PROVE  IF secrets'[t] = None THEN told'[t] = None ELSE secrets'[t].val = told'[t]
    BY <2>1, <2>2, <2>4
  <2>5. ASSUME NEW r \in Rotation, at[r] = "commit", NEW t \in Tenant \ raced
        PROVE  work[r].held[t] = told'[t]
    <3>1. u \in raced
      BY <1>12, <2>5 DEF Store
    <3> QED
      BY <2>2, <2>5, <3>1
  <2> QED
    BY <2>3, <2>4, <2>5
<1>13. CASE Stop
    BY <1>13 DEF Stop
<1>14. CASE Start
    BY <1>14 DEF Start
<1>15. CASE UNCHANGED vars
    BY <1>15 DEF vars
<1> QED
    BY <1>1, <1>2, <1>3, <1>4, <1>5, <1>6, <1>7, <1>8, <1>9, <1>10, <1>11, <1>12, <1>13, <1>14, <1>15 DEF Next, Rotate

LEMMA InitFaithful == Init => Faithful
<1> SUFFICES ASSUME Init PROVE Faithful
    OBVIOUS
<1>1. \A r \in Rotation : at[r] = "idle"
    BY DEF Init
<1>2. SavedSecretsStay
  <2>1. PICK alg \in Algorithm, some \in SUBSET Tenant, v \in Value :
         /\ secrets = [t \in Tenant |->
                         IF t \in some THEN [val |-> v, key |-> LoadedKey, alg |-> alg] ELSE None]
         /\ told = [t \in Tenant |-> IF t \in some THEN v ELSE None]
    BY DEF Init
  <2>2. LoadedKey \in Key
    BY EnvKeyAssumption, BoundsAssumption DEF Init, LoadedKey
  <2>3. [val |-> v, key |-> LoadedKey, alg |-> alg] \in Secret
    BY <2>2
  <2> QED
    BY <2>1, <2>3, NoneAssumption DEF SavedSecretsStay
<1> QED
    BY <1>1, <1>2 DEF Init, Faithful, HeldAsTold, OpenSaveRaced

\* Whatever fails, overlaps or stops, no tenant is left with another secret
\* than the one last saved for it, unless that save raced a rotation.
THEOREM NoStaleSecret == Spec => []SavedSecretsStay
<1>1. Typed /\ Faithful /\ [Next]_vars => Faithful'
    BY StepFaithful
<1>2. Faithful => SavedSecretsStay
    BY DEF Faithful
<1> QED
    BY <1>1, <1>2, InitFaithful, TypeInvariant, PTL DEF Spec
=============================================================================
