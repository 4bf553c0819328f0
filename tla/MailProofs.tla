----------------------------- MODULE MailProofs ------------------------------
(***************************************************************************)
(* Proofs about the mail product's machines, each on its own, for any      *)
(* number of messages, tasks, attributes, revisions, deliveries, letters,  *)
(* learned versions, rules and correspondents.                             *)
(***************************************************************************)
EXTENDS Credentials, GmailPoll, GovernedSend, MailMoves, EventDelivery, MailRules, LearnedParsers,
        AddressHistory, FiniteSetTheorems, NaturalsInduction, TLAPS

-----------------------------------------------------------------------------
(* Credentials.  Everything rests on one file: while no two first-time     *)
(* setups collided, a task that holds a passphrase, a file about to take   *)
(* the name and every sealed secret agree with the file as it is.          *)

CredentialTask ==
  [step : {"idle", "unlock", "truncate", "write", "ready", "rename"},
   work : Secret \cup {"rekey", "open", None},
   store : CredentialFile \cup {None}, pass : Passphrases \cup {None}]

CredentialRows ==
  /\ file \in CredentialFile
  /\ tasks \in [Tasks -> CredentialTask]
  /\ sealed \in [Secret -> Passphrases \cup {None}]
  /\ mailbox \in [stored : BOOLEAN, selected : BOOLEAN]
  /\ consents \subseteq 1..MaxConsents /\ spent \in [1..MaxConsents -> Nat]

\* A file that is whole holds a passphrase, and its verifier is that of the
\* key it is wrapped under.
Whole(cf) == cf.state = "good" /\ cf.db # None /\ cf.verify \in {None, cf.wrap}

\* Where one task stands against the file.
TaskAgrees(t) ==
  /\ tasks[t].step = "ready" => file.state = "good" /\ tasks[t].pass = file.db
  /\ tasks[t].step = "rename" => file.state = "good" /\ tasks[t].store.db = file.db
  /\ tasks[t].step = "write" => file.state = "torn"

CredentialInv ==
  /\ CredentialRows
  /\ file.state = "good" \/ (file.db = None /\ file.verify = None)
  /\ file.state = "good" => Whole(file)
  /\ \A t \in Tasks : tasks[t].step \in {"truncate", "write", "rename"} =>
       tasks[t].store \in CredentialFile /\ Whole(tasks[t].store)
  /\ ~collided =>
       /\ \A t \in Tasks : TaskAgrees(t)
       /\ \A t, u \in Tasks : tasks[t].step = "write" /\ tasks[u].step = "write" => t = u
       /\ \A s \in Secret : sealed[s] # None => file.state = "good" /\ sealed[s] = file.db
       /\ mailbox.stored => sealed["account"] # None
       /\ ~refused
  /\ \A n \in 1..MaxConsents : spent[n] <= 1 /\ (n \in consents => spent[n] = 0)

LEMMA KeysKnown ==
  /\ None \in Keys /\ "machine" \in Keys
  /\ \A env \in Environments :
       env.key \in Keys /\ env.passfile \in Keys /\ env.typed \in Keys /\ env.new \in Keys
<1>1. None \in Keys /\ "machine" \in Keys
  BY Zenon DEF Keys
<1>2. ASSUME NEW env \in Environments
      PROVE  env.key \in Keys /\ env.passfile \in Keys /\ env.typed \in Keys /\ env.new \in Keys
  <2> DEFINE own(e) == {e.key, e.passfile, e.typed, e.new}
  <2>1. ASSUME NEW k \in own(env) PROVE k \in UNION {own(e) : e \in Environments}
    BY Zenon, <2>1
  <2>2. env.key \in own(env) /\ env.passfile \in own(env) /\ env.typed \in own(env) /\ env.new \in own(env)
    OBVIOUS
  <2> QED
    BY Zenon, <2>1, <2>2 DEF Keys
<1> QED
  BY <1>1, <1>2

LEMMA CredentialsInitInv == CredentialsInit => CredentialInv
<1> SUFFICES ASSUME CredentialsInit PROVE CredentialInv
  OBVIOUS
<1>1. Absent \in CredentialFile /\ AtRest \in CredentialTask
  BY KeysKnown DEF Absent, AtRest, CredentialFile, CredentialTask
<1>2. CredentialRows
  BY <1>1 DEF CredentialsInit, CredentialRows
<1>3. file.state = "absent" /\ file.db = None /\ file.verify = None
      /\ \A t \in Tasks : tasks[t].step = "idle"
  BY DEF CredentialsInit, Absent, AtRest
<1>4. /\ \A s \in Secret : sealed[s] = None
      /\ mailbox.stored = FALSE /\ refused = FALSE /\ consents = {}
      /\ \A n \in 1..MaxConsents : spent[n] = 0
  BY DEF CredentialsInit
<1> QED
  BY <1>2, <1>3, <1>4 DEF CredentialInv, TaskAgrees

\* What is unwrapped is the passphrase of the file, or nothing.
LEMMA Unlocked ==
  ASSUME NEW cf \in CredentialFile, NEW env, NEW consult
  PROVE  unlock(cf, env, consult) = cf.db \/ unlock(cf, env, consult) = None
BY DEF unlock, decrypt_value

\* A new store is whole.
LEMMA FirstTimeWhole ==
  ASSUME NEW env \in Environments, NEW db \in Passphrases, first_time(env, db) # None
  PROVE  first_time(env, db) \in CredentialFile /\ Whole(first_time(env, db))
<1>1. db # None
  BY CredentialsAssumption DEF Passphrases
<1>2. \E wrap \in Keys, verify \in Keys :
        /\ first_time(env, db) = [state |-> "good", verify |-> verify, wrap |-> wrap, db |-> db]
        /\ verify \in {None, wrap}
  <2>1. CASE env.key # None
    BY <2>1, KeysKnown DEF first_time
  <2>2. CASE env.key = None /\ env.passfile # None
    BY <2>2, KeysKnown DEF first_time
  <2>3. CASE env.key = None /\ env.passfile = None /\ env.new # None
    BY <2>3, KeysKnown DEF first_time
  <2>4. CASE env.key = None /\ env.passfile = None /\ env.new = None
    BY <2>4, KeysKnown DEF first_time
  <2> QED
    BY <2>1, <2>2, <2>3, <2>4
<1> QED
  BY <1>1, <1>2 DEF CredentialFile, Whole

\* What a task may become while the file and the secrets stay as they are.
Restful(row) ==
  \/ row.step \in {"idle", "unlock"}
  \/ row.step = "ready" /\ file.state = "good" /\ row.pass = file.db
  \/ row.step = "truncate" /\ row.store \in CredentialFile /\ Whole(row.store)
  \/ /\ row.step = "rename" /\ row.store \in CredentialFile /\ Whole(row.store)
     /\ file.state = "good" /\ row.store.db = file.db

LEMMA TaskRests ==
  ASSUME CredentialInv, NEW t \in Tasks, NEW row \in CredentialTask, Restful(row),
         tasks' = [tasks EXCEPT ![t] = row],
         UNCHANGED <<file, sealed, mailbox, consents, collided, refused, spent>>
  PROVE  CredentialInv'
<1> USE DEF CredentialInv, Restful
<1>1. CredentialRows'
  BY DEF CredentialRows
<1>2. \A u \in Tasks : u # t => tasks'[u] = tasks[u]
  BY DEF CredentialRows
<1>3. tasks'[t] = row
  BY DEF CredentialRows
<1>4. ~collided => TaskAgrees(t)'
  BY <1>3 DEF TaskAgrees
<1>5. \A u \in Tasks : ~collided => TaskAgrees(u)'
  BY <1>2, <1>4 DEF TaskAgrees
<1>6. row.step # "write"
  OBVIOUS
<1> QED
  BY <1>1, <1>2, <1>3, <1>5, <1>6 DEF Whole

LEMMA UnlockKeeps ==
  ASSUME CredentialInv, NEW t \in Tasks, file_get_or_create_passphrase(t)
  PROVE  CredentialInv'
<1> USE DEF CredentialInv, CredentialRows
<1>1. AtRest \in CredentialTask /\ tasks[t] \in CredentialTask
  BY DEF AtRest, CredentialTask
<1>2. ASSUME Leave(t) PROVE CredentialInv'
  <2>1. Restful(AtRest) /\ tasks' = [tasks EXCEPT ![t] = AtRest]
    BY <1>2 DEF AtRest, Leave, Restful
  <2>2. UNCHANGED <<file, sealed, mailbox, consents, collided, refused, spent>>
    BY DEF file_get_or_create_passphrase
  <2> HIDE DEF CredentialInv, CredentialRows
  <2> QED
    BY <1>1, <2>1, <2>2, TaskRests
<1>3. PICK env \in Environments :
        \/ Leave(t)
        \/ /\ unlock(file, env, TRUE) # None
           /\ tasks' = [tasks EXCEPT ![t].step = "ready", ![t].pass = unlock(file, env, TRUE)]
        \/ \E db \in Unused :
             /\ first_time(env, db) # None
             /\ tasks' = [tasks EXCEPT ![t].step = "truncate", ![t].store = first_time(env, db)]
  <2> DEFINE store(env) == IF Unused = {} THEN None ELSE first_time(env, CHOOSE db \in Unused : TRUE)
  <2>1. ASSUME NEW env, store(env) # None
        PROVE  \E db \in Unused : store(env) = first_time(env, db)
    BY <2>1
  <2>2. PICK env \in Environments :
          CASE file.state = "torn" -> Leave(t)
            [] HasEntry(file) -> IF unlock(file, env, TRUE) = None THEN Leave(t)
                 ELSE tasks' = [tasks EXCEPT ![t].step = "ready", ![t].pass = unlock(file, env, TRUE)]
            [] OTHER -> IF store(env) = None THEN Leave(t)
                 ELSE tasks' = [tasks EXCEPT ![t].step = "truncate", ![t].store = store(env)]
    BY DEF file_get_or_create_passphrase
  <2> HIDE DEF store
  <2>3. \/ Leave(t)
        \/ /\ unlock(file, env, TRUE) # None
           /\ tasks' = [tasks EXCEPT ![t].step = "ready", ![t].pass = unlock(file, env, TRUE)]
        \/ /\ store(env) # None
           /\ tasks' = [tasks EXCEPT ![t].step = "truncate", ![t].store = store(env)]
    BY <2>2
  <2>4. store(env) # None => \E db \in Unused : first_time(env, db) # None /\ store(env) = first_time(env, db)
    BY <2>1
  <2> WITNESS env \in Environments
  <2>5. CASE store(env) # None /\ tasks' = [tasks EXCEPT ![t].step = "truncate", ![t].store = store(env)]
    BY <2>4, <2>5
  <2> QED
    BY <2>3, <2>5
<1>4. ASSUME unlock(file, env, TRUE) # None,
             tasks' = [tasks EXCEPT ![t].step = "ready", ![t].pass = unlock(file, env, TRUE)]
      PROVE  CredentialInv'
  <2>1. unlock(file, env, TRUE) = file.db /\ file.db \in Passphrases /\ file.state = "good"
    BY ZenonT(20), <1>4, Unlocked DEF CredentialFile
  <2>2. PICK row : row = [tasks[t] EXCEPT !.step = "ready", !.pass = file.db]
    OBVIOUS
  <2>3. row \in CredentialTask /\ row.step = "ready" /\ row.pass = file.db
        /\ tasks' = [tasks EXCEPT ![t] = row]
    BY <1>1, <1>4, <2>1, <2>2 DEF CredentialTask
  <2>4. Restful(row) /\ UNCHANGED <<file, sealed, mailbox, consents, collided, refused, spent>>
    BY <2>1, <2>3 DEF Restful, file_get_or_create_passphrase
  <2> HIDE DEF CredentialInv, CredentialRows
  <2> QED
    BY <2>3, <2>4, TaskRests
<1>5. ASSUME NEW db \in Unused, first_time(env, db) # None,
             tasks' = [tasks EXCEPT ![t].step = "truncate", ![t].store = first_time(env, db)]
      PROVE  CredentialInv'
  <2>1. first_time(env, db) \in CredentialFile /\ Whole(first_time(env, db))
    BY <1>5, FirstTimeWhole DEF Unused
  <2>2. PICK row : row = [tasks[t] EXCEPT !.step = "truncate", !.store = first_time(env, db)]
    OBVIOUS
  <2> DEFINE store == first_time(env, db)
  <2>4. store \in CredentialFile /\ tasks' = [tasks EXCEPT ![t].step = "truncate", ![t].store = store]
        /\ row = [tasks[t] EXCEPT !.step = "truncate", !.store = store]
    BY <1>5, <2>1, <2>2
  <2> HIDE DEF store
  <2>5. row \in CredentialTask /\ row.step = "truncate" /\ row.store = store
        /\ tasks' = [tasks EXCEPT ![t] = row]
    BY <1>1, <2>4 DEF CredentialTask
  <2>3. row.store = first_time(env, db)
    BY <2>5 DEF store
  <2> QED
    <3>1. Restful(row) /\ UNCHANGED <<file, sealed, mailbox, consents, collided, refused, spent>>
      BY <2>1, <2>3, <2>5 DEF Restful, file_get_or_create_passphrase
    <3> HIDE DEF CredentialInv, CredentialRows
    <3> QED
      BY <2>5, <3>1, TaskRests
<1> QED
  BY <1>2, <1>3, <1>4, <1>5

LEMMA RekeyKeeps ==
  ASSUME CredentialInv, NEW t \in Tasks, rekey(t)
  PROVE  CredentialInv'
<1> USE DEF CredentialInv, CredentialRows
<1>1. AtRest \in CredentialTask /\ tasks[t] \in CredentialTask
  BY DEF AtRest, CredentialTask
<1>2. ASSUME Leave(t) PROVE CredentialInv'
  <2>1. Restful(AtRest) /\ tasks' = [tasks EXCEPT ![t] = AtRest]
    BY <1>2 DEF AtRest, Leave, Restful
  <2>2. UNCHANGED <<file, sealed, mailbox, consents, collided, refused, spent>>
    BY DEF rekey
  <2> HIDE DEF CredentialInv, CredentialRows
  <2> QED
    BY <1>1, <2>1, <2>2, TaskRests
<1>3. PICK env \in Environments :
        \/ Leave(t)
        \/ \E new \in {env.passfile, env.new} :
             /\ HasEntry(file) /\ unlock(file, env, FALSE) # None /\ new # None
             /\ tasks' = [tasks EXCEPT ![t].step = "rename", ![t].store =
                  [state |-> "good", verify |-> new, wrap |-> new, db |-> unlock(file, env, FALSE)]]
  <2>1. PICK env \in Environments : \E new \in {env.passfile, env.new} :
          IF ~HasEntry(file) \/ unlock(file, env, FALSE) = None \/ new = None THEN Leave(t)
          ELSE tasks' = [tasks EXCEPT ![t].step = "rename", ![t].store =
                 [state |-> "good", verify |-> new, wrap |-> new, db |-> unlock(file, env, FALSE)]]
    <3>1. PICK env \in Environments :
            LET db  == unlock(file, env, FALSE)
                new == IF env.passfile # None THEN env.passfile ELSE env.new
            IN IF ~HasEntry(file) \/ db = None \/ new = None THEN Leave(t)
               ELSE tasks' = [tasks EXCEPT ![t].step = "rename", ![t].store = [state |-> "good",
                      verify |-> new, wrap |-> new, db |-> db]]
      BY DEF rekey
    <3>2. PICK new \in {env.passfile, env.new} : new = IF env.passfile # None THEN env.passfile ELSE env.new
      OBVIOUS
    <3> QED
      BY <3>1, <3>2
  <2> QED
    BY <2>1
<1>4. ASSUME NEW new \in {env.passfile, env.new},
             HasEntry(file), unlock(file, env, FALSE) # None,
             tasks' = [tasks EXCEPT ![t].step = "rename", ![t].store =
               [state |-> "good", verify |-> new, wrap |-> new, db |-> unlock(file, env, FALSE)]]
      PROVE  CredentialInv'
  <2> DEFINE store == [state |-> "good", verify |-> new, wrap |-> new, db |-> file.db]
  <2>1. unlock(file, env, FALSE) = file.db /\ file.state = "good" /\ file.db # None
    BY <1>4, Unlocked DEF HasEntry
  <2>2. store \in CredentialFile /\ Whole(store) /\ store.db = file.db
    BY <2>1, KeysKnown DEF CredentialFile, Whole
  <2>3. PICK row : row = [tasks[t] EXCEPT !.step = "rename", !.store = store]
    OBVIOUS
  <2>4. tasks' = [tasks EXCEPT ![t].step = "rename", ![t].store = store]
    BY <1>4, <2>1
  <2> HIDE DEF store
  <2>5. row \in CredentialTask /\ row.step = "rename" /\ row.store = store
        /\ tasks' = [tasks EXCEPT ![t] = row]
    BY <1>1, <2>2, <2>3, <2>4 DEF CredentialTask
  <2> QED
    <3>1. Restful(row) /\ UNCHANGED <<file, sealed, mailbox, consents, collided, refused, spent>>
      BY <2>1, <2>2, <2>5 DEF Restful, rekey
    <3> HIDE DEF CredentialInv, CredentialRows
    <3> QED
      BY <2>5, <3>1, TaskRests
<1> QED
  BY <1>2, <1>3, <1>4

\* The three ways a credential file is put in place.
LEMMA TruncateKeeps ==
  ASSUME CredentialInv, NEW t \in Tasks, tasks[t].step = "truncate", write_credential_file(t)
  PROVE  CredentialInv'
<1> USE DEF CredentialInv, CredentialRows
<1>1. /\ tasks' = [tasks EXCEPT ![t].step = "write"] /\ file' = [Absent EXCEPT !.state = "torn"]
      /\ collided' = (collided \/ HasEntry(file) \/ file.state = "torn")
      /\ UNCHANGED <<sealed, mailbox, consents, refused, spent>>
  BY DEF write_credential_file
<1>2. file' \in CredentialFile /\ file'.state = "torn" /\ file'.db = None /\ file'.verify = None
  BY <1>1, KeysKnown DEF Absent, CredentialFile
<1>3. tasks[t] \in CredentialTask /\ tasks'[t] = [tasks[t] EXCEPT !.step = "write"]
      /\ \A u \in Tasks : u # t => tasks'[u] = tasks[u]
  BY <1>1
<1>4. tasks'[t] \in CredentialTask /\ tasks'[t].step = "write" /\ tasks'[t].store = tasks[t].store
  BY <1>3 DEF CredentialTask
<1>5. CredentialRows'
  BY <1>1, <1>2, <1>3, <1>4
<1>6. ASSUME ~collided'
      PROVE  /\ ~collided /\ file.state = "absent"
             /\ \A u \in Tasks : u # t => tasks'[u].step \notin {"ready", "rename", "write"}
             /\ \A s \in Secret : sealed[s] = None
  <2>1. ~collided /\ ~HasEntry(file) /\ file.state # "torn"
    BY <1>1, <1>6
  <2>2. file.state = "absent"
    BY <2>1 DEF HasEntry, Whole, CredentialFile
  <2> QED
    BY <1>3, <2>1, <2>2 DEF TaskAgrees
<1>7. ASSUME ~collided' PROVE \A u \in Tasks : TaskAgrees(u)'
  BY <1>2, <1>3, <1>4, <1>6, <1>7 DEF TaskAgrees
<1> QED
  BY <1>1, <1>2, <1>3, <1>4, <1>5, <1>6, <1>7

LEMMA WriteKeeps ==
  ASSUME CredentialInv, NEW t \in Tasks, tasks[t].step = "write", write_credential_file(t)
  PROVE  CredentialInv'
<1> USE DEF CredentialInv, CredentialRows
<1>0. PICK store : store = tasks[t].store
  OBVIOUS
<1>1. /\ tasks' = [tasks EXCEPT ![t].step = "ready", ![t].pass = store.db, ![t].store = None]
      /\ file' = store /\ collided' = (collided \/ HasEntry(file))
      /\ UNCHANGED <<sealed, mailbox, consents, refused, spent>>
  BY <1>0 DEF write_credential_file
<1>2. store \in CredentialFile /\ Whole(store)
  BY <1>0
<1>3. tasks[t] \in CredentialTask
      /\ tasks'[t] = [tasks[t] EXCEPT !.step = "ready", !.pass = store.db, !.store = None]
      /\ \A u \in Tasks : u # t => tasks'[u] = tasks[u]
  BY <1>1
<1>4. tasks'[t] \in CredentialTask /\ tasks'[t].step = "ready" /\ tasks'[t].pass = store.db
  BY <1>2, <1>3 DEF CredentialTask, CredentialFile
<1>5. CredentialRows'
  BY <1>1, <1>2, <1>3, <1>4
<1>6. ASSUME ~collided'
      PROVE  /\ ~collided
             /\ \A u \in Tasks : u # t => tasks'[u].step \notin {"ready", "rename", "write"}
             /\ \A s \in Secret : sealed[s] = None
  <2>1. ~collided /\ file.state = "torn"
    BY <1>1, <1>6 DEF TaskAgrees
  <2> QED
    BY <1>3, <2>1 DEF TaskAgrees
<1>7. ASSUME ~collided' PROVE \A u \in Tasks : TaskAgrees(u)'
  BY <1>1, <1>2, <1>3, <1>4, <1>6, <1>7 DEF TaskAgrees, Whole
<1> QED
  BY <1>1, <1>2, <1>3, <1>4, <1>5, <1>6, <1>7 DEF Whole

LEMMA RenameKeeps ==
  ASSUME CredentialInv, NEW t \in Tasks, write_credential_file_atomic(t)
  PROVE  CredentialInv'
<1> USE DEF CredentialInv, CredentialRows
<1>1. /\ tasks' = [tasks EXCEPT ![t] = AtRest] /\ file' = tasks[t].store
      /\ tasks[t].step = "rename"
      /\ UNCHANGED <<sealed, mailbox, consents, collided, refused, spent>>
  BY DEF write_credential_file_atomic, Leave
<1>2. file' \in CredentialFile /\ Whole(file')
  BY <1>1
<1>3. tasks'[t] = AtRest /\ \A u \in Tasks : u # t => tasks'[u] = tasks[u]
  BY <1>1
<1>4. AtRest \in CredentialTask /\ AtRest.step = "idle"
  BY DEF AtRest, CredentialTask
<1>5. CredentialRows'
  BY <1>1, <1>2, <1>4
<1>6. ~collided => file.state = "good" /\ file'.state = "good" /\ file'.db = file.db
  BY <1>1, <1>2 DEF TaskAgrees, Whole
<1>7. ASSUME ~collided PROVE \A u \in Tasks : TaskAgrees(u)'
  BY <1>3, <1>4, <1>6, <1>7 DEF TaskAgrees
<1>8. file'.state = "good" /\ Whole(file)'
  BY <1>2 DEF Whole
<1>9. \A u \in Tasks : tasks'[u].step \in {"truncate", "write", "rename"} =>
        tasks'[u].store \in CredentialFile /\ Whole(tasks'[u].store)
  BY <1>3, <1>4
<1> QED
  BY <1>1, <1>3, <1>4, <1>5, <1>6, <1>7, <1>8, <1>9

\* The consents: a state is taken when its code is exchanged, and given out
\* only while it was not.
LEMMA ConsentsKeep ==
  ASSUME CredentialInv, UNCHANGED <<file, sealed, mailbox, collided, refused>>,
         \/ \E n \in 1..MaxConsents : start(n)
         \/ \E t \in Tasks : callback(t)
  PROVE  CredentialInv'
<1> USE DEF CredentialInv, CredentialRows
<1>1. ASSUME NEW n \in 1..MaxConsents, start(n) PROVE CredentialInv'
  <2>1. UNCHANGED tasks /\ \A u \in Tasks : TaskAgrees(u) <=> TaskAgrees(u)'
    BY <1>1 DEF start, TaskAgrees
  <2>2. CredentialRows' /\ \A m \in 1..MaxConsents : spent'[m] <= 1 /\ (m \in consents' => spent'[m] = 0)
    BY <1>1 DEF start
  <2>3. Whole(file) <=> Whole(file)'
    BY DEF Whole
  <2>4. \A u \in Tasks : Whole(tasks[u].store) <=> Whole(tasks[u].store)'
    BY <2>1 DEF Whole
  <2> QED
    BY <2>1, <2>2, <2>3, <2>4
<1>2. ASSUME NEW t \in Tasks, callback(t) PROVE CredentialInv'
  <2>1. PICK row : row = [AtRest EXCEPT !.step = "unlock", !.work = "gmail"]
    OBVIOUS
  <2>2. row \in CredentialTask /\ row.step = "unlock" /\ tasks' = [tasks EXCEPT ![t] = row]
    BY <1>2, <2>1 DEF AtRest, CredentialTask, Secret, callback
  <2>3. tasks'[t] = row /\ \A u \in Tasks : u # t => tasks'[u] = tasks[u]
    BY <2>2
  <2>4. PICK n \in consents : consents' = consents \ {n} /\ spent' = [spent EXCEPT ![n] = @ + 1]
    BY <1>2 DEF callback
  <2>5. consents' \subseteq 1..MaxConsents /\ spent' \in [1..MaxConsents -> Nat]
        /\ \A m \in 1..MaxConsents : spent'[m] <= 1 /\ (m \in consents' => spent'[m] = 0)
    <3>1. n \in 1..MaxConsents /\ spent[n] = 0
      BY <2>4
    <3>2. spent' \in [1..MaxConsents -> Nat] /\ spent'[n] = 1
          /\ \A m \in 1..MaxConsents : m # n => spent'[m] = spent[m]
      BY <2>4, <3>1
    <3>3. \A m \in 1..MaxConsents : spent'[m] <= 1
      BY <3>2
    <3>4. ASSUME NEW m \in consents' PROVE spent'[m] = 0
      <4>1. m \in consents /\ m # n
        BY <2>4
      <4> QED
        BY <3>2, <4>1
    <3> QED
      BY <2>4, <3>2, <3>3, <3>4
  <2>6. CredentialRows'
    BY <2>2, <2>5
  <2>7. ASSUME ~collided, NEW u \in Tasks PROVE TaskAgrees(u)'
    BY <2>2, <2>3, <2>7 DEF TaskAgrees
  <2>8. Whole(file) <=> Whole(file)'
    BY DEF Whole
  <2> QED
    BY <2>2, <2>3, <2>5, <2>6, <2>7, <2>8 DEF Whole
<1> QED
  BY <1>1, <1>2

\* The requests that only come or go.
LEMMA ComingAndGoing ==
  ASSUME CredentialInv, NEW t \in Tasks, connect_gmail(t) \/ Started(t) \/ Abandon(t)
  PROVE  CredentialInv'
<1>1. UNCHANGED <<file, sealed, mailbox, consents, collided, refused, spent>>
  BY DEF connect_gmail, Started, Abandon
<1>2. ASSUME NEW work \in Secret \cup {"rekey", "open", None},
             tasks' = [tasks EXCEPT ![t] = [AtRest EXCEPT !.step = "unlock", !.work = work]]
      PROVE  CredentialInv'
  <2>1. PICK row : row = [AtRest EXCEPT !.step = "unlock", !.work = work]
    OBVIOUS
  <2>2. row \in CredentialTask /\ Restful(row) /\ tasks' = [tasks EXCEPT ![t] = row]
    BY <1>2, <2>1 DEF AtRest, CredentialTask, Restful
  <2> QED
    BY <1>1, <2>2, TaskRests
<1>3. CASE connect_gmail(t)
  BY <1>2, <1>3 DEF connect_gmail, Secret
<1>4. CASE Started(t)
  <2>1. PICK work \in {"push", "rekey", "open"} :
          tasks' = [tasks EXCEPT ![t] = [AtRest EXCEPT !.step = "unlock", !.work = work]]
    BY <1>4 DEF Started
  <2> QED
    BY <1>2, <2>1 DEF Secret
<1>5. CASE Abandon(t)
  <2>1. AtRest \in CredentialTask /\ Restful(AtRest) /\ tasks' = [tasks EXCEPT ![t] = AtRest]
    BY <1>5 DEF AtRest, CredentialTask, Restful, Abandon, Leave
  <2> QED
    BY <1>1, <2>1, TaskRests
<1> QED
  BY <1>3, <1>4, <1>5

\* What a task that holds the passphrase writes, or fails to read.
LEMMA SealingKeeps ==
  ASSUME CredentialInv, NEW t \in Tasks,
         \/ upsert_imap_account_and_travel_settings(t) \/ StoreRefresh(t)
         \/ key(t) \/ resolve_credentials(t)
  PROVE  CredentialInv'
<1> USE DEF CredentialInv, CredentialRows
<1>1. /\ tasks' = [tasks EXCEPT ![t] = AtRest] /\ tasks[t].step = "ready"
      /\ UNCHANGED <<file, consents, collided, spent>>
  BY DEF upsert_imap_account_and_travel_settings, StoreRefresh, key, resolve_credentials, Done, Leave
<1>2. AtRest \in CredentialTask /\ AtRest.step = "idle" /\ tasks[t] \in CredentialTask
  BY DEF AtRest, CredentialTask
<1>3. tasks' \in [Tasks -> CredentialTask] /\ tasks'[t] = AtRest
      /\ \A u \in Tasks : u # t => tasks'[u] = tasks[u]
  BY <1>1, <1>2
<1>4. /\ sealed' = sealed \/ \E s \in Secret : sealed' = [sealed EXCEPT ![s] = tasks[t].pass]
      /\ mailbox' = mailbox
         \/ (mailbox' = [stored |-> TRUE, selected |-> TRUE] /\ sealed' = [sealed EXCEPT !["account"] = tasks[t].pass])
      /\ refused' = refused
         \/ (mailbox' = mailbox /\ refused' = (refused \/ (mailbox.stored /\ sealed["account"] # tasks[t].pass)))
  BY DEF upsert_imap_account_and_travel_settings, StoreRefresh, key, resolve_credentials, Done, encrypt,
         decrypts, Secret
<1>5. tasks[t].pass \in Passphrases \cup {None} /\ sealed' \in [Secret -> Passphrases \cup {None}]
  BY <1>2, <1>4 DEF CredentialTask
<1>6. mailbox' \in [stored : BOOLEAN, selected : BOOLEAN]
  <2>1. mailbox' = mailbox \/ mailbox' = [stored |-> TRUE, selected |-> TRUE]
    BY <1>4
  <2>2. [stored |-> TRUE, selected |-> TRUE] \in [stored : BOOLEAN, selected : BOOLEAN]
    OBVIOUS
  <2>3. mailbox \in [stored : BOOLEAN, selected : BOOLEAN]
    OBVIOUS
  <2> HIDE DEF CredentialInv, CredentialRows
  <2> QED
    BY ONLY <2>1, <2>2, <2>3, Zenon
<1>7. ASSUME ~collided
      PROVE  /\ file.state = "good" /\ tasks[t].pass = file.db /\ file.db # None
             /\ \A s \in Secret : sealed'[s] # None => sealed'[s] = file.db
             /\ mailbox'.stored => sealed'["account"] # None
             /\ ~refused'
             /\ \A u \in Tasks : TaskAgrees(u)'
  <2>1. file.state = "good" /\ tasks[t].pass = file.db /\ file.db # None
    BY <1>1, <1>7 DEF TaskAgrees, Whole
  <2>2. \A s \in Secret : sealed[s] # None => sealed[s] = file.db
    BY <1>7
  <2>3. "account" \in Secret
    BY DEF Secret
  <2>4. \A s \in Secret : sealed'[s] # None => sealed'[s] = file.db
    BY <1>4, <2>1, <2>2
  <2>5. \A s \in Secret : sealed[s] # None => sealed'[s] # None
    BY <1>4, <2>1
  <2>6. mailbox'.stored => sealed'["account"] # None
    BY <1>4, <1>7, <2>1, <2>3, <2>5
  <2>7. ~refused'
    BY <1>4, <1>7, <2>1, <2>2, <2>3
  <2>8. \A u \in Tasks : TaskAgrees(u)'
    BY <1>1, <1>2, <1>3, <1>7 DEF TaskAgrees
  <2> QED
    BY <2>1, <2>4, <2>6, <2>7, <2>8
<1>8. CredentialRows'
  BY <1>1, <1>3, <1>5, <1>6
<1>9. Whole(file) <=> Whole(file)'
  BY <1>1 DEF Whole
<1> QED
  BY <1>1, <1>2, <1>3, <1>7, <1>8, <1>9 DEF Whole

LEMMA CredentialsStepInv == CredentialInv /\ [CredentialsNext]_cred_vars => CredentialInv'
<1> SUFFICES ASSUME CredentialInv, [CredentialsNext]_cred_vars PROVE CredentialInv'
  OBVIOUS
<1>1. CASE UNCHANGED cred_vars
  BY <1>1 DEF cred_vars, CredentialInv, CredentialRows, TaskAgrees, Whole
<1>2. ASSUME NEW t \in Tasks,
             \/ connect_gmail(t) \/ callback(t) \/ Started(t) \/ file_get_or_create_passphrase(t)
             \/ write_credential_file(t) \/ rekey(t) \/ write_credential_file_atomic(t) \/ Abandon(t)
             \/ upsert_imap_account_and_travel_settings(t) \/ StoreRefresh(t) \/ key(t)
             \/ resolve_credentials(t)
      PROVE  CredentialInv'
  <2>1. CASE connect_gmail(t) \/ Started(t) \/ Abandon(t)
    BY <2>1, ComingAndGoing
  <2>2. CASE callback(t)
    BY <2>2, ConsentsKeep DEF callback
  <2>3. CASE file_get_or_create_passphrase(t)
    BY <2>3, UnlockKeeps
  <2>4. CASE write_credential_file(t)
    BY <2>4, TruncateKeeps, WriteKeeps DEF write_credential_file
  <2>5. CASE rekey(t)
    BY <2>5, RekeyKeeps
  <2>6. CASE write_credential_file_atomic(t)
    BY <2>6, RenameKeeps
  <2>7. CASE \/ upsert_imap_account_and_travel_settings(t) \/ StoreRefresh(t)
             \/ key(t) \/ resolve_credentials(t)
    BY <2>7, SealingKeeps
  <2> QED
    BY <1>2, <2>1, <2>2, <2>3, <2>4, <2>5, <2>6, <2>7
<1>3. ASSUME NEW n \in 1..MaxConsents, start(n) PROVE CredentialInv'
  BY <1>3, ConsentsKeep DEF start
<1>4. CASE delete_account
  <2> USE DEF CredentialInv, CredentialRows
  <2>1. /\ mailbox' \in [stored : BOOLEAN, selected : BOOLEAN] /\ mailbox'.stored = FALSE
        /\ sealed' \in [Secret -> Passphrases \cup {None}]
        /\ \A s \in Secret : sealed'[s] # None => sealed[s] = sealed'[s]
        /\ UNCHANGED <<file, tasks, consents, collided, refused, spent>>
    BY <1>4 DEF delete_account
  <2>2. CredentialRows'
    BY <2>1
  <2>3. \A u \in Tasks : TaskAgrees(u) <=> TaskAgrees(u)'
    BY <2>1 DEF TaskAgrees
  <2> QED
    BY <2>1, <2>2, <2>3 DEF Whole
<1> QED
  BY <1>1, <1>2, <1>3, <1>4 DEF CredentialsNext

(* Every secret the database keeps is sealed under the passphrase that the *)
(* credential file wraps, and a consent is exchanged once, for any number  *)
(* of requests, keys and consents (credential_store.rs                     *)
(* file_get_or_create_passphrase and rekey, oauth.rs callback).            *)
THEOREM SecretsStayOpen == CredentialsSpec => []SecretsOpen
<1>1. CredentialInv => SecretsOpen
  <2> SUFFICES ASSUME CredentialInv PROVE SecretsOpen
    OBVIOUS
  <2>1. file.verify \in {None, file.wrap}
    BY DEF CredentialInv, Whole
  <2>2. /\ ~collided => ~refused
        /\ ~collided => \A s \in Secret : sealed[s] # None => file.state = "good" /\ sealed[s] = file.db
        /\ \A n \in 1..MaxConsents : spent[n] <= 1
    BY DEF CredentialInv
  <2> QED
    BY <2>1, <2>2 DEF SecretsOpen
<1> QED
  BY CredentialsInitInv, CredentialsStepInv, <1>1, PTL DEF CredentialsSpec

-----------------------------------------------------------------------------
(* The Gmail API poll.  A backfill page reaches from its token down to the *)
(* next token without a gap, so what is handled of it closes that range.   *)

Token == (Nat \ {0}) \cup {None}

\* Where the messages still to be listed end.
Low(token) == IF token = None THEN 1 ELSE token

\* Only a pass that read a token has a backfill page before it or under way.
PollMakesSense ==
  /\ poll.page \in Token /\ poll.cursor \in Token /\ poll.next \in Token
  /\ poll.step \in {"rest", "list", "messages", "preserved", "ingested"}
  /\ poll.step # "rest" => poll.page = account
  /\ poll.cursors \subseteq {"newest", "backfill"}
  /\ "backfill" \in poll.cursors => poll.page # None
  /\ poll.step \in {"messages", "preserved", "ingested"} =>
       /\ poll.cursor = None /\ poll.page = None => poll.cursors = {}
       /\ poll.cursor # None => poll.cursors = {} /\ poll.cursor = poll.page

\* A backfill page under way, and how far each message of it has come.
PageIsWhole ==
  /\ poll.step \in {"messages", "preserved", "ingested"} /\ poll.cursor # None =>
       \A m \in Low(poll.next)..(poll.cursor - 1) : m \in poll.batch \/ m \in receipts
  /\ poll.step = "ingested" => Current \in receipts

PollInv ==
  /\ arrived \in Nat /\ account \in Token /\ top \in Token
  /\ PollMakesSense /\ PageIsWhole
  /\ top # None => \A m \in Low(account)..(top - 1) : m \in receipts
  /\ seen \subseteq receipts

LEMMA SmallestOf ==
  ASSUME NEW S \in SUBSET Nat, S # {}
  PROVE  Min(S) \in S /\ \A x \in S : Min(S) <= x
<1> DEFINE R == OpToRel(<, Nat)
<1>1. PICK x \in S : \A y \in S : <<y, x>> \notin R
  BY NatLessThanWellFounded, WFMin
<1>2. \A y \in S : <<y, x>> \notin {p \in Nat \X Nat : p[1] < p[2]}
  BY <1>1 DEF OpToRel
<1>3. \A y \in S : x <= y
  <2> SUFFICES ASSUME NEW y \in S PROVE x <= y
    OBVIOUS
  <2>1. ~(y < x)
    BY <1>2
  <2> QED
    BY <2>1
<1> QED
  BY <1>3 DEF Min

\* A page has no gap: whatever is below its token and not below the next one
\* is on it.
LEMMA PageHasNoGap ==
  ASSUME arrived \in Nat, NEW cursor \in Token
  PROVE  /\ nextPageToken(cursor) \in Token
         /\ cursor # None => \A m \in Low(nextPageToken(cursor))..(cursor - 1) : m \in Page(cursor)
<1>1. PICK last \in Nat : Below(cursor) = 1..last /\ (cursor # None => last = cursor - 1)
  <2>1. CASE cursor = None
    BY <2>1 DEF Below
  <2>2. CASE cursor # None
    <3>1. cursor \in Nat /\ cursor >= 1 /\ cursor - 1 \in Nat
      BY <2>2 DEF Token
    <3> QED
      BY <2>2, <3>1 DEF Below
  <2> QED
    BY <2>1, <2>2
<1> DEFINE newer(m) == {n \in 1..last : n > m}
<1>2. Page(cursor) = {m \in 1..last : Cardinality(newer(m)) < PageSize}
  BY <1>1 DEF Page
<1>3. CASE Page(cursor) = Below(cursor)
  <2>1. nextPageToken(cursor) = None
    BY <1>3 DEF nextPageToken
  <2> QED
    BY <1>1, <1>3, <2>1 DEF Token, Low
<1>4. CASE Page(cursor) # Below(cursor)
  <2>1. last >= 1
    BY <1>1, <1>2, <1>4
  <2>2. newer(last) = {}
    OBVIOUS
  <2>3. Cardinality(newer(last)) < PageSize
    BY <2>2, FS_EmptySet, PollAssumption
  <2>4. last \in Page(cursor) /\ Page(cursor) \in SUBSET Nat
    BY <1>2, <2>1, <2>3
  <2> DEFINE next == Min(Page(cursor))
  <2>5. next \in Page(cursor) /\ next \in 1..last /\ Cardinality(newer(next)) < PageSize
    BY <1>2, <2>4, SmallestOf
  <2>6. nextPageToken(cursor) = next
    BY <1>4 DEF nextPageToken
  <2> HIDE DEF next
  <2>7. ASSUME NEW m \in next..last PROVE m \in Page(cursor)
    <3>1. m \in 1..last /\ newer(m) \in SUBSET newer(next)
      BY <2>5
    <3>2. IsFiniteSet(1..last)
      BY FS_Interval
    <3>3. IsFiniteSet(newer(next))
      BY <3>2, FS_Subset
    <3>4. Cardinality(newer(m)) <= Cardinality(newer(next))
          /\ IsFiniteSet(newer(m))
      BY <3>1, <3>3, FS_Subset
    <3>5. Cardinality(newer(m)) \in Nat /\ Cardinality(newer(next)) \in Nat /\ PageSize \in Nat
      BY <3>3, <3>4, FS_CardinalityType, PollAssumption
    <3>6. Cardinality(newer(m)) < PageSize
      BY <2>5, <3>4, <3>5
    <3> QED
      BY <1>2, <3>1, <3>6
  <2>8. next # None /\ next \in Token
    BY <2>5, PollAssumption DEF Token
  <2> QED
    BY <1>1, <2>6, <2>7, <2>8 DEF Low
<1> QED
  BY <1>3, <1>4

LEMMA PollInitInv == PollInit => PollInv
BY DEF PollInit, PollInv, PollMakesSense, PageIsWhole, Resting, Token

\* The pass ends, or the mailbox grows: nothing is claimed of a page.
LEMMA PollRests ==
  ASSUME PollInv, arrived' \in Nat, UNCHANGED <<account, seen, receipts, top>>,
         poll' \in {Resting, poll}
  PROVE  PollInv'
<1>1. CASE poll' = Resting
  BY <1>1 DEF PollInv, PollMakesSense, PageIsWhole, Resting, Token
<1>2. CASE poll' = poll
  BY <1>2 DEF PollInv, PollMakesSense, PageIsWhole, Current
<1> QED
  BY <1>1, <1>2

LEMMA SynchronizeKeeps == PollInv /\ synchronize => PollInv'
<1> SUFFICES ASSUME PollInv, synchronize PROVE PollInv'
  OBVIOUS
<1>1. /\ poll'.step = "list" /\ poll'.page = account /\ poll'.cursor = None /\ poll'.next = None
      /\ poll'.cursors = {"newest"} \cup (IF account = None THEN {} ELSE {"backfill"})
      /\ UNCHANGED <<arrived, account, seen, receipts, top>>
  BY DEF synchronize, Resting
<1>2. PollMakesSense'
  BY <1>1 DEF PollInv, PollMakesSense, Token
<1>3. PageIsWhole'
  BY <1>1 DEF PageIsWhole
<1> QED
  BY <1>1, <1>2, <1>3 DEF PollInv

LEMMA ListPageKeeps == PollInv /\ ListPage => PollInv'
<1> SUFFICES ASSUME PollInv, ListPage PROVE PollInv'
  OBVIOUS
<1>1. PICK cursor \in Token :
        /\ cursor = IF "newest" \in poll.cursors THEN None ELSE poll.page
        /\ poll' = [poll EXCEPT !.step = "messages", !.cursor = cursor, !.batch = Page(cursor),
                      !.next = nextPageToken(cursor),
                      !.cursors = IF "newest" \in @ THEN @ \ {"newest"} ELSE {}]
  BY DEF ListPage, PollInv, PollMakesSense, Token
<1>2. PICK batch, next : batch = Page(cursor) /\ next = nextPageToken(cursor)
  OBVIOUS
<1>3. /\ next \in Token
      /\ cursor # None => \A m \in Low(next)..(cursor - 1) : m \in batch
  BY <1>2, PageHasNoGap DEF PollInv
<1>4. /\ poll.step = "list" /\ poll.cursors # {}
      /\ UNCHANGED <<arrived, account, seen, receipts, top>>
  BY DEF ListPage
<1>5. /\ poll'.step = "messages" /\ poll'.cursor = cursor /\ poll'.batch = batch /\ poll'.next = next
      /\ poll'.cursors = (IF "newest" \in poll.cursors THEN poll.cursors \ {"newest"} ELSE {})
      /\ poll'.page = poll.page
  BY <1>1, <1>2 DEF PollInv, PollMakesSense
<1>6. PollMakesSense'
  BY <1>1, <1>3, <1>4, <1>5 DEF PollInv, PollMakesSense
<1>7. PageIsWhole'
  BY <1>3, <1>4, <1>5 DEF PageIsWhole
<1> QED
  BY <1>4, <1>6, <1>7 DEF PollInv

\* One message of a page is passed over, preserved, ingested or marked.
LEMMA MessageKeeps ==
  ASSUME PollInv, Skip \/ preserve \/ ingest_external \/ MarkSeen
  PROVE  PollInv'
<1> USE DEF PollInv
<1>1. /\ receipts \subseteq receipts' /\ seen' \subseteq receipts'
      /\ UNCHANGED <<arrived, account, top>>
  BY DEF Skip, preserve, ingest_external, MarkSeen, PageIsWhole
<1>2. /\ poll.step \in {"messages", "preserved", "ingested"}
      /\ poll'.step \in {"messages", "preserved", "ingested"}
      /\ UNCHANGED <<poll.cursors, poll.cursor, poll.next, poll.page>>
      /\ poll'.step = "ingested" => poll'.batch = poll.batch /\ Current \in receipts'
      /\ \A m \in poll.batch : m \in poll'.batch \/ m \in receipts'
  <2>1. CASE Skip
    BY <2>1 DEF Skip
  <2>2. CASE preserve
    BY <2>2 DEF preserve
  <2>3. CASE ingest_external
    BY <2>3 DEF ingest_external, find_receipt_duplicate
  <2>4. CASE MarkSeen
    BY <2>4 DEF MarkSeen, PageIsWhole
  <2> QED
    BY <2>1, <2>2, <2>3, <2>4
<1>3. PollMakesSense'
  BY <1>1, <1>2 DEF PollMakesSense
<1>4. PageIsWhole'
  BY <1>1, <1>2 DEF PageIsWhole, Current
<1> QED
  BY <1>1, <1>3, <1>4

\* A page is done only when its batch is empty, so the range down to the next
\* token is handled.
LEMMA FinishPageKeeps == PollInv /\ FinishPage => PollInv'
<1> SUFFICES ASSUME PollInv, FinishPage PROVE PollInv'
  OBVIOUS
<1> USE DEF PollInv
<1>1. /\ poll.step = "messages" /\ poll.batch = {} /\ UNCHANGED <<arrived, seen, receipts>>
      /\ poll.page = account /\ poll.next \in Token
  BY DEF FinishPage, PollMakesSense
<1>2. account' \in Token /\ top' \in Token
  BY <1>1 DEF FinishPage
<1>3. poll.cursor # None => \A m \in Low(poll.next)..(poll.cursor - 1) : m \in receipts
  BY <1>1 DEF PageIsWhole
<1>4. top' # None => \A m \in Low(account')..(top' - 1) : m \in receipts
  <2>1. CASE poll.cursor = None /\ poll.page = None
    <3>1. account' = poll.next /\ top' = poll.next
      BY <2>1 DEF FinishPage, StoresToken
    <3> QED
      BY <1>1, <3>1 DEF Low, Token
  <2>2. CASE poll.cursor = None /\ poll.page # None
    <3>1. account' = account /\ top' = top
      BY <2>2 DEF FinishPage, StoresToken
    <3> QED
      BY <3>1
  <2>3. CASE poll.cursor # None
    <3>1. account' = poll.next /\ top' = top /\ poll.cursor = account
      BY <1>1, <2>3 DEF FinishPage, StoresToken, PollMakesSense
    <3>2. account \in Nat /\ Low(account) = account /\ Low(poll.next) \in Nat /\ top \in Token
      BY <1>1, <2>3, <3>1 DEF Low, Token
    <3>3. ASSUME top # None, NEW m \in Low(poll.next)..(top - 1) PROVE m \in receipts
      <4>1. top \in Nat /\ m \in Nat
        BY <3>2, <3>3 DEF Token
      <4>2. CASE m >= account
        BY <3>2, <3>3, <4>1, <4>2
      <4>3. CASE m < account
        <5>1. m \in Low(poll.next)..(poll.cursor - 1)
          BY <3>1, <3>2, <3>3, <4>1, <4>3
        <5> QED
          BY <1>3, <2>3, <5>1
      <4> QED
        BY <3>2, <4>1, <4>2, <4>3
    <3> QED
      BY <3>1, <3>3
  <2> QED
    BY <2>1, <2>2, <2>3
<1>5. PollMakesSense' /\ PageIsWhole'
  <2>1. CASE poll.cursors = {}
    <3>1. poll' = Resting
      BY <2>1 DEF FinishPage
    <3> QED
      BY <3>1 DEF PollMakesSense, PageIsWhole, Resting, Token
  <2>2. CASE poll.cursors # {}
    <3>1. /\ poll'.step = "list"
          /\ UNCHANGED <<poll.cursors, poll.cursor, poll.next, poll.page>>
      BY <2>2 DEF FinishPage
    <3>2. poll.cursor = None /\ poll.page # None
      BY <1>1, <2>2 DEF PollMakesSense
    <3>3. account' = account
      BY <3>2 DEF FinishPage, StoresToken
    <3>4. PollMakesSense'
      BY <1>1, <3>1, <3>2, <3>3 DEF PollMakesSense
    <3> QED
      BY <3>1, <3>4 DEF PageIsWhole
  <2> QED
    BY <2>1, <2>2
<1> QED
  BY <1>1, <1>2, <1>4, <1>5

(* However passes fail and mail arrives, the backfill leaves no hole       *)
(* behind: what lies between where it began and the stored token was       *)
(* handed to the receipts, for any number of messages and any size of a    *)
(* page (oauth.rs synchronize).                                            *)
THEOREM NoHoleBehind == PollSpec => []TokenNeverSkips
<1>1. PollInv /\ [PollNext]_poll_vars => PollInv'
  <2> SUFFICES ASSUME PollInv, [PollNext]_poll_vars PROVE PollInv'
    OBVIOUS
  <2>1. CASE MailComes \/ PollFails \/ UNCHANGED poll_vars
    <3>1. arrived' \in Nat
      BY <2>1 DEF PollInv, MailComes, PollFails, poll_vars
    <3>2. UNCHANGED <<account, seen, receipts, top>> /\ poll' \in {Resting, poll}
      BY <2>1 DEF MailComes, PollFails, poll_vars
    <3> QED
      BY <3>1, <3>2, PollRests
  <2> QED
    BY <2>1, SynchronizeKeeps, ListPageKeeps, MessageKeeps, FinishPageKeeps DEF PollNext
<1>2. PollInv => TokenNeverSkips
  BY DEF PollInv, TokenNeverSkips, Low
<1> QED
  BY PollInitInv, <1>1, <1>2, PTL DEF PollSpec

-----------------------------------------------------------------------------
(* The outbound gate.  What a send must have earned is fixed when it goes: *)
(* a sent draft is never touched again, and a declaration that counts was  *)
(* authored for the revision it is read with.                              *)

\* A declaration of the revision at hand says no more than its author did.
DeclarationIsAuthored ==
  mail.declaration # None =>
    /\ mail.declaration.revision <= mail.revision
    /\ mail.declaration.revision = mail.revision => mail.declaration.attrs \subseteq authored
    /\ mail.status = "queued" => mail.declaration.attempts <= MAX_ATTRIBUTION_ATTEMPTS

GovernedInv ==
  /\ GovernedTypeOK /\ DeclarationIsAuthored /\ SendsAreEarned
  /\ left # None => mail.status = "sent"
  /\ request # None => mail.status = None

\* What is resolved is observed, declared, or a person's approval.
LEMMA ResolvedAttributes ==
  ASSUME NEW declared, NEW ctx \in AttributedSendContext, NEW approved \in BOOLEAN, NEW require
  PROVE  /\ resolve(declared, ctx, approved, require).attrs
              \subseteq ctx.true \cup declared \cup REQUIRES_ATTESTATION
         /\ "tyler_approved" \in resolve(declared, ctx, approved, require).attrs => approved
<1> DEFINE derived == to_governor_attrs(ctx, approved)
           accepted == Accepted(declared, ctx)
<1>1. accepted \subseteq declared /\ accepted \subseteq DECLARABLE \cup HOST_DERIVED
  BY DEF Accepted
<1>2. ctx.true \subseteq HOST_DERIVED
  BY DEF AttributedSendContext
<1>3. "tyler_approved" \notin DECLARABLE \cup HOST_DERIVED
  BY DEF DECLARABLE, HOST_DERIVED
<1>4. derived \subseteq ctx.true \cup REQUIRES_ATTESTATION
      /\ ("tyler_approved" \in derived => approved)
  BY <1>2, <1>3 DEF to_governor_attrs, REQUIRES_ATTESTATION
<1>5. resolve(declared, ctx, approved, require).attrs \in {{}, derived \cup accepted}
  BY DEF resolve
<1> HIDE DEF derived, accepted
<1> QED
  BY <1>1, <1>2, <1>3, <1>4, <1>5

\* The ways through the gate.
LEMMA GateAllows ==
  ASSUME NEW mode, NEW resolution, NEW run,
         gate_with_attribution(mode, resolution, run).allowed
  PROVE  \/ mode = "off"
         \/ /\ resolution.state = "attributed"
            /\ mode = "warn" \/ (run.success /\ run.decision = "allow")
BY DEF gate_with_attribution, Outcome, FailureCode, interpret_governor_invocation, fail_outcome,
       decide_from_verdict

LEMMA DraftsWritten ==
  ASSUME NEW status \in {"draft", "queued", "sent"}, NEW declaration \in Declaration \cup {None}
  PROVE  /\ DraftWritten(status, declaration) \in MailRow
         /\ DraftWritten(status, declaration).status = status
         /\ DraftWritten(status, declaration).declaration = declaration
         /\ DraftWritten(status, declaration).revision = 0
<1>1. NoMail \in MailRow /\ NoMail.revision = 0
  <2>1. 0 \in 0..MaxEdits
    BY GovernedAssumption
  <2> QED
    BY <2>1 DEF NoMail, MailRow
<1>2. PICK row : row = [NoMail EXCEPT !.status = status, !.declaration = declaration]
  OBVIOUS
<1>3. row \in MailRow /\ row.status = status /\ row.declaration = declaration /\ row.revision = 0
  BY <1>1, <1>2 DEF MailRow
<1> QED
  BY <1>2, <1>3 DEF DraftWritten

LEMMA GovernedInitInv == GovernedInit => GovernedInv
<1> SUFFICES ASSUME GovernedInit PROVE GovernedInv
  OBVIOUS
<1>1. mail \in MailRow /\ mail.status = None /\ mail.declaration = None
  BY GovernedAssumption DEF GovernedInit, NoMail, MailRow
<1>2. agent \in AgentRow
  <2>1. agent = [known |-> FALSE, revoked |-> FALSE, policy |-> None]
    BY DEF GovernedInit
  <2> QED
    BY <2>1 DEF AgentRow
<1> QED
  BY <1>1, <1>2 DEF GovernedInit, GovernedInv, GovernedTypeOK, DeclarationIsAuthored, SendsAreEarned

\* Identities, policies, and an agent's request.
LEMMA AdmittedKeeps ==
  ASSUME GovernedInv, create_agent \/ revoke_agent \/ set_agent_policy \/ Admit
  PROVE  GovernedInv'
<1> USE DEF GovernedInv, GovernedTypeOK
<1>1. UNCHANGED <<governor, mail, situation, authored, left>>
  BY DEF create_agent, revoke_agent, set_agent_policy, Admit
<1>2. DeclarationIsAuthored' /\ SendsAreEarned'
  BY <1>1 DEF DeclarationIsAuthored, SendsAreEarned
<1>3. agent' \in AgentRow
  <2>1. CASE create_agent
    <3>1. agent' = [agent EXCEPT !.known = TRUE]
      BY <2>1 DEF create_agent
    <3> QED
      BY <3>1 DEF AgentRow
  <2>2. CASE revoke_agent
    <3>1. agent' = [agent EXCEPT !.revoked = TRUE]
      BY <2>2 DEF revoke_agent
    <3> QED
      BY <3>1 DEF AgentRow
  <2>3. CASE set_agent_policy
    <3>1. PICK p \in Policy : agent' = [agent EXCEPT !.policy = p]
      BY <2>3 DEF set_agent_policy
    <3> QED
      BY <3>1 DEF AgentRow
  <2>4. CASE Admit
    BY <2>4 DEF Admit
  <2> QED
    BY <2>1, <2>2, <2>3, <2>4
<1>4. request' = request \/ (request' \in SendPolicyInput /\ mail.status = None)
  <2>1. CASE Admit
    <3>1. get_agent_policy.ceiling \in SendMode
      BY DEF get_agent_policy, AgentRow, Policy, SendMode
    <3>2. ASSUME NEW mode \in SendMode PROVE clamp_send_mode(mode) \in SendMode
      BY <3>1 DEF clamp_send_mode, stricter
    <3>3. PICK d \in Declared, listed \in BOOLEAN, confirm \in BOOLEAN, now \in BOOLEAN, mode \in SendMode :
            request' = [declared |-> d, listed |-> listed, confirm |-> confirm, now |-> now,
                        mode |-> clamp_send_mode(mode)]
      BY <2>1 DEF Admit
    <3>4. mail.status = None
      BY <2>1 DEF Admit
    <3>5. request' \in SendPolicyInput
      BY <3>2, <3>3 DEF SendPolicyInput
    <3> QED
      BY <3>4, <3>5
  <2> QED
    BY <2>1 DEF create_agent, revoke_agent, set_agent_policy
<1> QED
  BY <1>1, <1>2, <1>3, <1>4

\* What an agent asks to send goes at once only through the gate.
LEMMA SubmitKeeps == GovernedInv /\ Submit => GovernedInv'
<1> SUFFICES ASSUME GovernedInv, Submit PROVE GovernedInv'
  OBVIOUS
<1> USE DEF GovernedInv, GovernedTypeOK
<1> DEFINE resolution == resolve(request.declared, situation, FALSE, TRUE)
<1>1. /\ request # None /\ request' = None /\ mail.status = None /\ left = None
      /\ UNCHANGED <<governor, agent, situation>>
  BY GovernedAssumption DEF Submit
<1>2. request.declared \in SUBSET Attributes
  BY <1>1, DeclaredAssumption DEF SendPolicyInput
<1>3. \/ UNCHANGED <<mail, authored, left>>
      \/ mail' = DraftWritten("draft", None) /\ UNCHANGED <<authored, left>>
      \/ /\ mail' = DraftWritten("queued", new_bot(request.declared)) /\ authored' = request.declared
         /\ UNCHANGED left
      \/ \E run \in Invocation :
           /\ evaluate_send_policy(request.mode, request.confirm, request.listed) = "allowed"
           /\ gate_with_attribution(governor, resolution, run).allowed
           /\ mail' = DraftWritten("sent", None) /\ authored' = request.declared
           /\ left' = Sent("agent", resolution, run)
  BY DEF Submit
<1> HIDE DEF resolution
<1>4. CASE UNCHANGED <<mail, authored, left>>
  BY <1>1, <1>4 DEF DeclarationIsAuthored, SendsAreEarned
<1>5. CASE mail' = DraftWritten("draft", None) /\ UNCHANGED <<authored, left>>
  <2>1. mail' \in MailRow /\ mail'.declaration = None
    BY <1>5, DraftsWritten
  <2> QED
    BY <1>1, <1>5, <2>1 DEF DeclarationIsAuthored, SendsAreEarned
<1>6. CASE /\ mail' = DraftWritten("queued", new_bot(request.declared)) /\ authored' = request.declared
           /\ UNCHANGED left
  <2>1. PICK decl : decl = new_bot(request.declared)
    OBVIOUS
  <2>2. decl \in Declaration /\ decl.revision = 0 /\ decl.attempts = 0 /\ decl.attrs = request.declared
    BY <1>2, <2>1, GovernedAssumption DEF new_bot, Declaration
  <2>3. mail' \in MailRow /\ mail'.declaration = decl /\ mail'.revision = 0
    BY <1>6, <2>1, <2>2, DraftsWritten
  <2> QED
    BY <1>1, <1>6, <2>2, <2>3, GovernedAssumption DEF DeclarationIsAuthored, SendsAreEarned
<1>7. ASSUME NEW run \in Invocation,
             evaluate_send_policy(request.mode, request.confirm, request.listed) = "allowed",
             gate_with_attribution(governor, resolution, run).allowed,
             mail' = DraftWritten("sent", None), authored' = request.declared,
             left' = Sent("agent", resolution, run)
      PROVE  GovernedInv'
  <2>1. mail' \in MailRow /\ mail'.declaration = None /\ mail'.status = "sent"
    BY <1>7, DraftsWritten
  <2>2. \/ governor = "off"
        \/ /\ resolution.state = "attributed"
           /\ governor = "warn" \/ (run.success /\ run.decision = "allow")
    BY <1>7, GateAllows
  <2>3. /\ resolution.attrs \subseteq situation.true \cup request.declared \cup REQUIRES_ATTESTATION
        /\ "tyler_approved" \notin resolution.attrs
    BY ResolvedAttributes, SituationAssumption DEF resolution
  <2>4. request.mode # "draft-only"
    BY <1>7 DEF evaluate_send_policy
  <2>5. /\ left'.by = "agent" /\ left'.judged = resolution.attrs /\ left'.state = resolution.state
        /\ left'.run = run /\ left'.mode = request.mode
    BY <1>1, <1>7 DEF Sent
  <2>6. SendsAreEarned'
    BY <1>1, <1>7, <2>2, <2>3, <2>4, <2>5 DEF SendsAreEarned
  <2> QED
    BY <1>1, <1>7, <2>1, <2>6 DEF DeclarationIsAuthored
<1> QED
  BY <1>3, <1>4, <1>5, <1>6, <1>7

\* Writing, editing, approving and queueing again: never a sent draft.
LEMMA EditsKeep ==
  ASSUME GovernedInv, Compose \/ update_draft_content \/ approve_draft_revision \/ queue_draft_for_send
  PROVE  GovernedInv'
<1> USE DEF GovernedInv, GovernedTypeOK
<1>1. /\ mail.status # "sent" /\ left = None /\ UNCHANGED <<governor, agent, request, left>>
      /\ situation' \in Situations
  BY GovernedAssumption DEF Compose, update_draft_content, approve_draft_revision, queue_draft_for_send
<1>2. SendsAreEarned'
  BY <1>1 DEF SendsAreEarned
<1>3. CASE Compose
  <2>1. PICK by \in {"human", "other"} : mail' = [DraftWritten("draft", None) EXCEPT !.created_by = by]
    BY <1>3 DEF Compose
  <2>2. mail' \in MailRow /\ mail'.declaration = None
    <3>1. PICK row \in MailRow : row = DraftWritten("draft", None) /\ row.declaration = None
      BY DraftsWritten
    <3>2. mail' = [row EXCEPT !.created_by = by]
      BY <2>1, <3>1
    <3> QED
      BY <3>1, <3>2 DEF MailRow
  <2> QED
    BY <1>1, <1>2, <1>3, <2>2 DEF Compose, DeclarationIsAuthored
<1>4. CASE update_draft_content
  <2>1. mail' = [mail EXCEPT !.revision = @ + 1, !.approved = None] /\ mail.revision < MaxEdits
        /\ request = None
    BY <1>4, GovernedAssumption DEF update_draft_content
  <2>2. mail.revision \in Nat /\ mail.revision + 1 \in 0..MaxEdits
    BY <2>1, GovernedAssumption DEF MailRow
  <2>3. mail' \in MailRow /\ mail'.declaration = mail.declaration /\ mail'.revision = mail.revision + 1
        /\ mail'.status = mail.status
    BY <2>1, <2>2 DEF MailRow
  <2>4. DeclarationIsAuthored'
    BY <2>2, <2>3 DEF DeclarationIsAuthored, MailRow, Declaration
  <2> QED
    BY <1>1, <1>2, <2>1, <2>3, <2>4
<1>5. CASE approve_draft_revision
  <2>1. /\ mail' = [mail EXCEPT !.approved = mail.revision, !.status = "queued"] /\ UNCHANGED authored
        /\ mail.declaration # None => mail.declaration.attempts <= MAX_ATTRIBUTION_ATTEMPTS
        /\ request = None
    BY <1>5, GovernedAssumption DEF approve_draft_revision
  <2>2. mail' \in MailRow /\ mail'.declaration = mail.declaration /\ mail'.revision = mail.revision
    BY <2>1 DEF MailRow
  <2> QED
    BY <1>1, <1>2, <2>1, <2>2 DEF DeclarationIsAuthored
<1>6. CASE queue_draft_for_send
  <2>1. PICK d \in Declared :
          /\ mail' = [mail EXCEPT !.status = "queued",
                                  !.declaration = [new_bot(d) EXCEPT !.revision = mail.revision]]
          /\ authored' = d
    BY <1>6 DEF queue_draft_for_send
  <2>2. PICK decl : decl = [new_bot(d) EXCEPT !.revision = mail.revision]
    OBVIOUS
  <2>3. /\ decl \in Declaration /\ decl.revision = mail.revision /\ decl.attempts = 0 /\ decl.attrs = d
        /\ mail.revision \in 0..MaxEdits
    BY <2>2, GovernedAssumption, DeclaredAssumption DEF new_bot, Declaration, MailRow
  <2>4. mail' = [mail EXCEPT !.status = "queued", !.declaration = decl]
    BY <2>1, <2>2
  <2>5. mail' \in MailRow /\ mail'.declaration = decl /\ mail'.revision = mail.revision
    BY <2>3, <2>4 DEF MailRow
  <2>6. DeclarationIsAuthored'
    BY <2>1, <2>3, <2>5, GovernedAssumption DEF DeclarationIsAuthored
  <2>7. request = None
    BY <1>6, GovernedAssumption DEF queue_draft_for_send
  <2> QED
    BY <1>1, <1>2, <2>5, <2>6, <2>7
<1> QED
  BY <1>3, <1>4, <1>5, <1>6

\* What the sweep declares was authored for this very revision.
LEMMA SweepDeclares ==
  ASSUME GovernedInv
  PROVE  scheduled_attribution_inputs.attrs \subseteq authored
         /\ scheduled_attribution_inputs.attrs \in SUBSET Attributes
BY DEF GovernedInv, GovernedTypeOK, DeclarationIsAuthored, scheduled_attribution_inputs, is_current, MailRow,
       Declaration

\* A failed attempt is stamped on the revision that was judged, and counted.
LEMMA FailureStamps ==
  ASSUME GovernedInv, mail.status = "queued", NEW inputs, inputs.attrs \subseteq authored,
         inputs.attrs \in SUBSET Attributes,
         mail' = attribution_failure_action(inputs), UNCHANGED authored
  PROVE  mail' \in MailRow /\ mail'.status \in {"queued", "pending_review"} /\ DeclarationIsAuthored'
<1> USE DEF GovernedInv, GovernedTypeOK
<1>1. CASE scheduled_origin = "human"
  <2>1. mail' = [mail EXCEPT !.status = "pending_review"]
    BY <1>1 DEF attribution_failure_action
  <2>2. mail' \in MailRow /\ mail'.declaration = mail.declaration /\ mail'.revision = mail.revision
        /\ mail'.status = "pending_review"
    BY <2>1 DEF MailRow
  <2> QED
    BY <2>2 DEF DeclarationIsAuthored
<1>2. CASE scheduled_origin # "human"
  <2>1. PICK attempts : attempts = PriorAttempts + 1
    OBVIOUS
  <2>2. PriorAttempts \in 0..MAX_ATTRIBUTION_ATTEMPTS
    <3>1. CASE is_current(mail.declaration)
      <4>1. mail.declaration # None /\ mail.declaration \in Declaration
        BY <3>1 DEF is_current, MailRow
      <4>2. mail.declaration.attempts \in Nat /\ mail.declaration.attempts <= MAX_ATTRIBUTION_ATTEMPTS
        BY <4>1, GovernedAssumption DEF DeclarationIsAuthored, Declaration
      <4> QED
        BY <3>1, <4>2, GovernedAssumption DEF PriorAttempts
    <3>2. CASE ~is_current(mail.declaration)
      BY <3>2, GovernedAssumption DEF PriorAttempts
    <3> QED
      BY <3>1, <3>2
  <2>3. attempts \in 0..MAX_ATTRIBUTION_ATTEMPTS + 1 /\ attempts \in Nat
    BY <2>1, <2>2, GovernedAssumption
  <2>4. PICK status \in {"queued", "pending_review"} :
          status = IF attempts >= MAX_ATTRIBUTION_ATTEMPTS THEN "pending_review" ELSE "queued"
    OBVIOUS
  <2>5. PICK stamped : stamped = [origin |-> declaration_origin, attrs |-> inputs.attrs,
                                  revision |-> mail.revision, attempts |-> attempts]
    OBVIOUS
  <2>6. stamped \in Declaration /\ mail.revision \in Nat
    BY <2>3, <2>5, GovernedAssumption DEF Declaration, declaration_origin, MailRow
  <2>7. mail' = [mail EXCEPT !.declaration = stamped, !.status = status]
    BY <1>2, <2>1, <2>4, <2>5 DEF attribution_failure_action
  <2>8. /\ mail' \in MailRow /\ mail'.declaration = stamped /\ mail'.status = status
        /\ mail'.revision = mail.revision
    BY <2>6, <2>7 DEF MailRow
  <2>9. DeclarationIsAuthored'
    BY <2>3, <2>4, <2>5, <2>6, <2>8, GovernedAssumption DEF DeclarationIsAuthored
  <2> QED
    BY <2>8, <2>9
<1> QED
  BY <1>1, <1>2

LEMMA ScheduledPassKeeps == GovernedInv /\ ScheduledPass => GovernedInv'
<1> SUFFICES ASSUME GovernedInv, ScheduledPass PROVE GovernedInv'
  OBVIOUS
<1> USE DEF GovernedInv, GovernedTypeOK
<1>1. /\ mail.status = "queued" /\ left = None /\ request = None
      /\ UNCHANGED <<governor, agent, request, situation, authored>>
  BY GovernedAssumption DEF ScheduledPass
<1>2. PICK inputs, resolution :
        /\ inputs = scheduled_attribution_inputs
        /\ resolution = resolve(inputs.attrs, situation, mail.approved = mail.revision, inputs.require)
  OBVIOUS
<1>3. inputs.attrs \subseteq authored /\ inputs.attrs \in SUBSET Attributes
  BY <1>2, SweepDeclares
<1>4. PICK run \in Invocation :
        \/ /\ gate_with_attribution(governor, resolution, run).allowed
           /\ mail' = [mail EXCEPT !.status = "sent"] /\ left' = Sent("sweep", resolution, run)
        \/ /\ mail' = attribution_failure_action(inputs)
              \/ mail' = mail
              \/ \E status \in {"blocked", "pending_review"} : mail' = [mail EXCEPT !.status = status]
           /\ UNCHANGED left
  BY <1>2 DEF ScheduledPass
<1>5. CASE /\ gate_with_attribution(governor, resolution, run).allowed
           /\ mail' = [mail EXCEPT !.status = "sent"] /\ left' = Sent("sweep", resolution, run)
  <2>1. mail' \in MailRow /\ mail'.declaration = mail.declaration /\ mail'.status = "sent"
        /\ mail'.revision = mail.revision
    BY <1>5 DEF MailRow
  <2>2. \/ governor = "off"
        \/ /\ resolution.state = "attributed"
           /\ governor = "warn" \/ (run.success /\ run.decision = "allow")
    BY <1>5, GateAllows
  <2>3. /\ resolution.attrs \subseteq situation.true \cup inputs.attrs \cup REQUIRES_ATTESTATION
        /\ "tyler_approved" \in resolution.attrs => mail.approved = mail.revision
    BY <1>2, ResolvedAttributes, SituationAssumption
  <2>4. /\ left'.by = "sweep" /\ left'.judged = resolution.attrs /\ left'.state = resolution.state
        /\ left'.run = run /\ left'.approved = (mail.approved = mail.revision)
    BY <1>5 DEF Sent
  <2>5. SendsAreEarned'
    BY <1>1, <1>3, <2>2, <2>3, <2>4 DEF SendsAreEarned
  <2>6. DeclarationIsAuthored'
    BY <1>1, <2>1 DEF DeclarationIsAuthored
  <2> QED
    BY <1>1, <2>1, <2>5, <2>6
<1>6. CASE mail' = attribution_failure_action(inputs) /\ UNCHANGED left
  <2>1. mail' \in MailRow /\ DeclarationIsAuthored'
    BY <1>1, <1>3, <1>6, FailureStamps
  <2> QED
    BY <1>1, <1>6, <2>1 DEF SendsAreEarned
<1>7. CASE mail' = mail /\ UNCHANGED left
  BY <1>1, <1>7 DEF SendsAreEarned, DeclarationIsAuthored
<1>8. ASSUME NEW status \in {"blocked", "pending_review"}, mail' = [mail EXCEPT !.status = status],
             UNCHANGED left
      PROVE  GovernedInv'
  <2>1. mail' \in MailRow /\ mail'.declaration = mail.declaration /\ mail'.status = status
        /\ mail'.revision = mail.revision
    BY <1>8 DEF MailRow
  <2> QED
    BY <1>1, <1>8, <2>1 DEF SendsAreEarned, DeclarationIsAuthored
<1> QED
  BY <1>4, <1>5, <1>6, <1>7, <1>8

LEMMA GovernedStepInv == GovernedInv /\ [GovernedNext]_governed_vars => GovernedInv'
<1>1. GovernedInv /\ UNCHANGED governed_vars => GovernedInv'
  BY DEF governed_vars, GovernedInv, GovernedTypeOK, DeclarationIsAuthored, SendsAreEarned
<1> QED
  BY <1>1, AdmittedKeeps, SubmitKeeps, EditsKeep, ScheduledPassKeeps DEF GovernedNext

(* Nothing leaves unless the gate is off, or the message was attributed    *)
(* and a Governor that ran to its end allowed it; what it was told is the  *)
(* host's observation and the declaration of that very revision - for any  *)
(* declarations, observations, revisions and attempts (outbound.rs         *)
(* gate_with_attribution, attribution_persist.rs                           *)
(* scheduled_attribution_inputs).                                          *)
THEOREM SendsEarned == GovernedSpec => []SendsAreEarned
<1>1. GovernedInv => SendsAreEarned
  BY DEF GovernedInv
<1> QED
  BY GovernedInitInv, GovernedStepInv, <1>1, PTL DEF GovernedSpec

(* A draft that fails attribution is parked after a bounded number of      *)
(* attempts, one more for each approval, and every row keeps its shape     *)
(* (attribution_persist.rs attribution_failure_action).                    *)
THEOREM AttemptsAreBounded == GovernedSpec => []GovernedTypeOK
<1>1. GovernedInv => GovernedTypeOK
  BY DEF GovernedInv
<1> QED
  BY GovernedInitInv, GovernedStepInv, <1>1, PTL DEF GovernedSpec

-----------------------------------------------------------------------------
(* Moving mail.  A message is flagged for removal only once it is copied,  *)
(* and every requested UID is in one place: still to do, in the batch, or  *)
(* on one side of the result.                                              *)

\* Whatever is marked for removal is copied, or another session asked.
Accounted ==
  /\ \A m \in Moved : <<m, "other">> \in doomed => m \in gone
  /\ call.op # "delete" =>
       \A m \in Moved : /\ <<m, "us">> \in doomed => m \in gone \/ copies[m] > 0
                        /\ m \in gone \/ m \in source \/ copies[m] > 0

\* What the commands of a batch that went through have established.
InCommand ==
  /\ call.command \in {"store", "expunge"} /\ call.op # "delete" =>
       \A m \in call.batch.uids \cap source : copies[m] > 0
  /\ call.command = "expunge" => \A m \in call.batch.uids \cap source : <<m, "us">> \in doomed
  /\ call.op = "move" => result.succeeded \cap source = {}

OneSideEach ==
  /\ result.succeeded \cap result.failed = {}
  /\ call.batch.uids \cap (result.succeeded \cup result.failed) = {}
  /\ \A b \in call.todo : b.uids \cap (call.batch.uids \cup result.succeeded \cup result.failed) = {}
  /\ \A b, c \in call.todo : b # c => b.uids \cap c.uids = {}
  /\ \A m \in Moved : m \in result.requested <=>
       \/ m \in result.succeeded \cup result.failed \cup call.batch.uids
       \/ \E b \in call.todo : m \in b.uids
  /\ call.command = "none" => call.batch.uids = {}
  /\ IF call.running THEN call.op # "none" ELSE call.todo = {} /\ call.command = "none"

\* A chunk has made no copy, a single retry at most one.
CopiesBounded ==
  /\ \A m \in Moved : copies[m] <= 2
  /\ call.op = "none" => \A m \in Moved : copies[m] = 0
  /\ \A b \in call.todo : \A m \in b.uids : copies[m] <= 1 /\ (~b.single => copies[m] = 0)
  /\ \A m \in call.batch.uids :
       /\ ~call.batch.single => copies[m] <= 1
       /\ call.command = "copy" => copies[m] <= 1 /\ (~call.batch.single => copies[m] = 0)

MovesInv == MovesTypeOK /\ Accounted /\ InCommand /\ OneSideEach /\ CopiesBounded

LEMMA MovesInitInv == MovesInit => MovesInv
<1> SUFFICES ASSUME MovesInit PROVE MovesInv
  OBVIOUS
<1>1. /\ call.op = "none" /\ call.running = FALSE /\ call.todo = {} /\ call.command = "none"
      /\ call.batch.uids = {} /\ call.batch.single = FALSE /\ call.failures = 0
      /\ result.requested = {} /\ result.succeeded = {} /\ result.failed = {}
      /\ source = Moved /\ doomed = {} /\ gone = {}
      /\ \A m \in Moved : copies[m] = 0
  BY DEF MovesInit, NoCall, NoBatch, Empty
<1>2. call \in Call
  <2>1. NoBatch \in Batch /\ 0 \in 0..MaxFailures
    BY MovesAssumption DEF NoBatch, Batch
  <2> QED
    BY <2>1 DEF MovesInit, NoCall, Call
<1>3. MovesTypeOK
  BY <1>2 DEF MovesInit, MovesTypeOK, Empty
<1> QED
  BY <1>1, <1>3 DEF MovesInv, Accounted, InCommand, OneSideEach, CopiesBounded

\* The other session: what it removes it asked for, or was copied.
LEMMA ElsewhereKeeps == MovesInv /\ (FlagElsewhere \/ ExpungeElsewhere) => MovesInv'
<1> SUFFICES ASSUME MovesInv, FlagElsewhere \/ ExpungeElsewhere PROVE MovesInv'
  OBVIOUS
<1> USE DEF MovesInv
<1>1. UNCHANGED <<copies, uidplus, call, result>>
  BY DEF FlagElsewhere, ExpungeElsewhere
<1>2. OneSideEach' /\ CopiesBounded'
  BY <1>1 DEF OneSideEach, CopiesBounded
<1>3. CASE FlagElsewhere
  <2>1. PICK m \in source : doomed' = doomed \cup {<<m, "other">>} /\ gone' = gone \cup {m}
    BY <1>3 DEF FlagElsewhere
  <2>2. m \in Moved /\ source' = source
    BY <1>3 DEF FlagElsewhere, MovesTypeOK
  <2>3. MovesTypeOK'
    BY <1>1, <2>1, <2>2 DEF MovesTypeOK
  <2>4. Accounted' /\ InCommand'
    BY <1>1, <2>1, <2>2 DEF Accounted, InCommand
  <2> QED
    BY <1>2, <2>3, <2>4
<1>4. CASE ExpungeElsewhere
  <2> DEFINE marked == {d[1] : d \in doomed}
  <2>1. source' = source \ marked /\ gone' = gone \cup marked /\ doomed' = {}
    BY <1>4 DEF ExpungeElsewhere
  <2>2. marked \subseteq Moved
    BY DEF MovesTypeOK
  <2>3. \A m \in Moved : <<m, "us">> \in doomed => m \in marked
    OBVIOUS
  <2> HIDE DEF marked
  <2>4. MovesTypeOK'
    BY <1>1, <2>1, <2>2 DEF MovesTypeOK
  <2>5. Accounted'
    BY <1>1, <2>1 DEF Accounted
  <2>6. InCommand'
    BY <1>1, <2>1, <2>3 DEF InCommand, MovesTypeOK
  <2> QED
    BY <1>2, <2>4, <2>5, <2>6
<1> QED
  BY <1>3, <1>4

\* A call starts with everything requested still to do.
Starts(op, uids, todo) ==
  /\ call = NoCall /\ op \in Ops /\ uids \subseteq Moved /\ todo \subseteq Batch
  /\ \A b, c \in todo : b # c => b.uids \cap c.uids = {}
  /\ \A m \in Moved : m \in uids <=> \E b \in todo : m \in b.uids
  /\ call' = [NoCall EXCEPT !.op = op, !.running = TRUE, !.todo = todo]
  /\ result' = [Empty EXCEPT !.requested = uids]
  /\ UNCHANGED <<source, doomed, copies, uidplus, gone>>

LEMMA CallStarts ==
  ASSUME MovesInv, NEW op, NEW uids, NEW todo, Starts(op, uids, todo)
  PROVE  MovesInv'
<1> USE DEF MovesInv, Starts
<1>1. call \in Call /\ call.op = "none" /\ call.batch.uids = {}
  BY DEF NoCall, NoBatch, MovesTypeOK
<1>2. call' = [call EXCEPT !.op = op, !.running = TRUE, !.todo = todo]
  OBVIOUS
<1>3. /\ call' \in Call /\ call'.op = op /\ call'.running = TRUE /\ call'.todo = todo
      /\ call'.batch = call.batch /\ call'.command = "none"
  <2>1. call.command = "none"
    BY DEF NoCall
  <2> QED
    BY <1>1, <1>2, <2>1 DEF Call
<1>4. result' \in [requested : SUBSET Moved, succeeded : SUBSET Moved, failed : SUBSET Moved]
      /\ result'.requested = uids /\ result'.succeeded = {} /\ result'.failed = {}
  BY DEF Empty
<1>5. \A m \in Moved : copies'[m] = 0
  BY <1>1 DEF CopiesBounded
<1>6. MovesTypeOK'
  BY <1>3, <1>4 DEF MovesTypeOK
<1>7. Accounted' /\ InCommand'
  BY <1>1, <1>3, <1>4 DEF Accounted, InCommand
<1>8. OneSideEach'
  BY <1>1, <1>3, <1>4 DEF OneSideEach, Ops
<1>9. CopiesBounded'
  <2>1. \A b \in call'.todo : b.uids \subseteq Moved
    BY <1>3 DEF Batch
  <2> QED
    BY <1>1, <1>3, <1>5, <2>1 DEF CopiesBounded, Ops
<1> QED
  BY <1>6, <1>7, <1>8, <1>9

LEMMA StartsKeep == MovesInv /\ (execute \/ move_message \/ copy_message \/ delete_message) => MovesInv'
<1> SUFFICES ASSUME MovesInv, execute \/ move_message \/ copy_message \/ delete_message
             PROVE  MovesInv'
  OBVIOUS
<1>1. CASE execute
  <2>1. PICK op \in Ops, uids \in SUBSET Moved :
          /\ call' = [NoCall EXCEPT !.op = op, !.running = TRUE,
                        !.todo = {[uids |-> c, single |-> FALSE] : c \in chunk_uids(uids)}]
          /\ result' = [Empty EXCEPT !.requested = uids]
    BY <1>1 DEF execute
  <2> DEFINE place(u) == Cardinality({v \in uids : v < u}) \div CHUNK_SIZE
             chunk(u) == {v \in uids : place(v) = place(u)}
             todo == {[uids |-> c, single |-> FALSE] : c \in chunk_uids(uids)}
  <2>2. chunk_uids(uids) = {chunk(u) : u \in uids}
    BY DEF chunk_uids
  <2> HIDE DEF place
  <2>9. \A b \in todo : \E u \in uids : b = [uids |-> chunk(u), single |-> FALSE]
    BY <2>2
  <2>3. ASSUME NEW b \in todo PROVE b \in Batch
    <3>1. PICK u \in uids : b = [uids |-> chunk(u), single |-> FALSE]
      BY <2>9
    <3>2. chunk(u) \in SUBSET Moved
      OBVIOUS
    <3> QED
      BY <3>1, <3>2 DEF Batch
  <2>4. \A u, v \in uids : chunk(u) # chunk(v) => chunk(u) \cap chunk(v) = {}
    OBVIOUS
  <2>5. ASSUME NEW b \in todo, NEW c \in todo, b # c PROVE b.uids \cap c.uids = {}
    <3>1. PICK u \in uids, v \in uids :
            b = [uids |-> chunk(u), single |-> FALSE] /\ c = [uids |-> chunk(v), single |-> FALSE]
      BY <2>9
    <3>2. chunk(u) # chunk(v) /\ b.uids = chunk(u) /\ c.uids = chunk(v)
      BY <2>5, <3>1
    <3> QED
      BY <2>4, <3>2
  <2>6. \A m \in Moved : m \in uids <=> \E b \in todo : m \in b.uids
    <3>1. ASSUME NEW m \in uids PROVE \E b \in todo : m \in b.uids
      <4>1. [uids |-> chunk(m), single |-> FALSE] \in todo /\ m \in chunk(m)
        BY <2>2
      <4> QED
        BY <4>1
    <3>2. \A b \in todo : b.uids \subseteq uids
      BY <2>9
    <3> QED
      BY <3>1, <3>2
  <2> HIDE DEF todo
  <2>7. call' = [NoCall EXCEPT !.op = op, !.running = TRUE, !.todo = todo]
    BY <2>1 DEF todo
  <2>8. call = NoCall /\ UNCHANGED <<source, doomed, copies, uidplus, gone>>
    BY <1>1 DEF execute
  <2> QED
    <3>1. Starts(op, uids, todo)
      BY <2>1, <2>3, <2>5, <2>6, <2>7, <2>8 DEF Starts
    <3> QED
      BY <3>1, CallStarts
<1>2. ASSUME NEW op \in Ops, OneMessage(op) PROVE MovesInv'
  <2>1. PICK u \in Moved :
          /\ call' = [NoCall EXCEPT !.op = op, !.running = TRUE, !.todo = {[uids |-> {u}, single |-> TRUE]}]
          /\ result' = [Empty EXCEPT !.requested = {u}]
    BY <1>2 DEF OneMessage
  <2>2. PICK todo, uids : todo = {[uids |-> {u}, single |-> TRUE]} /\ uids = {u}
    OBVIOUS
  <2>3. todo \subseteq Batch
    BY <2>2 DEF Batch
  <2>4. /\ \A b, c \in todo : b # c => b.uids \cap c.uids = {}
        /\ \A m \in Moved : m \in uids <=> \E b \in todo : m \in b.uids
    BY <2>2
  <2>5. call' = [NoCall EXCEPT !.op = op, !.running = TRUE, !.todo = todo]
        /\ result' = [Empty EXCEPT !.requested = uids] /\ uids \in SUBSET Moved
    BY <2>1, <2>2
  <2>6. call = NoCall /\ UNCHANGED <<source, doomed, copies, uidplus, gone>>
    BY <1>2 DEF OneMessage
  <2> QED
    <3>1. Starts(op, uids, todo)
      BY <2>3, <2>4, <2>5, <2>6 DEF Starts
    <3> QED
      BY <3>1, CallStarts
<1> QED
  BY <1>1, <1>2 DEF move_message, copy_message, delete_message, Ops

LEMMA NextBatchKeeps == MovesInv /\ NextBatch => MovesInv'
<1> SUFFICES ASSUME MovesInv, NextBatch PROVE MovesInv'
  OBVIOUS
<1> USE DEF MovesInv
<1>1. /\ call \in Call /\ call.running = TRUE /\ call.command = "none"
      /\ UNCHANGED <<source, doomed, copies, uidplus, result, gone>>
  BY DEF NextBatch, MovesTypeOK, Call
<1>2. CASE call.todo = {}
  <2>1. call' = [call EXCEPT !.running = FALSE]
    BY <1>2 DEF NextBatch
  <2>2. /\ call' \in Call /\ call'.running = FALSE /\ call'.op = call.op /\ call'.todo = {}
        /\ call'.batch = call.batch /\ call'.command = "none"
    BY <1>1, <1>2, <2>1 DEF Call
  <2>3. MovesTypeOK' /\ Accounted' /\ InCommand'
    BY <1>1, <2>2 DEF MovesTypeOK, Accounted, InCommand
  <2>4. OneSideEach'
    BY <1>1, <1>2, <2>2 DEF OneSideEach
  <2>5. CopiesBounded'
    BY <1>1, <2>2 DEF CopiesBounded
  <2> QED
    BY <2>3, <2>4, <2>5
<1>3. CASE call.todo # {}
  <2>1. PICK b \in call.todo :
          call' = [call EXCEPT !.todo = @ \ {b}, !.batch = b, !.command = FirstCommand(call.op)]
    BY <1>3 DEF NextBatch
  <2>2. PICK command \in {"store", "copy"} :
          command = FirstCommand(call.op) /\ (command = "store" => call.op = "delete")
    BY DEF FirstCommand
  <2>3. b \in Batch /\ b.uids \subseteq Moved /\ call' = [call EXCEPT !.todo = @ \ {b}, !.batch = b, !.command = command]
    BY <1>1, <2>1, <2>2 DEF Call, Batch
  <2>4. /\ call' \in Call /\ call'.running = TRUE /\ call'.op = call.op /\ call'.todo = call.todo \ {b}
        /\ call'.batch = b /\ call'.command = command
    BY <1>1, <2>3 DEF Call
  <2>5. MovesTypeOK' /\ Accounted' /\ InCommand'
    BY <1>1, <2>2, <2>4 DEF MovesTypeOK, Accounted, InCommand
  <2>6. OneSideEach'
    <3>1. call.batch.uids = {}
      BY <1>1 DEF OneSideEach
    <3> QED
      BY <1>1, <2>1, <2>2, <2>4, <3>1 DEF OneSideEach
  <2>7. CopiesBounded'
    BY <1>1, <2>1, <2>4 DEF CopiesBounded
  <2> QED
    BY <2>5, <2>6, <2>7
<1> QED
  BY <1>2, <1>3

\* What a command does to the mailboxes, whether it is acknowledged or not.
LEMMA CommandDoes ==
  ASSUME MovesInv, call.command # "none", Effect \/ UNCHANGED <<source, doomed, copies>>,
         UNCHANGED gone, call'.op = call.op
  PROVE  /\ source' \subseteq source /\ doomed' \subseteq Moved \X {"us", "other"}
         /\ copies' \in [Moved -> Nat]
         /\ Accounted'
         /\ \A m \in Moved : copies'[m] = copies[m]
              \/ (call.command = "copy" /\ m \in call.batch.uids /\ copies'[m] = copies[m] + 1)
         /\ Effect => /\ call.command = "copy" => \A m \in call.batch.uids \cap source : copies'[m] > 0
                      /\ call.command = "store" =>
                           \A m \in call.batch.uids \cap source : <<m, "us">> \in doomed'
                      /\ call.command = "expunge" => call.batch.uids \cap source' = {}
<1> USE DEF MovesInv
<1>1. /\ call \in Call /\ source \subseteq Moved /\ doomed \subseteq Moved \X {"us", "other"}
      /\ copies \in [Moved -> Nat] /\ call.batch.uids \subseteq Moved
  BY DEF MovesTypeOK, Call, Batch
<1>2. CASE UNCHANGED <<source, doomed, copies>> /\ ~Effect
  BY <1>1, <1>2 DEF Accounted
<1>3. CASE Effect /\ call.command = "copy"
  <2>1. /\ copies' = [m \in Moved |-> IF m \in call.batch.uids \cap source THEN copies[m] + 1 ELSE copies[m]]
        /\ UNCHANGED <<source, doomed>>
    BY <1>3 DEF Effect, uid_copy, BatchUids
  <2>2. copies' \in [Moved -> Nat] /\ \A m \in Moved : copies[m] \in Nat /\ copies'[m] >= copies[m]
    BY <1>1, <2>1
  <2>3. Accounted'
    BY <2>1, <2>2 DEF Accounted
  <2> QED
    BY <1>1, <1>3, <2>1, <2>2, <2>3
<1>4. CASE Effect /\ call.command = "store"
  <2>1. /\ doomed' = doomed \cup ((call.batch.uids \cap source) \X {"us"})
        /\ UNCHANGED <<source, copies>>
    BY <1>4 DEF Effect, uid_store, BatchUids
  <2>2. Accounted'
    BY <1>4, <2>1 DEF Accounted, InCommand
  <2> QED
    BY <1>1, <1>4, <2>1, <2>2
<1>5. CASE Effect /\ call.command \notin {"copy", "store"}
  <2>0. call.command = "expunge"
    BY <1>1, <1>5 DEF Call
  <2> DEFINE marked == {d[1] : d \in doomed}
             removed == choose_expunge_strategy(uidplus, marked)
  <2>1. /\ source' = source \ removed /\ doomed' = {d \in doomed : d[1] \notin removed}
        /\ UNCHANGED copies
    BY <1>5, <2>0 DEF Effect, expunge_uids
  <2>2. removed \subseteq marked /\ marked \cap call.batch.uids \subseteq removed
    BY DEF choose_expunge_strategy, BatchUids
  <2>3. \A m \in marked : <<m, "us">> \in doomed \/ <<m, "other">> \in doomed
    BY <1>1
  <2>4. \A m \in Moved : <<m, "us">> \in doomed => m \in marked
    OBVIOUS
  <2> HIDE DEF marked, removed
  <2>5. doomed' \subseteq doomed
    BY <2>1
  <2>6. Accounted'
    BY <2>1, <2>2, <2>3, <2>5 DEF Accounted
  <2>7. call.batch.uids \cap source' = {}
    BY <1>1, <2>0, <2>1, <2>2, <2>4 DEF InCommand
  <2> QED
    BY <1>1, <2>0, <2>1, <2>5, <2>6, <2>7
<1> QED
  BY <1>2, <1>3, <1>4, <1>5

LEMMA AcknowledgedKeeps == MovesInv /\ Acknowledged => MovesInv'
<1> SUFFICES ASSUME MovesInv, Acknowledged PROVE MovesInv'
  OBVIOUS
<1> USE DEF MovesInv
<1>1. /\ call \in Call /\ call.command # "none" /\ Effect /\ UNCHANGED <<uidplus, gone>>
      /\ result \in [requested : SUBSET Moved, succeeded : SUBSET Moved, failed : SUBSET Moved]
      /\ call.batch.uids \subseteq Moved /\ call.running = TRUE
  BY DEF Acknowledged, MovesTypeOK, Call, Batch, OneSideEach
<1>2. CASE After(call.command) # "none"
  <2>1. PICK next \in {"store", "expunge"} :
          /\ call' = [call EXCEPT !.command = next]
          /\ next = "store" => call.command = "copy" /\ call.op = "move"
          /\ next = "expunge" => call.command = "store"
    BY <1>2 DEF Acknowledged, After
  <2>2. /\ call' \in Call /\ call'.command = next /\ call'.op = call.op /\ call'.todo = call.todo
        /\ call'.batch = call.batch /\ call'.running = TRUE
    BY <1>1, <2>1 DEF Call
  <2>3. result' = result
    BY <1>2 DEF Acknowledged
  <2>4. MovesTypeOK' /\ Accounted'
    BY <1>1, <2>2, <2>3, CommandDoes DEF MovesTypeOK
  <2>5. InCommand'
    BY <1>1, <2>1, <2>2, <2>3, CommandDoes DEF InCommand, MovesTypeOK
  <2>6. OneSideEach'
    BY <1>1, <2>2, <2>3 DEF OneSideEach
  <2>7. CopiesBounded'
    <3>1. \A b \in call.todo : b.uids \cap call.batch.uids = {} /\ b.uids \subseteq Moved
      BY <1>1 DEF OneSideEach, Call, Batch
    <3>2. \A m \in Moved : copies[m] \in Nat /\ copies'[m] \in Nat
      BY <1>1, <2>2, CommandDoes DEF MovesTypeOK
    <3>3. \A m \in Moved : copies'[m] = copies[m]
            \/ (call.command = "copy" /\ m \in call.batch.uids /\ copies'[m] = copies[m] + 1)
      BY <1>1, <2>2, CommandDoes
    <3>4. call.op # "none"
      BY <1>1 DEF OneSideEach
    <3> QED
      BY <1>1, <2>1, <2>2, <3>1, <3>2, <3>3, <3>4 DEF CopiesBounded
  <2> QED
    BY <2>4, <2>5, <2>6, <2>7
<1>3. CASE After(call.command) = "none"
  <2>1. /\ call' = [call EXCEPT !.command = "none", !.batch = NoBatch]
        /\ result' = [result EXCEPT !.succeeded = @ \cup call.batch.uids]
    BY <1>3 DEF Acknowledged, BatchUids
  <2>2. /\ call' \in Call /\ call'.command = "none" /\ call'.op = call.op /\ call'.todo = call.todo
        /\ call'.batch.uids = {} /\ call'.running = TRUE
    BY <1>1, <2>1 DEF Call, NoBatch, Batch
  <2>3. /\ result' \in [requested : SUBSET Moved, succeeded : SUBSET Moved, failed : SUBSET Moved]
        /\ result'.requested = result.requested /\ result'.failed = result.failed
        /\ result'.succeeded = result.succeeded \cup call.batch.uids
    BY <1>1, <2>1
  <2>4. MovesTypeOK' /\ Accounted'
    BY <1>1, <2>2, <2>3, CommandDoes DEF MovesTypeOK
  <2>5. InCommand'
    <3>1. call.op = "move" => call.command = "expunge"
      BY <1>1, <1>3 DEF After, Call
    <3> QED
      BY <1>1, <2>2, <2>3, <3>1, CommandDoes DEF InCommand
  <2>6. OneSideEach'
    BY <1>1, <2>2, <2>3 DEF OneSideEach
  <2>7. CopiesBounded'
    <3>1. \A b \in call.todo : b.uids \cap call.batch.uids = {} /\ b.uids \subseteq Moved
      BY <1>1 DEF OneSideEach, Call, Batch
    <3>2. \A m \in Moved : copies[m] \in Nat /\ copies'[m] \in Nat
      BY <1>1, <2>2, CommandDoes DEF MovesTypeOK
    <3>3. \A m \in Moved : copies'[m] = copies[m]
            \/ (call.command = "copy" /\ m \in call.batch.uids /\ copies'[m] = copies[m] + 1)
      BY <1>1, <2>2, CommandDoes
    <3>4. call.op # "none"
      BY <1>1 DEF OneSideEach
    <3> QED
      BY <1>1, <2>2, <3>1, <3>2, <3>3, <3>4 DEF CopiesBounded
  <2> QED
    BY <2>4, <2>5, <2>6, <2>7
<1> QED
  BY <1>2, <1>3

\* A failed chunk is still to do, one message at a time; a failed single is
\* done with.
LEMMA FailedKeeps == MovesInv /\ Failed => MovesInv'
<1> SUFFICES ASSUME MovesInv, Failed PROVE MovesInv'
  OBVIOUS
<1> USE DEF MovesInv
<1>1. /\ call \in Call /\ call.command # "none" /\ UNCHANGED <<uidplus, gone>>
      /\ Effect \/ UNCHANGED <<source, doomed, copies>>
      /\ result \in [requested : SUBSET Moved, succeeded : SUBSET Moved, failed : SUBSET Moved]
      /\ call.batch.uids \subseteq Moved /\ call.running = TRUE
      /\ call.failures + 1 \in 0..MaxFailures
  BY MovesAssumption DEF Failed, MovesTypeOK, Call, Batch, OneSideEach
<1>2. PICK todo \in SUBSET Batch, failed \in SUBSET Moved :
        /\ call' = [call EXCEPT !.command = "none", !.batch = NoBatch, !.failures = @ + 1, !.todo = todo]
        /\ result' = [result EXCEPT !.failed = failed]
        /\ \/ todo = call.todo /\ failed = result.failed \cup call.batch.uids
           \/ ~call.batch.single /\ todo = call.todo \cup RetriedOneByOne /\ failed = result.failed
  <2>1. call.todo \subseteq Batch /\ call.todo \cup RetriedOneByOne \subseteq Batch
    <3>1. \A u \in call.batch.uids : [uids |-> {u}, single |-> TRUE] \in Batch
      BY <1>1 DEF Batch
    <3>2. call.todo \subseteq Batch
      BY <1>1 DEF Call
    <3> QED
      BY <3>1, <3>2 DEF RetriedOneByOne, BatchUids
  <2>2. CASE call.batch.single
    <3>1. /\ call' = [call EXCEPT !.command = "none", !.batch = NoBatch, !.failures = @ + 1]
          /\ result' = [result EXCEPT !.failed = @ \cup call.batch.uids]
      BY <2>2 DEF Failed, BatchUids
    <3>2. call' = [call EXCEPT !.command = "none", !.batch = NoBatch, !.failures = @ + 1, !.todo = call.todo]
      BY <1>1, <3>1 DEF Call
    <3>3. result' = [result EXCEPT !.failed = result.failed \cup call.batch.uids]
      BY <3>1
    <3>4. result.failed \cup call.batch.uids \in SUBSET Moved
      BY <1>1
    <3> QED
      BY <2>1, <3>2, <3>3, <3>4
  <2>3. CASE ~call.batch.single
    <3>1. /\ call' = [call EXCEPT !.command = "none", !.batch = NoBatch, !.failures = @ + 1,
                                  !.todo = call.todo \cup RetriedOneByOne]
          /\ result' = result
      BY <2>3 DEF Failed
    <3>2. result' = [result EXCEPT !.failed = result.failed] /\ result.failed \in SUBSET Moved
      BY <1>1, <3>1
    <3> QED
      BY <2>1, <2>3, <3>1, <3>2
  <2> QED
    BY <2>2, <2>3
<1>3. /\ call' \in Call /\ call'.command = "none" /\ call'.op = call.op /\ call'.todo = todo
      /\ call'.batch.uids = {} /\ call'.running = TRUE
  BY <1>1, <1>2 DEF Call, NoBatch, Batch
<1>4. /\ result' \in [requested : SUBSET Moved, succeeded : SUBSET Moved, failed : SUBSET Moved]
      /\ result'.requested = result.requested /\ result'.succeeded = result.succeeded
      /\ result'.failed = failed
  BY <1>1, <1>2
<1>5. \A b \in todo : b \in call.todo \/ (~call.batch.single /\ b \in RetriedOneByOne)
  BY <1>2
<1>6. \A b \in RetriedOneByOne :
        b.single = TRUE /\ \E u \in call.batch.uids : b = [uids |-> {u}, single |-> TRUE] /\ b.uids = {u}
  BY DEF RetriedOneByOne, BatchUids
<1>7. MovesTypeOK' /\ Accounted'
  BY <1>1, <1>3, <1>4, CommandDoes DEF MovesTypeOK
<1>8. InCommand'
  BY <1>1, <1>3, <1>4, CommandDoes DEF InCommand
<1>9. OneSideEach'
  <2>1. CASE todo = call.todo /\ failed = result.failed \cup call.batch.uids
    BY <1>1, <1>3, <1>4, <2>1 DEF OneSideEach
  <2>2. CASE ~call.batch.single /\ todo = call.todo \cup RetriedOneByOne /\ failed = result.failed
    <3>6. \A b \in RetriedOneByOne : b.uids \subseteq call.batch.uids
      BY <1>6
    <3>7. \A b \in call.todo : b.uids \cap call.batch.uids = {}
      BY DEF OneSideEach
    <3>1. \A b \in todo : b.uids \cap (result.succeeded \cup result.failed) = {}
      BY <1>5, <3>6 DEF OneSideEach
    <3>2. ASSUME NEW b \in todo, NEW c \in todo, b # c PROVE b.uids \cap c.uids = {}
      <4>0. /\ b \in call.todo \/ b \in RetriedOneByOne
            /\ c \in call.todo \/ c \in RetriedOneByOne
        BY <2>2
      <4>1. CASE b \in call.todo /\ c \in call.todo
        BY <3>2, <4>1 DEF OneSideEach
      <4>2. CASE (b \in call.todo /\ c \in RetriedOneByOne) \/ (c \in call.todo /\ b \in RetriedOneByOne)
        BY <3>6, <3>7, <4>2
      <4>3. CASE b \in RetriedOneByOne /\ c \in RetriedOneByOne
        <5>1. PICK u, v : /\ b = [uids |-> {u}, single |-> TRUE] /\ b.uids = {u}
                          /\ c = [uids |-> {v}, single |-> TRUE] /\ c.uids = {v}
          BY <1>6, <4>3
        <5>2. u # v
          BY <3>2, <5>1
        <5> QED
          BY <5>1, <5>2
      <4> QED
        BY <4>0, <4>1, <4>2, <4>3
    <3>3. ASSUME NEW u \in call.batch.uids PROVE \E b \in todo : u \in b.uids
      <4>1. PICK b : b = [uids |-> {u}, single |-> TRUE]
        OBVIOUS
      <4>2. b \in RetriedOneByOne
        BY <4>1 DEF RetriedOneByOne, BatchUids
      <4>3. b.uids = {u}
        BY <4>1
      <4> QED
        BY <2>2, <4>2, <4>3
    <3>5. \A m \in Moved : m \in result.requested <=>
            m \in result.succeeded \cup result.failed \/ \E b \in todo : m \in b.uids
      BY <2>2, <3>3, <3>6 DEF OneSideEach
    <3> QED
      BY <1>1, <1>3, <1>4, <2>2, <3>1, <3>2, <3>5 DEF OneSideEach
  <2> QED
    BY <1>2, <2>1, <2>2
<1>10. CopiesBounded'
  <2>1. \A b \in call.todo : b.uids \cap call.batch.uids = {} /\ b.uids \subseteq Moved
    BY <1>1 DEF OneSideEach, Call, Batch
  <2>2. \A m \in Moved : copies[m] \in Nat /\ copies'[m] \in Nat
    BY <1>1, <1>3, CommandDoes DEF MovesTypeOK
  <2>3. \A m \in Moved : copies'[m] = copies[m]
          \/ (call.command = "copy" /\ m \in call.batch.uids /\ copies'[m] = copies[m] + 1)
    BY <1>1, <1>3, CommandDoes
  <2>4. ~call.batch.single => \A m \in call.batch.uids : copies'[m] <= 1
    BY <1>1, <2>2, <2>3 DEF CopiesBounded
  <2>5. \A b \in call.todo : \A m \in b.uids : copies'[m] = copies[m]
    BY <2>1, <2>3
  <2>6. \A b \in todo : \A m \in b.uids : copies'[m] <= 1 /\ (~b.single => copies'[m] = 0)
    BY <1>5, <1>6, <2>4, <2>5 DEF CopiesBounded
  <2>7. \A m \in Moved : copies'[m] <= 2
    BY <1>1, <2>2, <2>3 DEF CopiesBounded
  <2>8. call.op # "none"
    BY <1>1 DEF OneSideEach
  <2> QED
    BY <1>3, <2>6, <2>7, <2>8 DEF CopiesBounded
<1> QED
  BY <1>7, <1>8, <1>9, <1>10

(* No move or copy loses a message or reports what did not happen, and     *)
(* nothing exists more than twice over, for any number of messages, size   *)
(* of a chunk and failures (bulk.rs execute).                              *)
THEOREM MovesLoseNothing == MovesSpec => []NothingLost
<1>1. MovesInv /\ [MovesNext]_moves_vars => MovesInv'
  <2>1. MovesInv /\ UNCHANGED moves_vars => MovesInv'
    BY DEF moves_vars, MovesInv, MovesTypeOK, Accounted, InCommand, OneSideEach, CopiesBounded
  <2> QED
    BY <2>1, ElsewhereKeeps, StartsKeep, NextBatchKeeps, AcknowledgedKeeps, FailedKeeps DEF MovesNext
<1>2. MovesInv => NothingLost
  <2> SUFFICES ASSUME MovesInv PROVE NothingLost
    OBVIOUS
  <2>1. result.succeeded \subseteq Moved /\ result.failed \subseteq Moved /\ result.requested \subseteq Moved
    BY DEF MovesInv, MovesTypeOK
  <2>2. /\ call.op # "delete" => \A m \in Moved \ gone : m \in source \/ copies[m] > 0
        /\ \A m \in Moved : copies[m] <= 2
    BY DEF MovesInv, Accounted, CopiesBounded
  <2>3. ~call.running => result.succeeded \cup result.failed = result.requested
                         /\ result.succeeded \cap result.failed = {}
    BY <2>1 DEF MovesInv, OneSideEach
  <2>4. call.op = "move" => \A m \in result.succeeded \ gone : m \notin source /\ copies[m] > 0
    BY <2>1, <2>2 DEF MovesInv, InCommand
  <2> QED
    BY <2>2, <2>3, <2>4 DEF NothingLost
<1> QED
  BY MovesInitInv, <1>1, <1>2, PTL DEF MovesSpec

-----------------------------------------------------------------------------
(* Webhook push.  With one executor, what it remembers of the rows is what *)
(* they say until it writes them, so that a request is paid for: by an     *)
(* attempt that was counted, by a mishap, or by the answer outstanding.    *)

\* Executors never overlap: the watch and the dashboard do not both deliver.
OneExecutor == \A x, y \in Executors : x = y

DeliveryRows ==
  /\ deliveries \in [Pairs -> Delivery \cup {None}]
  /\ pass \in [Executors -> [todo : SUBSET Snapshot, posting : SUBSET Snapshot]]
  /\ posts \in [Pairs -> Nat] /\ mishaps \in Nat

Alive(d) == deliveries[d] # None /\ ~deliveries[d].delivered /\ ~deliveries[d].dead

\* What the executor read of a row still holds.
ReadsHold ==
  \A x \in Executors :
    /\ \A s \in pass[x].todo \cup pass[x].posting : Alive(s.pair) /\ s.attempts = deliveries[s.pair].attempts
    /\ \A s, t \in pass[x].posting : s = t
    /\ pass[x].todo \cap pass[x].posting = {}

BeingPosted(d) == \E x \in Executors : \E s \in pass[x].posting : s.pair = d

\* The requests sent for a delivery, by what its row says.
Paid(d) ==
  /\ deliveries[d] = None => posts[d] = 0
  /\ posts[d] <= MaxAttempts + 1 + mishaps
  /\ deliveries[d] # None /\ ~deliveries[d].delivered => posts[d] <= deliveries[d].attempts + 1 + mishaps
  /\ Alive(d) /\ ~BeingPosted(d) => /\ posts[d] <= deliveries[d].attempts + mishaps
                                    /\ posts[d] <= MaxAttempts + mishaps

DeliveryInv ==
  /\ DeliveryRows
  /\ ReadsHold
  /\ \A d \in Pairs : Paid(d)
  /\ \A d \in Pairs : deliveries[d] # None => ~(deliveries[d].delivered /\ deliveries[d].dead)

LEMMA ExecutorReads ==
  ASSUME DeliveryRows, NEW x \in Executors, NEW s \in pass[x].todo \cup pass[x].posting
  PROVE  /\ s \in Snapshot /\ s.pair \in Pairs /\ s.attempts \in Nat
         /\ pass[x] \in [todo : SUBSET Snapshot, posting : SUBSET Snapshot]
BY DEF DeliveryRows, Snapshot

LEMMA RowsRead ==
  ASSUME DeliveryRows, NEW d \in Pairs
  PROVE  /\ deliveries[d] = None \/ deliveries[d] \in Delivery
         /\ posts[d] \in Nat /\ mishaps \in Nat /\ MaxAttempts \in Nat \ {0}
         /\ deliveries[d] # None => /\ deliveries[d] \in Delivery
                                    /\ deliveries[d].attempts \in Nat
                                    /\ deliveries[d].delivered \in BOOLEAN /\ deliveries[d].dead \in BOOLEAN
BY DeliveryAssumption DEF DeliveryRows, Delivery

LEMMA DeliveryInvInit == ASSUME DeliveryInit PROVE DeliveryInv
<1>1. DeliveryRows
  BY DEF DeliveryInit, DeliveryRows, Idle
<1>2. ReadsHold
  BY DEF DeliveryInit, ReadsHold, Idle
<1>3. \A d \in Pairs : Paid(d)
  BY DeliveryAssumption DEF DeliveryInit, Paid, Alive
<1> QED BY <1>1, <1>2, <1>3 DEF DeliveryInv, DeliveryInit

\* A step that leaves the rows and the requests alone.
LEMMA RowsStay ==
  ASSUME DeliveryInv, UNCHANGED <<deliveries, pass, posts, mishaps>>
  PROVE  DeliveryInv'
<1>1. DeliveryRows' /\ ReadsHold'
  BY DEF DeliveryInv, DeliveryRows, ReadsHold, Alive
<1>2. ASSUME NEW d \in Pairs PROVE Paid(d)'
  BY DEF DeliveryInv, Paid, Alive, BeingPosted
<1> QED BY <1>1, <1>2 DEF DeliveryInv

\* The row of one delivery changes; what is being read and sent does not.
LEMMA RowWritten ==
  ASSUME DeliveryInv, NEW d \in Pairs, NEW row \in Delivery,
         deliveries' = [deliveries EXCEPT ![d] = row],
         pass' = pass, posts' = posts,
         mishaps' = mishaps \/ mishaps' = mishaps + 1,
         ~(row.delivered /\ row.dead),
         Alive(d) => ~row.delivered /\ ~row.dead /\ row.attempts = deliveries[d].attempts,
         deliveries[d] = None => row.attempts = 0,
         deliveries[d] # None => /\ row.attempts = deliveries[d].attempts
                                 /\ row.delivered = deliveries[d].delivered
                                 /\ row.dead = deliveries[d].dead \/ mishaps' = mishaps + 1
  PROVE  DeliveryInv'
<1> USE DEF DeliveryInv
<1>0. /\ mishaps \in Nat /\ mishaps' \in Nat /\ mishaps <= mishaps' /\ MaxAttempts \in Nat
      /\ row.attempts \in Nat /\ row.delivered \in BOOLEAN /\ row.dead \in BOOLEAN /\ row # None
  BY DeliveryAssumption DEF DeliveryRows, Delivery
<1>1. deliveries'[d] = row /\ \A e \in Pairs : e # d => deliveries'[e] = deliveries[e]
  BY DEF DeliveryRows
<1>2. DeliveryRows'
  BY <1>0 DEF DeliveryRows
<1>3. \A e \in Pairs : Alive(e) => Alive(e)' /\ deliveries'[e].attempts = deliveries[e].attempts
  BY <1>0, <1>1 DEF Alive
<1>4. ReadsHold'
  BY <1>3, ExecutorReads DEF ReadsHold
<1>5. \A e \in Pairs : BeingPosted(e)' = BeingPosted(e)
  BY DEF BeingPosted
<1>6. ASSUME NEW e \in Pairs PROVE Paid(e)'
  <2>1. CASE e # d
    <3>1. deliveries'[e] = deliveries[e] /\ (Alive(e)' <=> Alive(e)) /\ posts'[e] = posts[e] /\ Paid(e)
      BY <2>1, <1>1 DEF Alive
    <3>2. /\ posts[e] \in Nat
          /\ deliveries[e] # None => deliveries[e].attempts \in Nat
      BY RowsRead
    <3>3. BeingPosted(e)' = BeingPosted(e)
      BY <1>5
    <3>4. Alive(e) => deliveries[e] # None
      BY DEF Alive
    <3> QED BY <3>1, <3>2, <3>3, <3>4, <1>0 DEF Paid
  <2>2. CASE e = d /\ deliveries[d] = None
    <3>1. posts'[e] = 0 /\ deliveries'[e] = row
      BY <2>2, <1>1 DEF Paid
    <3>2. /\ 0 <= MaxAttempts + 1 + mishaps'
          /\ 0 <= row.attempts + 1 + mishaps'
          /\ 0 <= row.attempts + mishaps' /\ 0 <= MaxAttempts + mishaps'
      <4>1. \A a, k \in Nat : 0 <= a + 1 + k /\ 0 <= a + k
        OBVIOUS
      <4> QED BY <4>1, <1>0
    <3> QED BY <3>1, <3>2 DEF Paid
  <2>3. CASE e = d /\ deliveries[d] # None
    <3>1. /\ posts[d] \in Nat /\ posts'[d] = posts[d] /\ deliveries'[d] = row /\ row.attempts = deliveries[d].attempts
          /\ posts[d] <= MaxAttempts + 1 + mishaps
          /\ ~row.delivered => posts[d] <= row.attempts + 1 + mishaps
      BY <2>3, <1>1, RowsRead DEF Paid
    <3>2. ASSUME Alive(d)', ~BeingPosted(d)
          PROVE  posts[d] <= row.attempts + mishaps' /\ posts[d] <= MaxAttempts + mishaps'
      <4>1. CASE mishaps' = mishaps + 1
        BY <4>1, <3>1, <3>2, <1>0 DEF Alive
      <4>2. CASE row.dead = deliveries[d].dead
        <5>1. Alive(d)
          BY <4>2, <3>1, <3>2, <2>3 DEF Alive
        <5> QED BY <5>1, <3>1, <3>2, <1>0 DEF Paid
      <4> QED BY <4>1, <4>2, <2>3
    <3> QED BY <2>3, <3>1, <3>2, <1>0, <1>5 DEF Paid
  <2> QED BY <2>1, <2>2, <2>3
<1>7. \A e \in Pairs : deliveries'[e] # None => ~(deliveries'[e].delivered /\ deliveries'[e].dead)
  BY <1>1
<1> QED BY <1>2, <1>4, <1>6, <1>7

LEMMA TableChanges ==
  ASSUME DeliveryInv, NEW d \in Pairs,
         (\E e \in Events, r \in Routes : d = <<e, r>> /\ enqueue_delivery(e, r)) \/ Elapse(d) \/ reset_delivery_for_retry(d)
  PROVE  DeliveryInv'
<1> DEFINE Written(row) ==
      /\ row \in Delivery /\ ~(row.delivered /\ row.dead)
      /\ deliveries' = [deliveries EXCEPT ![d] = row]
      /\ Alive(d) => ~row.delivered /\ ~row.dead
      /\ deliveries[d] = None => row.attempts = 0
      /\ deliveries[d] # None => /\ row.attempts = deliveries[d].attempts
                                 /\ row.delivered = deliveries[d].delivered
                                 /\ row.dead = deliveries[d].dead \/ mishaps' = mishaps + 1
<1>0. deliveries \in [Pairs -> Delivery \cup {None}] /\ (deliveries[d] # None => deliveries[d] \in Delivery)
  BY DEF DeliveryInv, DeliveryRows
<1>1. pass' = pass /\ posts' = posts /\ (mishaps' = mishaps \/ mishaps' = mishaps + 1)
  BY DEF enqueue_delivery, Elapse, reset_delivery_for_retry
<1> SUFFICES \E row : Written(row)
  <2>1. ASSUME NEW row, Written(row) PROVE DeliveryInv'
    <3>1. /\ row \in Delivery /\ ~(row.delivered /\ row.dead)
          /\ deliveries' = [deliveries EXCEPT ![d] = row]
          /\ Alive(d) => ~row.delivered /\ ~row.dead /\ row.attempts = deliveries[d].attempts
          /\ deliveries[d] = None => row.attempts = 0
          /\ deliveries[d] # None => /\ row.attempts = deliveries[d].attempts
                                     /\ row.delivered = deliveries[d].delivered
                                     /\ row.dead = deliveries[d].dead \/ mishaps' = mishaps + 1
      BY <2>1, Zenon DEF Alive
    <3> HIDE DEF Written
    <3> QED BY <3>1, <1>1, RowWritten
  <2> HIDE DEF Written
  <2> QED BY <2>1
<1>2. CASE \E e \in Events, r \in Routes : d = <<e, r>> /\ enqueue_delivery(e, r)
  <2> DEFINE fresh == [attempts |-> 0, due |-> TRUE, delivered |-> FALSE, dead |-> FALSE]
  <2>1. deliveries' = [deliveries EXCEPT ![d] = fresh] /\ deliveries[d] = None
    BY <1>2 DEF enqueue_delivery
  <2>2. Written(fresh)
    BY <2>1 DEF Delivery, Alive
  <2> QED BY <2>2
<1>3. CASE Elapse(d)
  <2> DEFINE row == [deliveries[d] EXCEPT !.due = TRUE]
  <2>1. deliveries[d] \in Delivery /\ deliveries' = [deliveries EXCEPT ![d] = row]
    BY <1>0, <1>3 DEF Elapse
  <2>2. /\ row \in Delivery /\ row.attempts = deliveries[d].attempts
        /\ row.delivered = deliveries[d].delivered /\ row.dead = deliveries[d].dead
    BY <2>1 DEF Delivery
  <2>3. Written(row)
    BY <1>3, <2>1, <2>2, Zenon DEF Alive, Elapse, DeliveryInv
  <2> QED BY <2>3
<1>4. CASE reset_delivery_for_retry(d)
  <2> DEFINE row == [deliveries[d] EXCEPT !.dead = FALSE, !.due = TRUE]
  <2>1. deliveries[d] \in Delivery /\ ~deliveries[d].delivered /\ mishaps' = mishaps + 1
    BY <1>0, <1>4 DEF reset_delivery_for_retry
  <2>2. deliveries' = [deliveries EXCEPT ![d] = row]
    BY <1>0, <1>4 DEF reset_delivery_for_retry
  <2>3. /\ row \in Delivery /\ row.attempts = deliveries[d].attempts
        /\ row.delivered = deliveries[d].delivered /\ ~row.dead
    BY <2>1 DEF Delivery
  <2>4. Written(row)
    BY <1>4, <2>1, <2>2, <2>3, Zenon DEF Alive, reset_delivery_for_retry
  <2> QED BY <2>4
<1> HIDE DEF Written
<1> QED BY <1>2, <1>3, <1>4

LEMMA PassBegins ==
  ASSUME OneExecutor, DeliveryInv, NEW x \in Executors, BeginPass(x)
  PROVE  DeliveryInv'
<1> DEFINE due == {[pair |-> d, attempts |-> deliveries[d].attempts] : d \in list_due_deliveries}
<1>0. /\ pass[x].posting = {} /\ pass' = [pass EXCEPT ![x].todo = due]
      /\ UNCHANGED <<deliveries, posts, mishaps>>
  BY DEF BeginPass, Idle
<1>1. \A s \in due : s \in Snapshot /\ Alive(s.pair) /\ s.attempts = deliveries[s.pair].attempts
  BY DEF DeliveryInv, DeliveryRows, list_due_deliveries, Alive, Snapshot, Delivery
<1>2. pass'[x].todo = due /\ pass'[x].posting = {} /\ pass' \in [Executors -> [todo : SUBSET Snapshot, posting : SUBSET Snapshot]]
  <2>1. pass \in [Executors -> [todo : SUBSET Snapshot, posting : SUBSET Snapshot]] /\ due \in SUBSET Snapshot
    BY <1>1 DEF DeliveryInv, DeliveryRows
  <2> QED BY <1>0, <2>1
<1>3. \A y \in Executors : y = x
  BY DEF OneExecutor
<1>4. DeliveryRows'
  BY <1>0, <1>2 DEF DeliveryInv, DeliveryRows
<1>5. ReadsHold'
  BY <1>0, <1>1, <1>2, <1>3 DEF ReadsHold, Alive
<1>6. \A d \in Pairs : BeingPosted(d)' = BeingPosted(d)
  BY <1>0, <1>2, <1>3 DEF BeingPosted
<1>7. ASSUME NEW d \in Pairs PROVE Paid(d)'
  BY <1>0, <1>6 DEF DeliveryInv, Paid, Alive
<1> QED BY <1>0, <1>4, <1>5, <1>7 DEF DeliveryInv

LEMMA PassCrashes ==
  ASSUME OneExecutor, DeliveryInv, NEW x \in Executors, Crash(x)
  PROVE  DeliveryInv'
<1>0. /\ pass' = [pass EXCEPT ![x] = Idle] /\ mishaps' = mishaps + 1 /\ UNCHANGED <<deliveries, posts>>
  BY DEF Crash
<1>1. \A y \in Executors : y = x /\ pass'[y] = Idle
  BY <1>0 DEF OneExecutor, DeliveryInv, DeliveryRows
<1>2. DeliveryRows'
  BY <1>0 DEF DeliveryInv, DeliveryRows, Idle
<1>3. ReadsHold'
  BY <1>1 DEF ReadsHold, Idle
<1>4. ASSUME NEW d \in Pairs PROVE Paid(d)'
  <2>1. /\ posts'[d] = posts[d] /\ deliveries'[d] = deliveries[d] /\ posts[d] \in Nat /\ mishaps \in Nat
        /\ deliveries[d] # None => deliveries[d].attempts \in Nat
        /\ MaxAttempts \in Nat
    BY <1>0, RowsRead DEF DeliveryInv
  <2>2. /\ deliveries[d] = None => posts[d] = 0
        /\ posts[d] <= MaxAttempts + 1 + mishaps
        /\ deliveries[d] # None /\ ~deliveries[d].delivered => posts[d] <= deliveries[d].attempts + 1 + mishaps
    BY DEF DeliveryInv, Paid
  <2> QED BY <1>0, <2>1, <2>2 DEF Paid, Alive
<1> QED BY <1>0, <1>2, <1>3, <1>4 DEF DeliveryInv

\* The executor POSTs the event of a row it read.
LEMMA RequestSent ==
  ASSUME OneExecutor, DeliveryInv, NEW x \in Executors, NEW s \in pass[x].todo,
         pass[x].posting = {},
         pass' = [pass EXCEPT ![x] = [todo |-> @.todo \ {s}, posting |-> {s}]],
         posts' = [posts EXCEPT ![s.pair] = @ + 1],
         UNCHANGED <<deliveries, mishaps>>
  PROVE  DeliveryInv'
<1>0. /\ s \in Snapshot /\ s.pair \in Pairs /\ Alive(s.pair)
      /\ pass[x] \in [todo : SUBSET Snapshot, posting : SUBSET Snapshot]
  BY ExecutorReads DEF DeliveryInv, ReadsHold
<1>1. pass'[x].todo = pass[x].todo \ {s} /\ pass'[x].posting = {s} /\ \A y \in Executors : y = x
  BY DEF DeliveryInv, DeliveryRows, OneExecutor
<1>2. DeliveryRows'
  <2>1. posts' \in [Pairs -> Nat]
    BY <1>0 DEF DeliveryInv, DeliveryRows
  <2>2. pass' \in [Executors -> [todo : SUBSET Snapshot, posting : SUBSET Snapshot]]
    BY <1>0 DEF DeliveryInv, DeliveryRows
  <2> QED BY <2>1, <2>2 DEF DeliveryInv, DeliveryRows
<1>3. ReadsHold'
  BY <1>1 DEF DeliveryInv, ReadsHold, Alive
<1>4. \A d \in Pairs : BeingPosted(d)' <=> d = s.pair
  BY <1>0, <1>1 DEF BeingPosted
<1>5. ~BeingPosted(s.pair)
  BY <1>1 DEF BeingPosted
<1>6. ASSUME NEW d \in Pairs PROVE Paid(d)'
  <2>1. /\ posts[d] \in Nat /\ mishaps \in Nat /\ MaxAttempts \in Nat
        /\ deliveries'[d] = deliveries[d] /\ mishaps' = mishaps
        /\ deliveries[d] # None => deliveries[d].attempts \in Nat
    BY RowsRead DEF DeliveryInv
  <2>2. CASE d # s.pair
    <3>1. posts'[d] = posts[d] /\ ~BeingPosted(d)
      <4>1. posts'[d] = posts[d]
        BY <2>2, <1>0 DEF DeliveryInv, DeliveryRows
      <4>2. ~BeingPosted(d)
        BY <1>1 DEF BeingPosted
      <4> QED BY <4>1, <4>2
    <3> QED BY <2>1, <3>1 DEF DeliveryInv, Paid, Alive
  <2>3. CASE d = s.pair
    <3>1. posts'[d] = posts[d] + 1
      BY <2>3, <1>0 DEF DeliveryInv, DeliveryRows
    <3>2. deliveries[d] # None /\ posts[d] <= deliveries[d].attempts + mishaps /\ posts[d] <= MaxAttempts + mishaps
      BY <2>3, <1>0, <1>5 DEF DeliveryInv, Paid, Alive
    <3>3. posts'[d] <= deliveries[d].attempts + 1 + mishaps /\ posts'[d] <= MaxAttempts + 1 + mishaps
      BY <3>1, <3>2, <2>1
    <3>4. BeingPosted(d)'
      BY <1>4, <2>3
    <3> QED BY <2>1, <3>2, <3>3, <3>4 DEF Paid
  <2> QED BY <2>2, <2>3
<1> QED BY <1>2, <1>3, <1>6 DEF DeliveryInv

\* The executor writes the outcome of a row it read, and is done with it.
LEMMA OutcomeWritten ==
  ASSUME OneExecutor, DeliveryInv, NEW x \in Executors, NEW s \in pass[x].todo \cup pass[x].posting,
         pass[x].posting \in {{}, {s}},
         pass' \in {[pass EXCEPT ![x].todo = @ \ {s}], [pass EXCEPT ![x].posting = {}]},
         pass'[x].posting = {} /\ s \notin pass'[x].todo,
         UNCHANGED <<posts, mishaps>>,
         NEW row \in Delivery, deliveries' = [deliveries EXCEPT ![s.pair] = row],
         row.attempts = deliveries[s.pair].attempts + 1,
         ~(row.delivered /\ row.dead),
         ~row.delivered /\ ~row.dead => row.attempts <= MaxAttempts
  PROVE  DeliveryInv'
<1>0. /\ s \in Snapshot /\ s.pair \in Pairs /\ Alive(s.pair) /\ deliveries[s.pair] # None
      /\ pass[x] \in [todo : SUBSET Snapshot, posting : SUBSET Snapshot]
  BY ExecutorReads DEF DeliveryInv, ReadsHold, Alive
<1>1. pass'[x].todo = pass[x].todo \ {s} /\ \A y \in Executors : y = x
  BY DEF DeliveryInv, DeliveryRows, OneExecutor
<1>2. deliveries'[s.pair] = row /\ \A d \in Pairs : d # s.pair => deliveries'[d] = deliveries[d]
  BY <1>0 DEF DeliveryInv, DeliveryRows
<1>3. DeliveryRows'
  BY <1>0 DEF DeliveryInv, DeliveryRows
<1>4. \A t \in pass[x].todo \cup pass[x].posting : t.pair = s.pair => t = s
  BY ExecutorReads DEF DeliveryInv, ReadsHold, Snapshot
<1>5. ReadsHold'
  <2>1. ASSUME NEW t \in pass'[x].todo PROVE Alive(t.pair)' /\ t.attempts = deliveries'[t.pair].attempts
    <3>1. t \in pass[x].todo /\ t.pair # s.pair /\ t.pair \in Pairs
      BY <1>1, <1>4, ExecutorReads DEF DeliveryInv
    <3> QED BY <3>1, <1>2 DEF DeliveryInv, ReadsHold, Alive
  <2> QED BY <2>1, <1>1 DEF ReadsHold
<1>6. \A d \in Pairs : ~BeingPosted(d)' /\ (d # s.pair => ~BeingPosted(d))
  BY <1>1 DEF BeingPosted
<1>7. ASSUME NEW d \in Pairs PROVE Paid(d)'
  <2>1. /\ posts[d] \in Nat /\ mishaps \in Nat /\ MaxAttempts \in Nat
        /\ posts'[d] = posts[d] /\ mishaps' = mishaps
        /\ deliveries[d] # None => deliveries[d].attempts \in Nat
    BY RowsRead DEF DeliveryInv
  <2>2. CASE d # s.pair
    <3>1. deliveries'[d] = deliveries[d] /\ ~BeingPosted(d)
      BY <2>2, <1>2, <1>6
    <3> QED BY <2>1, <3>1 DEF DeliveryInv, Paid, Alive
  <2>3. CASE d = s.pair
    <3>1. deliveries'[d] = row /\ row # None /\ row.attempts = deliveries[d].attempts + 1 /\ row.attempts \in Nat
      BY <2>3, <1>2, DeliveryAssumption DEF Delivery
    <3>2. posts[d] <= deliveries[d].attempts + 1 + mishaps /\ posts[d] <= MaxAttempts + 1 + mishaps
      BY <2>3, <1>0 DEF DeliveryInv, Paid, Alive
    <3>3. posts[d] <= row.attempts + mishaps /\ posts[d] <= row.attempts + 1 + mishaps
      BY <2>1, <1>0, <2>3, <3>1, <3>2
    <3>4. ASSUME Alive(d)' PROVE posts[d] <= MaxAttempts + mishaps
      <4>1. row.attempts <= MaxAttempts
        BY <3>1, <3>4 DEF Alive
      <4> QED BY <4>1, <3>1, <3>3, <2>1
    <3> QED BY <2>1, <3>1, <3>2, <3>3, <3>4 DEF Paid
  <2> QED BY <2>2, <2>3
<1>8. \A d \in Pairs : deliveries'[d] # None => ~(deliveries'[d].delivered /\ deliveries'[d].dead)
  BY <1>2 DEF DeliveryInv
<1> QED BY <1>3, <1>5, <1>7, <1>8 DEF DeliveryInv

\* A row after an answer, and after a failure that leaves a retry or none.
RowDelivered(old) == [old EXCEPT !.attempts = @ + 1, !.delivered = TRUE]
RowFailed(old, dead) == [old EXCEPT !.attempts = @ + 1, !.due = FALSE, !.dead = dead]

LEMMA OutcomesCounted ==
  ASSUME NEW old \in Delivery, NEW given_up \in BOOLEAN
  PROVE  /\ RowDelivered(old) \in Delivery /\ RowDelivered(old).attempts = old.attempts + 1
         /\ RowDelivered(old).delivered = TRUE /\ RowDelivered(old).dead = old.dead
         /\ RowFailed(old, given_up) \in Delivery /\ RowFailed(old, given_up).attempts = old.attempts + 1
         /\ RowFailed(old, given_up).delivered = old.delivered /\ RowFailed(old, given_up).dead = given_up
<1>1. PICK n \in Nat : n = old.attempts + 1
  BY DEF Delivery
<1> DEFINE won == [old EXCEPT !.attempts = n, !.delivered = TRUE]
           lost == [old EXCEPT !.attempts = n, !.due = FALSE, !.dead = given_up]
<1>2. won \in Delivery /\ won.attempts = n /\ won.delivered = TRUE /\ won.dead = old.dead
  BY DEF Delivery
<1>3. lost \in Delivery /\ lost.attempts = n /\ lost.delivered = old.delivered /\ lost.dead = given_up
  BY DEF Delivery
<1>4. RowDelivered(old) = won
  BY <1>1, Zenon DEF RowDelivered
<1>5. RowFailed(old, given_up) = lost
  BY <1>1, Zenon DEF RowFailed
<1> HIDE DEF won, lost
<1> QED BY <1>1, <1>2, <1>3, <1>4, <1>5, Zenon

LEMMA ExecutorSteps ==
  ASSUME OneExecutor, DeliveryInv, NEW x \in Executors, post_webhook(x) \/ Answered(x)
  PROVE  DeliveryInv'
<1>0. pass[x] \in [todo : SUBSET Snapshot, posting : SUBSET Snapshot] /\ pass \in [Executors -> [todo : SUBSET Snapshot, posting : SUBSET Snapshot]]
  BY DEF DeliveryInv, DeliveryRows
<1>1. ASSUME NEW s \in pass[x].todo \cup pass[x].posting
      PROVE  /\ s.pair \in Pairs /\ s.attempts \in Nat /\ s.attempts = deliveries[s.pair].attempts
             /\ deliveries[s.pair] \in Delivery /\ ~deliveries[s.pair].delivered /\ ~deliveries[s.pair].dead
             /\ deliveries \in [Pairs -> Delivery \cup {None}]
  BY <1>1, ExecutorReads, RowsRead DEF DeliveryInv, ReadsHold, Alive, DeliveryRows
<1>2. CASE post_webhook(x)
  <2>1. PICK s \in pass[x].todo :
          IF Deliverable(s.pair)
            THEN /\ pass' = [pass EXCEPT ![x] = [todo |-> @.todo \ {s}, posting |-> {s}]]
                 /\ posts' = [posts EXCEPT ![s.pair] = @ + 1]
                 /\ UNCHANGED deliveries
            ELSE /\ pass' = [pass EXCEPT ![x].todo = @ \ {s}]
                 /\ deliveries' = record_delivery_failure(s.pair, FALSE)
                 /\ UNCHANGED posts
    BY <1>2 DEF post_webhook
  <2>2. pass[x].posting = {} /\ UNCHANGED mishaps
    BY <1>2 DEF post_webhook
  <2>3. CASE Deliverable(s.pair)
    BY <2>1, <2>2, <2>3, RequestSent
  <2>4. CASE ~Deliverable(s.pair)
    <3> DEFINE row == RowFailed(deliveries[s.pair], TRUE)
    <3>1. deliveries' = [deliveries EXCEPT ![s.pair] = row]
      BY <2>1, <2>4, <1>1 DEF record_delivery_failure, RowFailed
    <3>2. row \in Delivery /\ row.attempts = deliveries[s.pair].attempts + 1 /\ ~row.delivered /\ row.dead
      <4>1. deliveries[s.pair] \in Delivery
        BY <1>1
      <4> QED BY <4>1, <1>1, OutcomesCounted
    <3>3. pass' = [pass EXCEPT ![x].todo = @ \ {s}] /\ posts' = posts
      BY <2>1, <2>4
    <3>4. pass'[x].posting = {} /\ pass'[x].todo = pass[x].todo \ {s}
      BY <3>3, <2>2, <1>0
    <3> HIDE DEF row
    <3> QED BY <3>1, <3>2, <3>3, <3>4, <2>2, OutcomeWritten
  <2> QED BY <2>3, <2>4
<1>3. CASE Answered(x)
  <2>1. PICK s \in pass[x].posting :
          \/ deliveries' = record_delivery_success(s.pair)
          \/ deliveries' = record_delivery_failure(s.pair, next_attempt_at(s.attempts + 1))
    BY <1>3 DEF Answered
  <2>2. pass' = [pass EXCEPT ![x].posting = {}] /\ UNCHANGED <<posts, mishaps>>
    BY <1>3 DEF Answered
  <2>3. pass[x].posting = {s} /\ s \notin pass[x].todo
    BY DEF DeliveryInv, ReadsHold
  <2>4. pass'[x].posting = {} /\ pass'[x].todo = pass[x].todo
    BY <2>2, <1>0
  <2>5. CASE deliveries' = record_delivery_success(s.pair)
    <3> DEFINE row == RowDelivered(deliveries[s.pair])
    <3>1. deliveries' = [deliveries EXCEPT ![s.pair] = row]
      BY <2>5, <1>1 DEF record_delivery_success, RowDelivered
    <3>2. row \in Delivery /\ row.attempts = deliveries[s.pair].attempts + 1 /\ row.delivered /\ ~row.dead
      <4>1. deliveries[s.pair] \in Delivery
        BY <1>1
      <4> QED BY <4>1, <1>1, OutcomesCounted
    <3> HIDE DEF row
    <3> QED BY <3>1, <3>2, <2>2, <2>3, <2>4, OutcomeWritten
  <2>6. CASE deliveries' = record_delivery_failure(s.pair, next_attempt_at(s.attempts + 1))
    <3>0. PICK over \in BOOLEAN : over = ~next_attempt_at(s.attempts + 1)
      OBVIOUS
    <3> DEFINE row == RowFailed(deliveries[s.pair], over)
    <3>1. deliveries' = [deliveries EXCEPT ![s.pair] = row]
      BY <2>6, <3>0, <1>1, Zenon DEF record_delivery_failure, RowFailed
    <3>2. /\ row \in Delivery /\ row.attempts = deliveries[s.pair].attempts + 1 /\ ~row.delivered
          /\ ~row.dead => next_attempt_at(s.attempts + 1)
      <4>1. /\ row \in Delivery /\ row.attempts = deliveries[s.pair].attempts + 1
            /\ row.delivered = deliveries[s.pair].delivered /\ row.dead = over
        <5>1. deliveries[s.pair] \in Delivery
          BY <1>1
        <5> QED BY <5>1, OutcomesCounted
      <4> HIDE DEF row
      <4> QED BY <4>1, <1>1, <3>0
    <3>3. ~row.dead => row.attempts <= MaxAttempts
      BY <3>2, <1>1 DEF next_attempt_at
    <3> HIDE DEF row
    <3> QED BY <3>1, <3>2, <3>3, <2>2, <2>3, <2>4, OutcomeWritten
  <2> QED BY <2>1, <2>5, <2>6
<1> QED BY <1>2, <1>3

LEMMA DeliveryInvNext ==
  ASSUME OneExecutor, DeliveryInv, [DeliveryNext]_delivery_vars
  PROVE  DeliveryInv'
<1>1. CASE \/ \E e \in Events : insert_event_idempotent(e) \/ mark_acked(e) \/ prune_events(e)
           \/ \E r \in Routes : upsert_event_route(r) \/ delete_event_route(r)
           \/ UNCHANGED delivery_vars
  BY <1>1, RowsStay
     DEF insert_event_idempotent, mark_acked, prune_events, upsert_event_route, delete_event_route, delivery_vars
<1>2. CASE \E e \in Events, r \in Routes : enqueue_delivery(e, r)
  <2>1. PICK e \in Events, r \in Routes : enqueue_delivery(e, r)
    BY <1>2
  <2>2. <<e, r>> \in Pairs
    BY DEF Pairs
  <2> QED BY <2>1, <2>2, TableChanges
<1>3. CASE \E d \in Pairs : Elapse(d) \/ reset_delivery_for_retry(d)
  BY <1>3, TableChanges
<1>4. CASE \E x \in Executors : deliver_due_events(x)
  BY <1>4, PassBegins, PassCrashes, ExecutorSteps DEF deliver_due_events
<1> QED BY <1>1, <1>2, <1>3, <1>4 DEF DeliveryNext

\* A row reads as exactly one of delivered, pending and dead, so that the
\* counts of a route add up.
LEMMA CountsAddUp ==
  ASSUME DeliveryInv, IsFiniteSet(Pairs), NEW r \in Routes
  PROVE  LET counts == route_delivery_counts(r)
         IN counts[1] + counts[2] + counts[3] = RowsOf(r, LAMBDA row : TRUE)
<1> DEFINE delivered == {d \in Pairs : d[2] = r /\ deliveries[d] # None /\ deliveries[d].delivered}
           pending == {d \in Pairs : d[2] = r /\ deliveries[d] # None /\ (~deliveries[d].delivered /\ ~deliveries[d].dead)}
           dead == {d \in Pairs : d[2] = r /\ deliveries[d] # None /\ deliveries[d].dead}
           all == {d \in Pairs : d[2] = r /\ deliveries[d] # None /\ TRUE}
<1>1. all = (delivered \cup pending) \cup dead
  BY RowsRead DEF DeliveryInv
<1>2. delivered \cap pending = {} /\ (delivered \cup pending) \cap dead = {}
  BY DEF DeliveryInv
<1>3. IsFiniteSet(delivered) /\ IsFiniteSet(pending) /\ IsFiniteSet(dead) /\ IsFiniteSet(delivered \cup pending)
  <2>1. delivered \subseteq Pairs /\ pending \subseteq Pairs /\ dead \subseteq Pairs /\ (delivered \cup pending) \subseteq Pairs
    OBVIOUS
  <2> QED BY <2>1, FS_Subset
<1>4. Cardinality(all) = Cardinality(delivered) + Cardinality(pending) + Cardinality(dead)
  <2> HIDE DEF delivered, pending, dead, all
  <2>1. Cardinality(delivered \cup pending) = Cardinality(delivered) + Cardinality(pending)
    BY <1>2, <1>3, FS_Union, FS_EmptySet, FS_CardinalityType
  <2>2. Cardinality((delivered \cup pending) \cup dead) = Cardinality(delivered \cup pending) + Cardinality(dead)
    <3> DEFINE both == delivered \cup pending
    <3>1. IsFiniteSet(both) /\ both \cap dead = {}
      BY <1>2, <1>3
    <3> HIDE DEF both
    <3>2. IsFiniteSet(dead) /\ Cardinality(both) \in Nat /\ Cardinality(dead) \in Nat
      BY <3>1, <1>3, FS_CardinalityType
    <3>3. Cardinality(both \cup dead) = Cardinality(both) + Cardinality(dead) - Cardinality(both \cap dead)
      BY <3>1, <3>2, FS_Union
    <3>4. Cardinality(both \cap dead) = 0
      BY <3>1, FS_EmptySet
    <3>5. Cardinality(both \cup dead) = Cardinality(both) + Cardinality(dead)
      BY <3>2, <3>3, <3>4
    <3> QED BY <3>5 DEF both
  <2> QED BY <1>1, <2>1, <2>2
<1>5. route_delivery_counts(r) = <<Cardinality(delivered), Cardinality(pending), Cardinality(dead)>>
  BY DEF route_delivery_counts, RowsOf
<1>6. RowsOf(r, LAMBDA row : TRUE) = Cardinality(all)
  BY DEF RowsOf
<1> QED BY <1>4, <1>5, <1>6

\* A delivery is given up after MAX_ATTEMPTS retries, whatever operators and
\* crashes do in between, and each row reads as one thing, provided one
\* executor works at a time (event_delivery.rs deliver_due_events).
THEOREM RequestsAreBounded ==
  ASSUME OneExecutor, IsFiniteSet(Events), IsFiniteSet(Routes)
  PROVE  DeliverySpec => []RequestsBounded
<1>1. IsFiniteSet(Pairs)
  BY FS_Product DEF Pairs
<1>2. DeliveryInv => RequestsBounded
  BY <1>1, CountsAddUp DEF RequestsBounded, DeliveryInv, Paid
<1>3. DeliveryInit => DeliveryInv
  BY DeliveryInvInit
<1>4. DeliveryInv /\ [DeliveryNext]_delivery_vars => DeliveryInv'
  BY DeliveryInvNext
<1> QED BY <1>2, <1>3, <1>4, PTL DEF DeliverySpec

-----------------------------------------------------------------------------
(* Learned parsers.  A name has one version in force.  Each version was    *)
(* shown, and reads, all it counts as an example; the version in force has *)
(* every example its predecessors had; and a replay that passed will put   *)
(* in force the new example and those it read, which all come out.         *)

\* A receipt on its way, and the tables.
ReadingRow ==
  [step : {"idle", "known", "attempt", "budget", "invoke", "replay", "swap", "again", "read"},
   layout : Layouts \cup {None}, by : Packages \cup {None}, decision : {"none", "quarantined"},
   budget : 0..DailyLimit, proposal : Packages \cup {None}, examples : SUBSET Layouts,
   replaces : SUBSET (Packages \X SUBSET Layouts)]

LearningRows ==
  /\ versions \in [Packages -> Version \cup {None}]
  /\ limit \in 0..DailyLimit \cup {None} /\ jobs \in 0..DailyLimit
  /\ reading \in [Readers -> ReadingRow]
  /\ shown \in [Packages -> SUBSET Layouts] /\ lessons \in [Names -> SUBSET Layouts] /\ crossed \subseteq Names

\* Each version was shown, and reads, what it counts as an example.
VersionsSound ==
  \A p \in Packages : versions[p] # None =>
    versions[p].fixtures \subseteq shown[p] /\ \A f \in versions[p].fixtures : extract(p, f)

\* One version of a name, which has every example its predecessors had.
OneInForce == \A n \in Names : \A p, q \in InForce(n) : p = q
LessonsKept == \A n \in Names \ crossed : lessons[n] \subseteq Fixtures(InForce(n))

\* A learned reading, and a replay that is not yet a promotion.
ReaderSound(r) ==
  /\ reading[r].step # "idle" => reading[r].layout \in Layouts
  /\ reading[r].by # None => reading[r].layout \in shown[reading[r].by] /\ reading[r].decision = "quarantined"
  /\ reading[r].step \in {"replay", "swap"} => reading[r].proposal \in Packages
  /\ reading[r].step = "swap" =>
       /\ reading[r].examples = {reading[r].layout} \cup UNION {s[2] : s \in reading[r].replaces}
       /\ \A f \in reading[r].examples : extract(reading[r].proposal, f)

LearningInv ==
  /\ LearningRows /\ VersionsSound /\ OneInForce /\ LessonsKept
  /\ \A r \in Readers : ReaderSound(r)

\* What puts a version in force does to the tables.
LEMMA SwapLands ==
  ASSUME LearningRows, NEW p \in Packages, NEW examples \in SUBSET Layouts, versions' = Swapped(p, examples)
  PROVE  /\ versions' \in [Packages -> Version \cup {None}]
         /\ versions'[p] = [fixtures |-> examples, active |-> TRUE] /\ versions'[p] # None
         /\ InForce(Package[p].name)' = {p} /\ Fixtures(InForce(Package[p].name))' = examples
         /\ \A q \in Packages \ {p} :
              /\ (versions'[q] # None) <=> (versions[q] # None)
              /\ versions[q] # None => versions'[q].fixtures = versions[q].fixtures
         /\ \A n \in Names \ {Package[p].name} :
              InForce(n)' = InForce(n) /\ Fixtures(InForce(n))' = Fixtures(InForce(n))
<1> USE LearningAssumption
<1> DEFINE retired(q) == [versions[q] EXCEPT !.active = FALSE]
<1>1. [fixtures |-> examples, active |-> TRUE] \in Version
  BY DEF Version
<1>2. ASSUME NEW q \in Packages, versions[q] # None
      PROVE  retired(q) \in Version /\ retired(q).fixtures = versions[q].fixtures /\ ~retired(q).active
  <2>1. versions[q] \in Version
    BY <1>2 DEF LearningRows
  <2> QED
    BY <2>1 DEF Version
<1>3. versions' = [q \in Packages |-> Swapped(p, examples)[q]]
  BY DEF Swapped
<1>4. versions'[p] = [fixtures |-> examples, active |-> TRUE]
  BY <1>3 DEF Swapped
<1>5. ASSUME NEW q \in Packages \ {p}
      PROVE  versions'[q] = IF versions[q] # None /\ Package[q].name = Package[p].name
                              THEN retired(q) ELSE versions[q]
  BY <1>3 DEF Swapped
<1>6. ASSUME NEW q \in Packages
      PROVE  versions'[q] \in Version \cup {None}
  <2>1. CASE q = p
    BY <1>1, <1>4, <2>1
  <2>2. CASE q # p
    BY <1>2, <1>5, <2>2 DEF LearningRows
  <2> QED
    BY <2>1, <2>2
<1>7. versions' \in [Packages -> Version \cup {None}]
  BY <1>3, <1>6
<1>8. versions'[p] # None
  BY <1>1, <1>4
<1>9. ASSUME NEW q \in Packages \ {p}
      PROVE  /\ (versions'[q] # None) <=> (versions[q] # None)
             /\ versions[q] # None => versions'[q].fixtures = versions[q].fixtures
  BY <1>2, <1>5, LearningAssumption
<1>10. InForce(Package[p].name)' = {p}
  <2>1. p \in InForce(Package[p].name)'
    BY <1>4, <1>8 DEF InForce
  <2>2. ASSUME NEW q \in Packages \ {p}
        PROVE  q \notin InForce(Package[p].name)'
    BY <1>2, <1>5 DEF InForce
  <2> QED
    BY <2>1, <2>2 DEF InForce
<1>11. Fixtures(InForce(Package[p].name))' = examples
  <2>1. Fixtures(InForce(Package[p].name))' = UNION {versions'[q].fixtures : q \in {p}}
    BY <1>10 DEF Fixtures
  <2> QED
    BY <1>4, <2>1
<1>12. ASSUME NEW n \in Names \ {Package[p].name}
       PROVE  InForce(n)' = InForce(n) /\ Fixtures(InForce(n))' = Fixtures(InForce(n))
  <2>1. ASSUME NEW q \in Packages, Package[q].name = n
        PROVE  versions'[q] = versions[q]
    BY <1>5, <2>1
  <2>2. InForce(n)' = InForce(n)
    BY <2>1 DEF InForce
  <2>3. \A q \in InForce(n) : versions'[q] = versions[q]
    BY <2>1 DEF InForce
  <2> QED
    BY <2>2, <2>3 DEF Fixtures
<1> QED
  BY <1>4, <1>7, <1>8, <1>9, <1>10, <1>11, <1>12

\* What stood for a name when its replay was read.
LEMMA StandingExamples ==
  ASSUME LearningRows, NEW n
  PROVE  /\ Standing(n) \in SUBSET (Packages \X SUBSET Layouts)
         /\ UNION {s[2] : s \in Standing(n)} = Fixtures(InForce(n))
         /\ Fixtures(InForce(n)) \subseteq Layouts
<1>1. \A q \in InForce(n) : q \in Packages /\ versions[q].fixtures \in SUBSET Layouts
  BY DEF InForce, LearningRows, Version
<1>2. Standing(n) \in SUBSET (Packages \X SUBSET Layouts)
  BY <1>1 DEF Standing
<1>3. Fixtures(InForce(n)) \subseteq Layouts
  BY <1>1 DEF Fixtures
<1>4. \A q \in InForce(n) : <<q, versions[q].fixtures>>[2] = versions[q].fixtures
  OBVIOUS
<1>5. ASSUME NEW f PROVE f \in UNION {s[2] : s \in Standing(n)} <=> \E q \in InForce(n) : f \in versions[q].fixtures
  <2>1. f \in UNION {s[2] : s \in Standing(n)} <=> \E s \in Standing(n) : f \in s[2]
    OBVIOUS
  <2>2. (\E s \in Standing(n) : f \in s[2]) <=> \E q \in InForce(n) : f \in <<q, versions[q].fixtures>>[2]
    BY Zenon DEF Standing
  <2> QED
    BY <1>4, <2>1, <2>2
<1>6. ASSUME NEW f PROVE f \in Fixtures(InForce(n)) <=> \E q \in InForce(n) : f \in versions[q].fixtures
  BY DEF Fixtures
<1> QED
  BY <1>2, <1>3, <1>5, <1>6

\* The tables are empty and no receipt is on its way.
LEMMA LearningStarts == ASSUME LearningInit PROVE LearningInv
<1> USE LearningAssumption DEF LearningInit
<1>1. \A n : InForce(n) = {}
  BY DEF InForce
<1>2. LearningRows
  <2>1. Unread \in ReadingRow
    BY DEF Unread, ReadingRow
  <2> QED
    BY <2>1 DEF LearningRows
<1>3. VersionsSound /\ OneInForce /\ LessonsKept
  BY <1>1 DEF VersionsSound, OneInForce, LessonsKept
<1>4. ASSUME NEW r \in Readers PROVE ReaderSound(r)
  <2>1. reading[r].step = "idle" /\ reading[r].by = None
    BY DEF Unread
  <2> QED
    BY <2>1 DEF ReaderSound
<1> QED
  BY <1>2, <1>3, <1>4 DEF LearningInv

\* A step of one receipt that leaves the versions alone.
LEMMA ReaderMoves ==
  ASSUME LearningInv, NEW r \in Readers, NEW row \in ReadingRow, reading' = [reading EXCEPT ![r] = row],
         UNCHANGED <<versions, limit, log_vars>>, jobs' \in 0..DailyLimit, ReaderSound(r)'
  PROVE  LearningInv'
<1> USE LearningAssumption
<1>1. LearningRows'
  BY DEF LearningInv, LearningRows, log_vars
<1>2. VersionsSound' /\ OneInForce' /\ LessonsKept'
  BY DEF LearningInv, VersionsSound, OneInForce, LessonsKept, InForce, Fixtures, log_vars
<1>3. ASSUME NEW q \in Readers PROVE ReaderSound(q)'
  <2>1. CASE q = r
    BY <2>1
  <2>2. CASE q # r
    <3>1. reading'[q] = reading[q] /\ shown' = shown
      BY <2>2 DEF LearningInv, LearningRows, log_vars
    <3>2. ReaderSound(q)
      BY DEF LearningInv
    <3> QED
      BY <3>1, <3>2 DEF ReaderSound
  <2> QED
    BY <2>1, <2>2
<1> QED
  BY <1>1, <1>2, <1>3 DEF LearningInv

\* A version takes effect: the name's own lessons are those given.
LEMMA VersionTakesEffect ==
  ASSUME LearningInv, NEW p \in Packages, NEW examples \in SUBSET Layouts, versions' = Swapped(p, examples),
         \A f \in examples : extract(p, f),
         shown' \in [Packages -> SUBSET Layouts], examples \subseteq shown'[p],
         \A q \in Packages : shown[q] \subseteq shown'[q],
         lessons' \in [Names -> SUBSET Layouts], crossed' \subseteq Names,
         \A n \in Names \ {Package[p].name} : lessons'[n] = lessons[n] /\ (n \in crossed' <=> n \in crossed),
         Package[p].name \notin crossed' => lessons'[Package[p].name] \subseteq examples,
         UNCHANGED <<limit, jobs>>, reading' \in [Readers -> ReadingRow],
         \A r \in Readers : ReaderSound(r)'
  PROVE  LearningInv'
<1> DEFINE name == Package[p].name
<1>0. LearningRows /\ name \in Names
  BY DEF LearningInv, Names
<1>a. /\ versions' \in [Packages -> Version \cup {None}]
      /\ versions'[p] = [fixtures |-> examples, active |-> TRUE]
      /\ InForce(name)' = {p} /\ Fixtures(InForce(name))' = examples
      /\ \A q \in Packages \ {p} :
           /\ (versions'[q] # None) <=> (versions[q] # None)
           /\ versions[q] # None => versions'[q].fixtures = versions[q].fixtures
      /\ \A n \in Names \ {name} : InForce(n)' = InForce(n) /\ Fixtures(InForce(n))' = Fixtures(InForce(n))
  BY <1>0, SwapLands
<1>1. LearningRows'
  BY <1>0, <1>a DEF LearningRows
<1>2. VersionsSound'
  <2> SUFFICES ASSUME NEW q \in Packages, versions'[q] # None
               PROVE  versions'[q].fixtures \subseteq shown'[q] /\ \A f \in versions'[q].fixtures : extract(q, f)
    BY DEF VersionsSound, extract, validate
  <2>1. CASE q = p
    <3>1. versions'[p].fixtures = examples
      BY <1>a
    <3> QED
      BY <2>1, <3>1
  <2>2. CASE q # p
    <3>1. versions[q] # None /\ versions'[q].fixtures = versions[q].fixtures
      BY <1>a, <2>2
    <3>2. versions[q].fixtures \subseteq shown[q] /\ \A f \in versions[q].fixtures : extract(q, f)
      BY <3>1 DEF LearningInv, VersionsSound
    <3> QED
      BY <3>1, <3>2
  <2> QED
    BY <2>1, <2>2
<1>3. OneInForce'
  <2> SUFFICES ASSUME NEW n \in Names PROVE \A q, o \in InForce(n)' : q = o
    BY DEF OneInForce
  <2>1. CASE n = name
    <3>1. InForce(name)' = {p}
      BY <1>a
    <3> QED
      BY <2>1, <3>1
  <2>2. CASE n # name
    <3>1. InForce(n)' = InForce(n)
      BY <1>a, <2>2
    <3> QED
      BY <3>1 DEF LearningInv, OneInForce
  <2> QED
    BY <2>1, <2>2
<1>4. LessonsKept'
  <2> SUFFICES ASSUME NEW n \in Names, n \notin crossed' PROVE lessons'[n] \subseteq Fixtures(InForce(n))'
    BY DEF LessonsKept
  <2>1. CASE n = name
    <3>1. Fixtures(InForce(name))' = examples
      BY <1>a
    <3> QED
      BY <2>1, <3>1
  <2>2. CASE n # name
    <3>1. Fixtures(InForce(n))' = Fixtures(InForce(n))
      BY <1>a, <2>2
    <3>2. lessons'[n] = lessons[n] /\ n \notin crossed
      BY <2>2
    <3> QED
      BY <3>1, <3>2 DEF LearningInv, LessonsKept
  <2> QED
    BY <2>1, <2>2
<1> QED
  BY <1>1, <1>2, <1>3, <1>4 DEF LearningInv

\* A receipt not touched stays sound while formats are added to the history.
LEMMA OthersStaySound ==
  ASSUME LearningInv, NEW q \in Readers, reading'[q] = reading[q],
         \A p \in Packages : shown[p] \subseteq shown'[p]
  PROVE  ReaderSound(q)'
<1>1. ReaderSound(q) /\ reading[q].by \in Packages \cup {None}
  BY DEF LearningInv, LearningRows, ReadingRow
<1>2. reading[q].by # None => reading[q].layout \in shown'[reading[q].by] /\ reading[q].decision = "quarantined"
  BY <1>1 DEF ReaderSound
<1> QED
  BY <1>1, <1>2 DEF ReaderSound, extract, validate

\* What a replay that passed puts in force.
LEMMA SwapKeeps == ASSUME LearningInv, NEW r \in Readers, Swap(r) PROVE LearningInv'
<1> DEFINE p == reading[r].proposal
           name == Package[p].name
           examples == reading[r].examples
           row == [reading[r] EXCEPT !.step = "again"]
<1>0. LearningRows /\ reading[r] \in ReadingRow /\ ReaderSound(r) /\ reading[r].step = "swap"
  BY DEF LearningInv, LearningRows, Swap, Stands
<1>1. p \in Packages /\ examples \in SUBSET Layouts /\ name \in Names /\ reading[r].layout \in Layouts
  BY <1>0 DEF ReaderSound, ReadingRow, Names
<1>2. /\ examples = {reading[r].layout} \cup UNION {s[2] : s \in reading[r].replaces}
      /\ \A f \in examples : extract(p, f)
  BY <1>0 DEF ReaderSound
<1>3. /\ versions' = Swapped(p, examples)
      /\ shown' = [shown EXCEPT ![p] = @ \cup examples]
      /\ lessons' = [lessons EXCEPT ![name] = @ \cup {reading[r].layout}]
      /\ crossed' = IF Standing(name) = reading[r].replaces THEN crossed ELSE crossed \cup {name}
      /\ reading' = [reading EXCEPT ![r].step = "again"]
      /\ UNCHANGED <<limit, jobs>>
  BY DEF Swap, Proceed
<1>4. /\ shown' \in [Packages -> SUBSET Layouts] /\ examples \subseteq shown'[p]
      /\ \A q \in Packages : shown[q] \subseteq shown'[q]
  BY <1>0, <1>1, <1>3 DEF LearningRows
<1>5. /\ lessons' \in [Names -> SUBSET Layouts] /\ crossed' \subseteq Names
      /\ \A n \in Names \ {name} : lessons'[n] = lessons[n] /\ (n \in crossed' <=> n \in crossed)
  BY <1>0, <1>1, <1>3 DEF LearningRows
<1>6. ASSUME name \notin crossed' PROVE lessons'[name] \subseteq examples
  <2>1. Standing(name) = reading[r].replaces /\ name \notin crossed
    BY <1>3, <1>6
  <2>2. examples = {reading[r].layout} \cup Fixtures(InForce(name))
    BY <1>0, <1>2, <2>1, StandingExamples
  <2>3. lessons[name] \subseteq Fixtures(InForce(name))
    BY <1>1, <2>1 DEF LearningInv, LessonsKept
  <2>4. lessons'[name] = lessons[name] \cup {reading[r].layout}
    BY <1>0, <1>1, <1>3 DEF LearningRows
  <2> QED
    BY <2>2, <2>3, <2>4
<1>7. row \in ReadingRow /\ reading' = [reading EXCEPT ![r] = row]
  BY <1>0, <1>3 DEF ReadingRow, LearningRows
<1>8. reading' \in [Readers -> ReadingRow] /\ reading'[r] = row
  BY <1>0, <1>7 DEF LearningRows
<1>9. ASSUME NEW q \in Readers PROVE ReaderSound(q)'
  <2>1. CASE q = r
    <3>1. /\ reading'[r].step = "again" /\ reading'[r].layout = reading[r].layout
          /\ reading'[r].by = reading[r].by /\ reading'[r].decision = reading[r].decision
      BY <1>0, <1>8 DEF ReadingRow
    <3>2. reading[r].by # None => reading[r].layout \in shown'[reading[r].by] /\ reading[r].decision = "quarantined"
      BY <1>0, <1>4 DEF ReaderSound, ReadingRow
    <3> QED
      BY <1>1, <2>1, <3>1, <3>2 DEF ReaderSound
  <2>2. CASE q # r
    BY <1>0, <1>4, <1>7, <2>2, OthersStaySound DEF LearningRows
  <2> QED
    BY <2>1, <2>2
<1>10. UNCHANGED <<limit, jobs>> /\ versions' = Swapped(p, examples)
  BY <1>3
<1>11. \A f \in examples : extract(p, f)
  BY <1>2
<1>12. reading' \in [Readers -> ReadingRow]
  BY <1>8
<1> HIDE DEF p, examples, row
<1> QED
  BY <1>1, <1>4, <1>5, <1>6, <1>9, <1>10, <1>11, <1>12, VersionTakesEffect

\* An earlier version comes back with the examples it had.
LEMMA RollbackKeeps == ASSUME LearningInv, NEW p \in Packages, rollback(p) PROVE LearningInv'
<1> USE LearningAssumption
<1> DEFINE name == Package[p].name
           examples == versions[p].fixtures
<1>0. LearningRows /\ versions[p] \in Version /\ name \in Names
  BY DEF LearningInv, LearningRows, rollback, Names
<1>1. /\ examples \in SUBSET Layouts /\ examples \subseteq shown[p]
      /\ \A f \in examples : extract(p, f)
  BY <1>0 DEF Version, LearningInv, VersionsSound, rollback
<1>2. /\ versions' = Swapped(p, examples) /\ lessons' = [lessons EXCEPT ![name] = examples]
      /\ crossed' = crossed \ {name} /\ UNCHANGED <<limit, jobs, reading, shown>>
  BY DEF rollback
<1>3. /\ lessons' \in [Names -> SUBSET Layouts] /\ crossed' \subseteq Names /\ lessons'[name] = examples
      /\ \A n \in Names \ {name} : lessons'[n] = lessons[n] /\ (n \in crossed' <=> n \in crossed)
  BY <1>0, <1>1, <1>2 DEF LearningRows
<1>4. \A q \in Readers : ReaderSound(q)'
  BY <1>2, OthersStaySound
<1>5. /\ shown' \in [Packages -> SUBSET Layouts] /\ examples \subseteq shown'[p]
      /\ \A q \in Packages : shown[q] \subseteq shown'[q] /\ reading' \in [Readers -> ReadingRow]
  BY <1>0, <1>1, <1>2 DEF LearningRows
<1> QED
  BY <1>1, <1>2, <1>3, <1>4, <1>5, VersionTakesEffect

\* What known finds was shown what it is used on.
LEMMA KnownWasShown ==
  ASSUME LearningInv, NEW layout \in Layouts, NEW p \in known(layout)
  PROVE  p \in Packages /\ layout \in shown[p]
<1>1. p \in Packages /\ versions[p] # None /\ layout \in versions[p].fixtures
  BY DEF known, demonstrated
<1> QED
  BY <1>1 DEF LearningInv, VersionsSound

\* The steps of one receipt before and after a promotion.
LEMMA ReceiptKeeps ==
  ASSUME LearningInv, NEW r \in Readers,
         Uncertain(r) \/ Learned(r) \/ Unlearned(r) \/ Persisted(r) \/ attempt(r)
         \/ CountJob(r) \/ invoke(r) \/ promote(r)
  PROVE  LearningInv'
<1> USE LearningAssumption
<1>0. LearningRows /\ reading[r] \in ReadingRow /\ ReaderSound(r) /\ shown' = shown
  BY DEF LearningInv, LearningRows, Uncertain, Learned, Unlearned, Persisted, attempt, CountJob, invoke, promote, log_vars
<1>1. ASSUME NEW step \in {"budget", "invoke", "again", "read"}, reading' = [reading EXCEPT ![r].step = step],
             reading[r].step # "idle", UNCHANGED <<versions, limit, log_vars>>, jobs' \in 0..DailyLimit
      PROVE  LearningInv'
  <2> DEFINE row == [reading[r] EXCEPT !.step = step]
  <2>1. row \in ReadingRow /\ row.layout = reading[r].layout /\ row.by = reading[r].by
        /\ row.decision = reading[r].decision /\ row.step = step
    BY <1>0 DEF ReadingRow
  <2>2. reading' = [reading EXCEPT ![r] = row] /\ reading'[r] = row
    BY <1>0, <1>1 DEF LearningRows
  <2>3. ReaderSound(r)'
    <3> HIDE DEF row
    <3> QED
      BY <1>0, <1>1, <2>1, <2>2 DEF ReaderSound
  <2> QED
    <3> HIDE DEF row
    <3> QED
      BY <1>1, <2>1, <2>2, <2>3, ReaderMoves
<1>2. CASE Uncertain(r)
  <2> PICK layout \in Layouts : reading' = [reading EXCEPT ![r] = [Unread EXCEPT !.step = "known", !.layout = layout]]
    BY <1>2 DEF Uncertain
  <2> DEFINE row == [Unread EXCEPT !.step = "known", !.layout = layout]
  <2>0. Unread \in ReadingRow /\ Unread.by = None
    BY DEF Unread, ReadingRow
  <2>1. row \in ReadingRow /\ row.layout = layout /\ row.by = None /\ row.step = "known"
    BY <2>0 DEF ReadingRow
  <2>2. reading'[r] = row
    BY <1>0 DEF LearningRows
  <2>3. ReaderSound(r)'
    BY <2>1, <2>2 DEF ReaderSound
  <2>4. UNCHANGED <<versions, limit, log_vars>> /\ jobs' \in 0..DailyLimit
    BY <1>0, <1>2 DEF Uncertain, LearningRows
  <2> QED
    <3> HIDE DEF row
    <3> QED
      BY <2>1, <2>2, <2>3, <2>4, ReaderMoves DEF row
<1>3. CASE Learned(r)
  <2>0. reading[r].layout \in Layouts
    BY <1>0, <1>3 DEF Learned, ReaderSound
  <2> PICK p \in known(reading[r].layout) :
             reading' = [reading EXCEPT ![r].step = "read", ![r].by = p, ![r].decision = "quarantined"]
    BY <1>3 DEF Learned
  <2> DEFINE row == [reading[r] EXCEPT !.step = "read", !.by = p, !.decision = "quarantined"]
  <2>1. p \in Packages /\ reading[r].layout \in shown[p]
    BY <2>0, KnownWasShown
  <2>2. row \in ReadingRow /\ row.layout = reading[r].layout /\ row.by = p
        /\ row.decision = "quarantined" /\ row.step = "read"
    BY <1>0, <2>1 DEF ReadingRow
  <2>3. reading' = [reading EXCEPT ![r] = row] /\ reading'[r] = row
    BY <1>0 DEF LearningRows
  <2>4. ReaderSound(r)'
    <3> HIDE DEF row
    <3> QED
      BY <1>0, <2>0, <2>1, <2>2, <2>3 DEF ReaderSound
  <2>5. UNCHANGED <<versions, limit, log_vars>> /\ jobs' \in 0..DailyLimit
    BY <1>0, <1>3 DEF Learned, LearningRows
  <2> QED
    <3> HIDE DEF row
    <3> QED
      BY <2>2, <2>3, <2>4, <2>5, ReaderMoves
<1>4. CASE Unlearned(r)
  <2>1. UNCHANGED <<versions, limit, log_vars>> /\ jobs' \in 0..DailyLimit /\ reading[r].step \in {"known", "again"}
    BY <1>0, <1>4 DEF Unlearned, LearningRows
  <2>2. CASE reading' = [reading EXCEPT ![r].step = "attempt", ![r].budget = limit] /\ limit # None
    <3> DEFINE row == [reading[r] EXCEPT !.step = "attempt", !.budget = limit]
    <3>1. limit \in 0..DailyLimit
      BY <1>0, <2>2 DEF LearningRows
    <3>2. row \in ReadingRow /\ row.layout = reading[r].layout /\ row.by = reading[r].by
          /\ row.decision = reading[r].decision /\ row.step = "attempt"
      BY <1>0, <3>1 DEF ReadingRow
    <3>3. reading' = [reading EXCEPT ![r] = row] /\ reading'[r] = row
      BY <1>0, <2>2 DEF LearningRows
    <3>4. ReaderSound(r)'
      <4> HIDE DEF row
      <4> QED
        BY <1>0, <2>1, <3>2, <3>3 DEF ReaderSound
    <3> QED
      <4> HIDE DEF row
      <4> QED
        BY <2>1, <3>2, <3>3, <3>4, ReaderMoves
  <2>3. CASE reading' = [reading EXCEPT ![r].step = "read"]
    BY <1>1, <2>1, <2>3
  <2> QED
    BY <1>4, <2>2, <2>3 DEF Unlearned, Proceed, Stands
<1>5. CASE Persisted(r)
  <2>1. Unread \in ReadingRow /\ Unread.step = "idle" /\ Unread.by = None
    BY DEF Unread, ReadingRow
  <2>2. reading' = [reading EXCEPT ![r] = Unread] /\ reading'[r] = Unread
    BY <1>0, <1>5 DEF Persisted, LearningRows
  <2>3. ReaderSound(r)'
    BY <2>1, <2>2 DEF ReaderSound
  <2>4. UNCHANGED <<versions, limit, log_vars>> /\ jobs' \in 0..DailyLimit
    BY <1>0, <1>5 DEF Persisted, LearningRows
  <2> QED
    BY <2>1, <2>2, <2>3, <2>4, ReaderMoves
<1>6. CASE attempt(r)
  <2>1. UNCHANGED <<versions, limit, log_vars>> /\ jobs' \in 0..DailyLimit
    BY <1>0, <1>6 DEF attempt, LearningRows
  <2> QED
    BY <1>1, <1>6, <2>1 DEF attempt, Proceed, Stands
<1>7. CASE CountJob(r)
  <2>1. UNCHANGED <<versions, limit, log_vars>> /\ reading[r].step # "idle"
    BY <1>7 DEF CountJob, Stands
  <2>2. jobs' \in 0..DailyLimit
    <3>1. jobs \in 0..DailyLimit /\ reading[r].budget \in 0..DailyLimit /\ DailyLimit \in Nat
      BY <1>0 DEF LearningRows, ReadingRow
    <3>2. jobs' = jobs \/ (jobs < reading[r].budget /\ jobs' = jobs + 1)
      BY <1>7 DEF CountJob
    <3> QED
      BY <3>1, <3>2
  <2>3. reading' = [reading EXCEPT ![r].step = "invoke"] \/ reading' = [reading EXCEPT ![r].step = "again"]
    BY <1>7 DEF CountJob, Proceed
  <2> QED
    BY <1>1, <2>1, <2>2, <2>3
<1>8. CASE invoke(r)
  <2>1. UNCHANGED <<versions, limit, log_vars>> /\ jobs' \in 0..DailyLimit /\ reading[r].step = "invoke"
    BY <1>0, <1>8 DEF invoke, LearningRows, Stands
  <2>2. ASSUME NEW p \in Packages, reading' = [reading EXCEPT ![r].step = "replay", ![r].proposal = p]
        PROVE  LearningInv'
    <3> DEFINE row == [reading[r] EXCEPT !.step = "replay", !.proposal = p]
    <3>1. row \in ReadingRow /\ row.layout = reading[r].layout /\ row.by = reading[r].by
          /\ row.decision = reading[r].decision /\ row.step = "replay" /\ row.proposal = p
      BY <1>0 DEF ReadingRow
    <3>2. reading' = [reading EXCEPT ![r] = row] /\ reading'[r] = row
      BY <1>0, <2>2 DEF LearningRows
    <3>3. ReaderSound(r)'
      <4> HIDE DEF row
      <4> QED
        BY <1>0, <2>1, <3>1, <3>2 DEF ReaderSound
    <3> QED
      <4> HIDE DEF row
      <4> QED
        BY <2>1, <3>1, <3>2, <3>3, ReaderMoves
  <2> QED
    BY <1>1, <1>8, <2>1, <2>2 DEF invoke, Proceed
<1>9. CASE promote(r)
  <2> DEFINE p == reading[r].proposal
             name == Package[p].name
             examples == {reading[r].layout} \cup Fixtures(InForce(name))
             row == [reading[r] EXCEPT !.step = "swap", !.replaces = Standing(name), !.examples = examples]
  <2>1. UNCHANGED <<versions, limit, log_vars>> /\ jobs' \in 0..DailyLimit /\ reading[r].step = "replay"
    BY <1>0, <1>9 DEF promote, LearningRows, Stands
  <2>2. reading[r].layout \in Layouts /\ p \in Packages
    BY <1>0, <2>1 DEF ReaderSound
  <2>3. CASE Replays(p, reading[r].layout)
            /\ reading' = [reading EXCEPT ![r].step = "swap", ![r].replaces = Standing(name), ![r].examples = examples]
    <3>1. /\ Standing(name) \in SUBSET (Packages \X SUBSET Layouts) /\ examples \in SUBSET Layouts
          /\ examples = {reading[r].layout} \cup UNION {s[2] : s \in Standing(name)}
      BY <1>0, <2>2, StandingExamples
    <3>2. \A f \in examples : extract(p, f)
      BY <2>3 DEF Replays
    <3> HIDE DEF name, examples
    <3>3. row \in ReadingRow /\ row.layout = reading[r].layout /\ row.by = reading[r].by
          /\ row.decision = reading[r].decision /\ row.step = "swap" /\ row.proposal = reading[r].proposal
          /\ row.examples = examples /\ row.replaces = Standing(name)
      BY <1>0, <3>1 DEF ReadingRow
    <3>4. reading' = [reading EXCEPT ![r] = row] /\ reading'[r] = row
      BY <1>0, <2>3 DEF LearningRows
    <3>5. ReaderSound(r)'
      <4> HIDE DEF row
      <4> QED
        BY <1>0, <2>1, <2>2, <3>1, <3>2, <3>3, <3>4 DEF ReaderSound, extract, validate
    <3> QED
      <4> HIDE DEF row
      <4> QED
        BY <2>1, <3>3, <3>4, <3>5, ReaderMoves
  <2>4. CASE reading' = [reading EXCEPT ![r].step = "again"]
    BY <1>1, <2>1, <2>4
  <2> QED
    BY <1>9, <2>3, <2>4 DEF promote, Proceed
<1> QED
  BY <1>2, <1>3, <1>4, <1>5, <1>6, <1>7, <1>8, <1>9

\* Every step keeps the invariant.
LEMMA LearningStep == ASSUME LearningInv, [LearningNext]_learning_vars PROVE LearningInv'
<1> USE LearningAssumption
<1>1. ASSUME NEW r \in Readers,
             Uncertain(r) \/ Learned(r) \/ Unlearned(r) \/ Persisted(r) \/ attempt(r)
             \/ CountJob(r) \/ invoke(r) \/ promote(r)
      PROVE  LearningInv'
  BY <1>1, ReceiptKeeps
<1>2. ASSUME NEW s \in Services, ServiceStops(s) PROVE LearningInv'
  <2>0. UNCHANGED <<versions, limit, jobs, log_vars>> /\ LearningRows
    BY <1>2 DEF ServiceStops, LearningInv
  <2>1. Unread \in ReadingRow /\ Unread.step = "idle" /\ Unread.by = None
    BY DEF Unread, ReadingRow
  <2>2. reading' \in [Readers -> ReadingRow]
    BY <1>2, <2>0, <2>1 DEF ServiceStops, LearningRows
  <2>3. ASSUME NEW q \in Readers PROVE ReaderSound(q)'
    <3>1. CASE reading'[q] = Unread
      BY <2>1, <3>1 DEF ReaderSound
    <3>2. CASE reading'[q] = reading[q]
      BY <2>0, <3>2, OthersStaySound DEF log_vars
    <3> QED
      BY <1>2, <3>1, <3>2 DEF ServiceStops
  <2>4. LearningRows'
    BY <2>0, <2>2 DEF LearningRows, log_vars
  <2>5. VersionsSound' /\ OneInForce' /\ LessonsKept'
    BY <2>0 DEF LearningInv, VersionsSound, OneInForce, LessonsKept, InForce, Fixtures, log_vars
  <2> QED
    BY <2>3, <2>4, <2>5 DEF LearningInv
<1>3. CASE put_configuration \/ Midnight \/ UNCHANGED learning_vars
  <2>0. UNCHANGED <<versions, reading, log_vars>> /\ LearningRows
    BY <1>3 DEF put_configuration, Midnight, learning_vars, log_vars, LearningInv
  <2>1. LearningRows'
    <3>1. limit' \in 0..DailyLimit \cup {None} /\ jobs' \in 0..DailyLimit
      BY <1>3, <2>0 DEF put_configuration, Midnight, learning_vars, LearningRows
    <3> QED
      BY <2>0, <3>1 DEF LearningRows, log_vars
  <2>2. VersionsSound' /\ OneInForce' /\ LessonsKept'
    BY <2>0 DEF LearningInv, VersionsSound, OneInForce, LessonsKept, InForce, Fixtures, log_vars
  <2>3. \A q \in Readers : ReaderSound(q)'
    BY <2>0, OthersStaySound DEF log_vars
  <2> QED
    BY <2>1, <2>2, <2>3 DEF LearningInv
<1> QED
  BY <1>1, <1>2, <1>3, SwapKeeps, RollbackKeeps DEF LearningNext

(* What was learned is used only on formats it was shown and waits for a   *)
(* person; a name has one version in force, which reads every example that *)
(* taught it or its predecessors, unless two processes replaced it at once;*)
(* and no day buys more than its budget (learning.rs promote, known,       *)
(* rollback; intelligence.rs attempt): for any formats, proposals,         *)
(* processes and receipts.                                                 *)
THEOREM LearnsUnderSupervision == LearningSpec => []LearnedUnderSupervision
<1>1. LearningInit => LearningInv
  BY LearningStarts
<1>2. LearningInv /\ [LearningNext]_learning_vars => LearningInv'
  BY LearningStep
<1>3. LearningInv => LearnedUnderSupervision
  <2> SUFFICES ASSUME LearningInv PROVE LearnedUnderSupervision
    OBVIOUS
  <2>1. \A r \in Readers : reading[r].by # None =>
          reading[r].layout \in shown[reading[r].by] /\ reading[r].decision = "quarantined"
    BY DEF LearningInv, ReaderSound
  <2>2. ASSUME NEW n \in Names PROVE Cardinality(InForce(n)) <= 1
    <3>1. CASE InForce(n) = {}
      BY <3>1, FS_EmptySet
    <3>2. CASE InForce(n) # {}
      <4>1. PICK p : InForce(n) = {p}
        BY <3>2 DEF LearningInv, OneInForce
      <4>2. Cardinality(InForce(n)) = 1
        BY <4>1, FS_Singleton
      <4> QED
        BY <4>2
    <3> QED
      BY <3>1, <3>2
  <2>3. ASSUME NEW n \in Names, n \notin crossed, NEW p \in InForce(n), NEW f \in lessons[n]
        PROVE  extract(p, f) /\ demonstrated(p, f)
    <3>1. f \in Fixtures(InForce(n))
      BY <2>3 DEF LearningInv, LessonsKept
    <3>2. \A q \in InForce(n) : q = p
      BY DEF LearningInv, OneInForce
    <3>3. f \in versions[p].fixtures
      BY <3>1, <3>2 DEF Fixtures
    <3>4. p \in Packages /\ versions[p] # None
      BY DEF InForce
    <3> QED
      BY <3>3, <3>4 DEF LearningInv, VersionsSound, demonstrated
  <2>4. jobs <= DailyLimit
    BY LearningAssumption DEF LearningInv, LearningRows
  <2> QED
    BY <2>1, <2>2, <2>3, <2>4 DEF LearnedUnderSupervision
<1> QED
  BY <1>1, <1>2, <1>3, PTL DEF LearningSpec

-----------------------------------------------------------------------------
(* The parser.  Words alone come to 81 of the 92 a booking takes to be     *)
(* written without a person, whatever they are.                            *)

LEMMA LeastOfFour ==
  ASSUME NEW c \in Nat, NEW S, S \in {{99, c}, {99, c, 69}, {99, c, 25}, {99, c, 69, 25}}
  PROVE  Min(S) <= c /\ Min(S) \in Int
<1>1. \E x \in S : \A y \in S : x <= y
  <2>1. CASE S = {99, c}
    BY <2>1
  <2>2. CASE S = {99, c, 69}
    BY <2>2
  <2>3. CASE S = {99, c, 25}
    BY <2>3
  <2>4. CASE S = {99, c, 69, 25}
    BY <2>4
  <2> QED
    BY <2>1, <2>2, <2>3, <2>4
<1>2. Min(S) \in S /\ \A y \in S : Min(S) <= y
  BY <1>1 DEF Min
<1> QED
  BY <1>2

\* Words alone come to 81 of the 92 it takes.
LEMMA WordsNeverSure ==
  ASSUME NEW text, NEW kind, NEW fields
  PROVE  ~(confidence(text, None, kind, fields) >= 92)
<1> DEFINE score == classify_candidate(text.words).score
           c == Certainty(None, kind, fields, score)
           S == {99, c} \cup (IF ambiguous_numeric_date(text, None) THEN {69} ELSE {})
                  \cup (IF classify_candidate(text.words).state = "ignored" THEN {25} ELSE {})
<1>1. c \in Nat /\ c <= 81
  <2> HIDE DEF score
  <2> QED
    BY DEF Certainty
<1>2. confidence(text, None, kind, fields) = Min(S)
  BY DEF confidence
<1> HIDE DEF c
<1>3. S \in {{99, c}, {99, c, 69}, {99, c, 25}, {99, c, 69, 25}}
  OBVIOUS
<1> HIDE DEF S
<1>4. Min(S) <= c /\ Min(S) \in Int
  BY <1>1, <1>3, LeastOfFour
<1> QED
  BY <1>1, <1>2, <1>4

LEMMA DecidedOnEvidence ==
  ASSUME NEW text
  PROVE  LET parsed == parse_travel_document(text)
             structured == structured_fields(text)
         IN /\ parsed.decision = "auto_accepted" =>
                 structured # None /\ required_fields_present(parsed.kind, parsed.fields)
            /\ parsed.status = "confirmed" => structured = None \/ structured.status # "cancelled"
            /\ parsed.status = "cancelled" /\ (structured = None \/ structured.status # "cancelled")
                 => "code" \in parsed.fields
<1> DEFINE parsed == parse_travel_document(text)
           structured == structured_fields(text)
           kind == IF structured # None THEN structured.kind ELSE infer_kind(text)
           fields == (merge_structured(structured) \cup labelled(text, kind) \cup provider_from_sender(text)) \ {"title"}
           stated == IF structured # None /\ structured.status # None THEN normalize_status(structured.status) ELSE "unknown"
           inferred == infer_status(text, fields)
           sure == confidence(text, structured, kind, fields)
<1>1. /\ parsed.kind = kind /\ parsed.fields = fields /\ parsed.decision = decision(text, kind, fields, sure)
      /\ parsed.status = IF stated = "unknown" \/ inferred \in {"cancelled", "changed"} THEN inferred ELSE stated
  BY DEF parse_travel_document
<1> HIDE DEF parsed, structured, kind
<1>2. decision(text, kind, fields, sure) = "auto_accepted" => sure >= 92 /\ required_fields_present(kind, fields)
  <2> HIDE DEF fields, sure
  <2> QED
    BY DEF decision
<1>3. sure >= 92 => structured # None
  BY WordsNeverSure
<1> HIDE DEF fields
<1>4. inferred \in {"cancelled", "changed", "confirmed"} /\ (inferred = "cancelled" => "code" \in fields)
  BY DEF infer_status
<1>5. stated = "cancelled" <=> structured # None /\ structured.status = "cancelled"
  BY ParserAssumption DEF normalize_status
<1> HIDE DEF sure, stated, inferred
<1>6. parsed.decision = "auto_accepted" => structured # None /\ required_fields_present(parsed.kind, parsed.fields)
  BY <1>1, <1>2, <1>3
<1>7. parsed.status = "confirmed" => structured = None \/ structured.status # "cancelled"
  BY <1>1, <1>4, <1>5
<1>8. parsed.status = "cancelled" /\ (structured = None \/ structured.status # "cancelled") => "code" \in parsed.fields
  BY <1>1, <1>4, <1>5
<1> QED
  BY <1>6, <1>7, <1>8 DEF parsed, structured

(* Only a machine-readable reservation, complete for its kind, is written  *)
(* without a person; a cancellation in it is no confirmation, and one in   *)
(* words names its booking (travel_parser.rs parse_travel_document): for   *)
(* any letters.                                                            *)
THEOREM AcceptsOnEvidence == ParserSpec => []AcceptedOnEvidence
<1> DEFINE Parsed == document = None \/ (letter # None /\ document = parse_travel_document(letter))
<1>1. ParserInit => Parsed
  BY DEF ParserInit
<1>2. Parsed /\ [ParserNext]_parser_vars => Parsed'
  <2> SUFFICES ASSUME Parsed, [ParserNext]_parser_vars PROVE Parsed'
    OBVIOUS
  <2>1. CASE FetchCandidate
    BY <2>1 DEF FetchCandidate
  <2>2. CASE ParseLetter
    BY <2>2 DEF ParseLetter
  <2>3. CASE UNCHANGED parser_vars
    BY <2>3 DEF parser_vars
  <2> QED
    BY <2>1, <2>2, <2>3 DEF ParserNext
<1>3. Parsed => AcceptedOnEvidence
  BY DecidedOnEvidence DEF AcceptedOnEvidence
<1> QED
  BY <1>1, <1>2, <1>3, PTL DEF ParserSpec

(* Nothing is read into the itinerary on its own but a complete reservation*)
(* that a machine wrote, and nothing learned is used unsupervised          *)
(* (travel_parser.rs, learning.rs, intelligence.rs): for the rules' parser *)
(* and the learned ones side by side.                                      *)
THEOREM ReadsHonestly == ParserSpec /\ LearningSpec => []ReadHonestly
<1> QED
  BY AcceptsOnEvidence, LearnsUnderSupervision, PTL DEF ReadHonestly

-----------------------------------------------------------------------------
(* Mail rules.  A script is ours with the number of its publication, which *)
(* only grows, and a publication is reported once its script is the active *)
(* one.                                                                    *)

\* Every block of a script asks what its rule asks, of what a server can see, and
\* files nothing under a special-use name.
AsHere(script) ==
  \A i \in DOMAIN script :
    /\ ~to_sentinel(script[i].action) /\ script[i].condition = script[i].rule
    /\ \A leaf \in script[i].rule.of : leaf.key \notin LocalKeys

PublicationRow == publication = [step |-> publication.step, script |-> publication.script, at |-> publication.at]

PublishInv ==
  /\ begun \in Nat /\ sieve = [ours |-> sieve.ours, active |-> sieve.active]
  /\ sieve.ours # None => AsHere(sieve.ours.script)
  /\ published # None =>
       published \in 0..begun /\ sieve.active = "ours" /\ sieve.ours.at \in Nat /\ sieve.ours.at >= published
  /\ publication # None =>
       /\ PublicationRow /\ publication.at = begun /\ AsHere(publication.script)
       /\ publication.step \in {"put", "active"} => sieve.ours.at = begun
       /\ publication.step = "active" => sieve.active = "ours"

LEMMA ExportsAsHere == AsHere(export_sieve.blocks)
<1> DEFINE kept == {j \in DOMAIN rules : Exports(rules[j])}
           blocks == [i \in kept |-> Block(rules[i])]
<1>1. export_sieve.blocks = blocks
  BY DEF export_sieve
<1>2. ASSUME NEW rule, Exports(rule)
      PROVE  /\ ~to_sentinel(Block(rule).action) /\ Block(rule).condition = Block(rule).rule
             /\ \A leaf \in Block(rule).rule.of : leaf.key \notin LocalKeys
  BY <1>2 DEF Exports, Block, expr_to_sieve, action_to_sieve
<1> QED
  BY <1>1, <1>2 DEF AsHere

\* Conditions that ask nothing local hold of a message whatever its tags and scores.
LEMMA SameVerdict ==
  ASSUME NEW expr, \A leaf \in expr.of : leaf.key \notin LocalKeys, NEW from, NEW derived
  PROVE  ServerHolds(expr, from) = evaluate(expr, ContextOf(from, derived))
<1> DEFINE there == [from |-> from, tags |-> {}, contact_tags |-> {}, score |-> None]
           here == ContextOf(from, derived)
<1>1. here.from = from /\ there.from = from
  BY DEF ContextOf
<1> HIDE DEF here, there
<1>2. \A leaf \in expr.of : Holds(leaf, there) = (leaf.value = from) /\ Holds(leaf, here) = (leaf.value = from)
  BY <1>1 DEF Holds, LocalKeys
<1>3. evaluate(expr, there) = evaluate(expr, here)
  BY <1>2 DEF evaluate
<1> QED
  BY <1>3 DEF ServerHolds, there, here

LEMMA PublishInvHolds == RulesSpec => []PublishInv
<1>1. RulesInit => PublishInv
  BY DEF RulesInit, PublishInv
<1>2. PublishInv /\ [RulesNext]_rules_vars => PublishInv'
  <2> SUFFICES ASSUME PublishInv, [RulesNext]_rules_vars PROVE PublishInv'
    OBVIOUS
  <2> USE DEF PublishInv, PublicationRow
  <2>1. CASE UNCHANGED <<sieve, publication, published, begun>>
    BY <2>1 DEF AsHere
  <2>2. CASE BeginPublish
    <3>1. AsHere(export_sieve.blocks)
      BY ExportsAsHere
    <3> HIDE DEF export_sieve
    <3> QED
      BY <2>2, <3>1 DEF BeginPublish, AsHere
  <2>3. CASE Secure \/ Authenticate
    BY <2>3 DEF Secure, Authenticate, At, Advance, AsHere
  <2>4. CASE PutScript
    BY <2>4 DEF PutScript, At, Advance, AsHere
  <2>5. CASE SetActive
    BY <2>5 DEF SetActive, At, Advance, AsHere
  <2>6. CASE Report
    BY <2>6 DEF Report, At, AsHere
  <2>7. CASE PublishFails \/ ActivateElsewhere
    BY <2>7 DEF PublishFails, ActivateElsewhere, AsHere
  <2> QED
    BY <2>1, <2>2, <2>3, <2>4, <2>5, <2>6, <2>7 DEF RulesNext, rules_vars,
      create_rule, update_rule, enable_rule, delete_rule, add_tag, set_score
<1> QED
  BY <1>1, <1>2, PTL DEF RulesSpec

(* The server does to arriving mail what the rules say, and a script that  *)
(* was reported published, or a later one, is the active one (sieve.rs     *)
(* export_sieve, managesieve.rs publish_script): for any rules over any    *)
(* expressions and actions, and any number of publications that may fail.  *)
THEOREM FiltersStayRight == RulesSpec => []ServerFiltersAsHere
<1>1. PublishInv => ServerFiltersAsHere
  BY SameVerdict DEF PublishInv, AsHere, ServerFiltersAsHere
<1> QED
  BY <1>1, PublishInvHolds, PTL

-----------------------------------------------------------------------------
(* The address history.  Between passes, a contact has counted what lies at*)
(* or below the watermark: at least that, and at most that and the largest *)
(* recount.                                                                *)

\* The rows a reconcile has folded since the last rebuild.
Folded == {id \in 1..lastId : id <= history.watermark /\ cached[id] # None}

HistoryInv ==
  /\ HistoryTypeOK /\ history.watermark <= lastId
  /\ settled => \A a \in Addresses : contacts[a] # None /\ contacts[a].derived => Signal(contacts[a]) > 0
  /\ ~Rebuilding => \A a \in Addresses :
       /\ a \in forgotten \/ Mentions(a, Folded) <= Counted(a)
       /\ Counted(a) <= Mentions(a, Folded) + highest[a]

LEMMA HistoryNumbers ==
  /\ MaxRows \in Nat /\ MaxSends \in Nat /\ ChunkRows \in Nat /\ ChunkRows > 0
  /\ None \notin ContactRow /\ None \notin Headers
BY HistoryAssumption

LEMMA TwoRoles == IsFiniteSet({"from", "to"})
<1>1. IsFiniteSet({"from"})
  BY FS_Singleton
<1>2. IsFiniteSet({"from"} \cup {"to"})
  BY <1>1, FS_AddElement
<1>3. {"from", "to"} = {"from"} \cup {"to"}
  OBVIOUS
<1> QED
  BY <1>2, <1>3

\* Mentions are counted without loss or double when rows are counted apart.
LEMMA MentionsNat ==
  ASSUME NEW a, NEW ids, IsFiniteSet(ids)
  PROVE  Mentions(a, ids) \in Nat
<1> DEFINE pairs == ids \X {"from", "to"}
           there == {m \in pairs : m[2] \in Mention(cached[m[1]], a)}
<1>2. IsFiniteSet(pairs)
  BY TwoRoles, FS_Product
<1> HIDE DEF pairs
<1>3. IsFiniteSet(there)
  BY <1>2, FS_Subset
<1>4. Cardinality(there) \in Nat
  BY <1>3, FS_CardinalityType
<1> QED
  BY <1>4 DEF Mentions, pairs

LEMMA MentionsAdd ==
  ASSUME NEW a, NEW S, NEW T, IsFiniteSet(S), IsFiniteSet(T), S \cap T = {}
  PROVE  Mentions(a, S \cup T) = Mentions(a, S) + Mentions(a, T)
<1> DEFINE of(ids) == {m \in ids \X {"from", "to"} : m[2] \in Mention(cached[m[1]], a)}
<1>1. ASSUME NEW ids, IsFiniteSet(ids)
      PROVE  IsFiniteSet(of(ids)) /\ Cardinality(of(ids)) \in Nat
  <2>2. IsFiniteSet(ids \X {"from", "to"})
    BY <1>1, TwoRoles, FS_Product
  <2>3. of(ids) \in SUBSET (ids \X {"from", "to"})
    OBVIOUS
  <2> HIDE DEF of
  <2>4. IsFiniteSet(of(ids))
    BY <2>2, <2>3, FS_Subset
  <2> QED
    BY <2>4, FS_CardinalityType
<1>2. of(S \cup T) = of(S) \cup of(T) /\ of(S) \cap of(T) = {}
  OBVIOUS
<1>3. Mentions(a, S) = Cardinality(of(S)) /\ Mentions(a, T) = Cardinality(of(T))
        /\ Mentions(a, S \cup T) = Cardinality(of(S \cup T))
  BY DEF Mentions
<1> HIDE DEF of
<1>4. Cardinality(of(S) \cup of(T)) = Cardinality(of(S)) + Cardinality(of(T)) - Cardinality(of(S) \cap of(T))
  BY <1>1, FS_Union
<1>5. Cardinality(of(S) \cap of(T)) = 0
  BY <1>2, FS_EmptySet
<1>6. Cardinality(of(S)) \in Nat /\ Cardinality(of(T)) \in Nat
  BY <1>1
<1>7. Cardinality(of(S \cup T)) = Cardinality(of(S) \cup of(T))
  BY <1>2
<1>8. Cardinality(of(S) \cup of(T)) = Cardinality(of(S)) + Cardinality(of(T))
  BY <1>4, <1>5, <1>6
<1> QED
  BY <1>3, <1>7, <1>8

LEMMA LargestRow ==
  ASSUME NEW S \in SUBSET Nat, NEW bound \in Nat, S # {}, \A x \in S : x <= bound
  PROVE  Max(S) \in S /\ \A x \in S : x <= Max(S)
<1> DEFINE T == {bound - x : x \in S}
<1>1. T \in SUBSET Nat /\ T # {}
  <2>1. ASSUME NEW x \in S PROVE bound - x \in Nat
    OBVIOUS
  <2> QED
    BY <2>1
<1>2. PICK t \in T : \A y \in T : t <= y
  BY <1>1, SmallestOf
<1>3. PICK m \in S : t = bound - m
  BY <1>2
<1>4. ASSUME NEW x \in S PROVE m >= x
  <2>1. bound - x \in T /\ bound - x \in Nat /\ t \in Nat
    BY <1>1, <1>2
  <2>2. t <= bound - x
    BY <1>2, <2>1
  <2> QED
    BY <1>3, <2>1, <2>2
<1>5. Max(S) \in S /\ \A x \in S : Max(S) >= x
  BY <1>3, <1>4 DEF Max
<1> QED
  BY <1>5

\* A chunk is the lowest of what is above the watermark: nothing below its
\* last row is left out.
LEMMA ChunkHasNoGap ==
  ASSUME NEW above \in SUBSET Nat, NEW bound \in Nat, \A id \in above : id <= bound,
         NEW k \in above, NEW id \in above, id <= k,
         Cardinality({j \in above : j <= k}) <= ChunkRows
  PROVE  Cardinality({j \in above : j <= id}) <= ChunkRows
<1> DEFINE upto(i) == {j \in above : j <= i}
<1>1. IsFiniteSet(above)
  BY FS_BoundedSetOfNaturals
<1>2. upto(k) \in SUBSET above /\ upto(id) \in SUBSET upto(k)
  <2>1. ASSUME NEW j \in above, j <= id PROVE j <= k
    <3>1. j \in Nat /\ id \in Nat /\ k \in Nat
      OBVIOUS
    <3> QED
      BY <2>1, <3>1
  <2> QED
    BY <2>1
<1> HIDE DEF upto
<1>3. IsFiniteSet(upto(k))
  BY <1>1, <1>2, FS_Subset
<1>4. Cardinality(upto(id)) <= Cardinality(upto(k)) /\ IsFiniteSet(upto(id))
  BY <1>2, <1>3, FS_Subset
<1>5. Cardinality(upto(id)) \in Nat /\ Cardinality(upto(k)) \in Nat
  BY <1>3, <1>4, FS_CardinalityType
<1>6. Cardinality(upto(k)) <= ChunkRows
  BY DEF upto
<1>7. Cardinality(upto(id)) <= ChunkRows
  BY <1>4, <1>5, <1>6, HistoryNumbers
<1> QED
  BY <1>7 DEF upto

HistoryCount(c) == IF c = None THEN 0 ELSE c.history_count

LEMMA LargerNat ==
  ASSUME NEW a \in Nat, NEW b \in Nat
  PROVE  Larger(a, b) \in Nat /\ Larger(a, b) >= a /\ Larger(a, b) >= b /\ (Larger(a, b) = a \/ Larger(a, b) = b)
BY DEF Larger

LEMMA SignalOf ==
  ASSUME NEW c \in ContactRow
  PROVE  /\ Signal(c) \in Nat /\ c.history_count \in Nat
         /\ Signal(c) > 0 <=> c.count > 0 \/ c.history_count > 0 \/ c.history_sent_count > 0
<1>1. c.count \in Nat /\ c.history_count \in Nat /\ c.history_sent_count \in Nat
  BY HistoryNumbers DEF ContactRow
<1>2. Signal(c) = Larger(c.count, Larger(c.history_count, c.history_sent_count))
  BY DEF Signal
<1> QED
  BY <1>1, <1>2 DEF Larger

\* An observation adds the new mentions to a row, with the recount as a floor,
\* and takes no signal away.
LEMMA MergedRow ==
  ASSUME NEW c \in ContactRow \cup {None}, NEW delta \in Nat, NEW recount \in Nat, NEW sentCount \in 0..MaxSends
  PROVE  LET m == merge_observation(c, delta, recount, sentCount)
         IN /\ m \in ContactRow /\ m # None
            /\ m.history_count = Larger(HistoryCount(c) + delta, recount)
            /\ m.history_sent_count >= sentCount
            /\ c # None => m.derived = c.derived /\ (Signal(c) > 0 => Signal(m) > 0)
            /\ sentCount > 0 => Signal(m) > 0
<1> DEFINE m == merge_observation(c, delta, recount, sentCount)
<1>1. CASE c = None
  <2>1. m = [derived |-> TRUE, count |-> 0, history_count |-> Larger(delta, recount), history_sent_count |-> sentCount]
    BY <1>1 DEF merge_observation
  <2>2. Larger(delta, recount) \in Nat
    BY LargerNat
  <2> HIDE DEF m
  <2>3. m \in ContactRow
    BY <2>1, <2>2 DEF ContactRow
  <2>4. m # None /\ m.history_count = Larger(delta, recount) /\ m.history_sent_count = sentCount
    BY <2>1, <2>3, HistoryNumbers
  <2>5. HistoryCount(c) + delta = delta
    BY <1>1 DEF HistoryCount
  <2>6. sentCount > 0 => Signal(m) > 0
    BY <2>3, <2>4, SignalOf
  <2>7. sentCount \in Nat
    BY HistoryNumbers
  <2> QED
    BY <1>1, <2>3, <2>4, <2>5, <2>6, <2>7 DEF m
<1>2. CASE c # None
  <2> DEFINE h == Larger(c.history_count + delta, recount)
             t == Larger(c.history_sent_count, sentCount)
  <2>1. m = [c EXCEPT !.history_count = h, !.history_sent_count = t]
    BY <1>2 DEF merge_observation
  <2>2. c \in ContactRow /\ c.history_count \in Nat /\ c.history_sent_count \in 0..MaxSends /\ c.count \in 0..1
    BY <1>2 DEF ContactRow
  <2>3. h \in Nat /\ h >= c.history_count
    BY <2>2 DEF Larger
  <2>4. t \in 0..MaxSends /\ t >= c.history_sent_count /\ t >= sentCount
    BY <2>2, HistoryNumbers DEF Larger
  <2> HIDE DEF m, h, t
  <2>5. m \in ContactRow /\ m.history_count = h /\ m.history_sent_count = t /\ m.derived = c.derived /\ m.count = c.count
    BY <2>1, <2>2, <2>3, <2>4 DEF ContactRow
  <2>6. Signal(c) > 0 => c.count > 0 \/ c.history_count > 0 \/ c.history_sent_count > 0
    BY <2>2, SignalOf
  <2>7. m.count > 0 \/ m.history_count > 0 \/ m.history_sent_count > 0 => Signal(m) > 0
    BY <2>5, SignalOf
  <2>8. Signal(c) > 0 => Signal(m) > 0
    <3>1. c.history_sent_count \in Nat /\ t \in Nat
      BY <2>2, <2>4, HistoryNumbers
    <3> QED
      BY <2>2, <2>3, <2>4, <2>5, <2>6, <2>7, <3>1
  <2>9. sentCount > 0 => Signal(m) > 0
    <3>1. sentCount \in Nat /\ t \in Nat
      BY <2>4, HistoryNumbers
    <3> QED
      BY <2>4, <2>5, <2>7, <3>1
  <2>10. h = Larger(HistoryCount(c) + delta, recount)
    BY <1>2 DEF h, HistoryCount
  <2>11. m # None
    BY <2>5, HistoryNumbers
  <2> QED
    BY <1>2, <2>4, <2>5, <2>8, <2>9, <2>10, <2>11 DEF m
<1> QED
  BY <1>1, <1>2

LEMMA SweptRow ==
  ASSUME NEW c \in ContactRow \cup {None}
  PROVE  /\ Sweep(c) \in ContactRow \cup {None} /\ HistoryCount(Sweep(c)) = HistoryCount(c)
         /\ Sweep(c) # None /\ Sweep(c).derived => Signal(Sweep(c)) > 0
<1>1. CASE c # None /\ c.derived /\ Signal(c) = 0
  <2>1. Sweep(c) = None /\ c \in ContactRow
    BY <1>1 DEF Sweep
  <2>2. c.history_count \in Nat /\ ~(c.history_count > 0)
    <3>1. ~(Signal(c) > 0)
      BY <1>1
    <3> QED
      BY <2>1, <3>1, SignalOf
  <2>3. c.history_count = 0
    BY <2>2
  <2> QED
    BY <2>1, <2>3, <1>1 DEF HistoryCount
<1>2. CASE ~(c # None /\ c.derived /\ Signal(c) = 0)
  <2>1. Sweep(c) = c
    BY <1>2 DEF Sweep
  <2>2. c # None => Signal(c) \in Nat
    BY SignalOf
  <2>3. c # None /\ c.derived => Signal(c) > 0
    BY <1>2, <2>2
  <2> QED
    BY <2>1, <2>3
<1> QED
  BY <1>1, <1>2

LEMMA HistoryStarts == HistoryInit => HistoryInv
<1> SUFFICES ASSUME HistoryInit PROVE HistoryInv
  OBVIOUS
<1>1. HistoryTypeOK
  <2>1. lastId \in 0..MaxRows /\ history \in [known : BOOLEAN, watermark : 0..MaxRows, dirty : BOOLEAN]
    BY HistoryNumbers DEF HistoryInit
  <2>2. sent \in [Addresses -> 0..MaxSends] /\ indexed \in IndexedMentions
    BY HistoryNumbers DEF HistoryInit, IndexedMentions
  <2> QED
    BY <2>1, <2>2 DEF HistoryInit, HistoryTypeOK
<1> QED
  BY <1>1 DEF HistoryInit, HistoryInv, Rebuilding


LEMMA FoldedFinite ==
  ASSUME HistoryTypeOK
  PROVE  IsFiniteSet(1..lastId) /\ IsFiniteSet(Folded)
<1>1. Folded \in SUBSET (1..lastId) /\ 1 \in Int /\ lastId \in Int
  BY HistoryNumbers DEF Folded, HistoryTypeOK
<1>2. IsFiniteSet(1..lastId)
  BY <1>1, FS_Interval
<1> QED
  BY <1>1, <1>2, FS_Subset

\* What does not touch the thread cache only has to leave each count as it was,
\* or lower it for a contact somebody deleted.
LEMMA OnlyContactsChange ==
  ASSUME HistoryInv, UNCHANGED <<cached, lastId, history, settled, highest>>,
         indexed' \in IndexedMentions, sent' \in [Addresses -> 0..MaxSends],
         contacts' \in [Addresses -> ContactRow \cup {None}],
         forgotten \subseteq forgotten', forgotten' \subseteq Addresses,
         \A a \in Addresses :
           /\ HistoryCount(contacts'[a]) = HistoryCount(contacts[a]) \/ (a \in forgotten' /\ contacts'[a] = None)
           /\ settled /\ contacts'[a] # None /\ contacts'[a].derived => Signal(contacts'[a]) > 0
  PROVE  HistoryInv'
<1>1. HistoryTypeOK'
  BY DEF HistoryInv, HistoryTypeOK
<1>2. Folded' = Folded /\ Rebuilding' = Rebuilding
  BY DEF Folded, Rebuilding
<1>3. ASSUME NEW a \in Addresses PROVE Mentions(a, Folded)' = Mentions(a, Folded)
  BY <1>2 DEF Mentions
<1>4. ASSUME ~Rebuilding, NEW a \in Addresses
      PROVE  /\ a \in forgotten' \/ Mentions(a, Folded)' <= Counted(a)'
             /\ Counted(a)' <= Mentions(a, Folded)' + highest'[a]
  <2>1. Counted(a) = HistoryCount(contacts[a]) /\ Counted(a)' = HistoryCount(contacts'[a])
    BY DEF Counted, HistoryCount
  <2>2. /\ a \in forgotten \/ Mentions(a, Folded) <= Counted(a)
        /\ Counted(a) <= Mentions(a, Folded) + highest[a]
    BY <1>4 DEF HistoryInv
  <2>3. CASE HistoryCount(contacts'[a]) = HistoryCount(contacts[a])
    BY <1>3, <2>1, <2>2, <2>3
  <2>4. CASE a \in forgotten' /\ contacts'[a] = None
    <3>1. Counted(a)' = 0
      BY <2>4 DEF Counted
    <3>2. Mentions(a, Folded) \in Nat /\ highest[a] \in Nat
      <4>2. IsFiniteSet(Folded)
        BY FoldedFinite DEF HistoryInv
      <4> QED
        BY <4>2, MentionsNat DEF HistoryInv, HistoryTypeOK
    <3> QED
      BY <1>3, <2>4, <3>1, <3>2
  <2> QED
    BY <2>3, <2>4
<1>5. settled' => \A a \in Addresses : contacts'[a] # None /\ contacts'[a].derived => (Signal(contacts[a]) > 0)'
  BY DEF Signal
<1> QED
  BY <1>1, <1>2, <1>4, <1>5 DEF HistoryInv

LEMMA ContactsKeepCounts ==
  ASSUME HistoryInv, record_sent_draft_recipients \/ upsert_indexed_message_summaries \/ Curate
  PROVE  HistoryInv'
<1>1. /\ contacts \in [Addresses -> ContactRow \cup {None}] /\ indexed \in IndexedMentions
      /\ sent \in [Addresses -> 0..MaxSends] /\ forgotten \subseteq Addresses
      /\ settled => \A a \in Addresses : contacts[a] # None /\ contacts[a].derived => Signal(contacts[a]) > 0
  BY DEF HistoryInv, HistoryTypeOK
<1>2. CASE record_sent_draft_recipients
  <2>1. PICK to \in (SUBSET Addresses) \ {{}} :
          /\ \A a \in to : sent[a] < MaxSends
          /\ sent' = [a \in Addresses |-> IF a \in to THEN sent[a] + 1 ELSE sent[a]]
          /\ contacts' = [a \in Addresses |->
               IF a \in to THEN merge_observation(contacts[a], 0, 0, sent'[a]) ELSE contacts[a]]
    BY <1>2 DEF record_sent_draft_recipients
  <2>2. ASSUME NEW a \in Addresses
        PROVE  sent'[a] \in 0..MaxSends /\ (a \in to => sent'[a] > 0)
    BY <1>1, <2>1, HistoryNumbers
  <2>3. sent' \in [Addresses -> 0..MaxSends]
    BY <2>1, <2>2
  <2>4. ASSUME NEW a \in Addresses
        PROVE  /\ contacts'[a] \in ContactRow \cup {None} /\ HistoryCount(contacts'[a]) = HistoryCount(contacts[a])
               /\ settled /\ contacts'[a] # None /\ contacts'[a].derived => Signal(contacts'[a]) > 0
    <3>1. CASE a \in to
      <4> DEFINE m == merge_observation(contacts[a], 0, 0, sent'[a])
      <4>1. contacts[a] \in ContactRow \cup {None} /\ 0 \in Nat
        BY <1>1
      <4>2. /\ m \in ContactRow /\ m.history_count = Larger(HistoryCount(contacts[a]) + 0, 0)
            /\ sent'[a] > 0 => Signal(m) > 0
        BY <2>2, <4>1, MergedRow
      <4>3. contacts'[a] = m
        BY <2>1, <3>1
      <4>4. HistoryCount(contacts[a]) \in Nat
        BY <4>1 DEF HistoryCount, ContactRow
      <4>5. HistoryCount(contacts[a]) + 0 = HistoryCount(contacts[a]) /\ Larger(HistoryCount(contacts[a]), 0) = HistoryCount(contacts[a])
        BY <4>4 DEF Larger
      <4>6. HistoryCount(contacts'[a]) = m.history_count
        BY <4>2, <4>3, HistoryNumbers DEF HistoryCount
      <4> QED
        BY <2>2, <3>1, <4>2, <4>3, <4>5, <4>6
    <3>2. CASE a \notin to
      <4>1. contacts'[a] = contacts[a]
        BY <2>1, <3>2
      <4> QED
        BY <1>1, <4>1
    <3> QED
      BY <3>1, <3>2
  <2>5. contacts' \in [Addresses -> ContactRow \cup {None}]
    BY <2>1, <2>4
  <2>6. UNCHANGED <<cached, lastId, indexed, history, settled, highest, forgotten>>
    BY <1>2 DEF record_sent_draft_recipients
  <2> QED
    BY <1>1, <2>3, <2>4, <2>5, <2>6, OnlyContactsChange
<1>3. CASE upsert_indexed_message_summaries
  <2>1. UNCHANGED <<cached, lastId, sent, contacts, history, settled, highest, forgotten>> /\ indexed' \in IndexedMentions
    BY <1>3 DEF upsert_indexed_message_summaries, IndexedMentions
  <2> QED
    BY <1>1, <2>1, OnlyContactsChange
<1>4. ASSUME NEW b \in Addresses, upsert_contact(b) \/ take_contact_ownership(b) \/ delete_contact(b)
      PROVE  HistoryInv'
  <2>1. UNCHANGED <<cached, lastId, indexed, sent, history, settled, highest>>
    BY <1>4 DEF upsert_contact, take_contact_ownership, delete_contact
  <2>2. PICK row \in ContactRow \cup {None} :
          /\ contacts' = [contacts EXCEPT ![b] = row]
          /\ HistoryCount(row) = HistoryCount(contacts[b]) \/ (b \in forgotten' /\ row = None)
          /\ row # None => ~row.derived
    <3>1. CASE upsert_contact(b)
      <4>1. PICK n \in 0..1 :
              contacts' = [contacts EXCEPT ![b] =
                IF @ = None THEN [derived |-> FALSE, count |-> n, history_count |-> 0, history_sent_count |-> 0]
                            ELSE [@ EXCEPT !.derived = FALSE, !.count = n]]
        BY <3>1 DEF upsert_contact
      <4>2. CASE contacts[b] = None
        <5> DEFINE row == [derived |-> FALSE, count |-> n, history_count |-> 0, history_sent_count |-> 0]
        <5>1. contacts' = [contacts EXCEPT ![b] = row]
          BY <4>1, <4>2
        <5>2. row \in ContactRow /\ row.history_count = 0 /\ row.derived = FALSE
          BY HistoryNumbers DEF ContactRow
        <5> HIDE DEF row
        <5>3. HistoryCount(row) = 0 /\ HistoryCount(contacts[b]) = 0
          BY <4>2, <5>2 DEF HistoryCount
        <5> QED
          BY <5>1, <5>2, <5>3
      <4>3. CASE contacts[b] # None
        <5> DEFINE row == [contacts[b] EXCEPT !.derived = FALSE, !.count = n]
        <5>1. contacts' = [contacts EXCEPT ![b] = row]
          BY <1>1, <4>1, <4>3
        <5>2. contacts[b] \in ContactRow
          BY <1>1, <4>3
        <5>3. row \in ContactRow /\ ~row.derived /\ row.history_count = contacts[b].history_count
          BY <5>2 DEF ContactRow
        <5>4. HistoryCount(row) = HistoryCount(contacts[b])
          BY <4>3, <5>3, HistoryNumbers DEF HistoryCount
        <5> QED
          BY <5>1, <5>3, <5>4
      <4> QED
        BY <4>2, <4>3
    <3>2. CASE take_contact_ownership(b)
      <4> DEFINE row == [contacts[b] EXCEPT !.derived = FALSE]
      <4>1. contacts' = [contacts EXCEPT ![b] = row] /\ contacts[b] # None
        BY <1>1, <3>2 DEF take_contact_ownership
      <4>2. contacts[b] \in ContactRow
        BY <1>1, <4>1
      <4>3. row \in ContactRow /\ ~row.derived /\ row.history_count = contacts[b].history_count
        BY <4>2 DEF ContactRow
      <4>4. HistoryCount(row) = HistoryCount(contacts[b])
        BY <4>1, <4>3, HistoryNumbers DEF HistoryCount
      <4> QED
        BY <4>1, <4>3, <4>4
    <3>3. CASE delete_contact(b)
      BY <3>3 DEF delete_contact
    <3> QED
      BY <1>4, <3>1, <3>2, <3>3
  <2>3. forgotten \subseteq forgotten' /\ forgotten' \subseteq Addresses
    BY <1>1, <1>4 DEF upsert_contact, take_contact_ownership, delete_contact
  <2>4. contacts' \in [Addresses -> ContactRow \cup {None}]
    BY <1>1, <2>2
  <2>5. ASSUME NEW a \in Addresses
        PROVE  /\ HistoryCount(contacts'[a]) = HistoryCount(contacts[a]) \/ (a \in forgotten' /\ contacts'[a] = None)
               /\ settled /\ contacts'[a] # None /\ contacts'[a].derived => Signal(contacts'[a]) > 0
    <3>1. CASE a = b
      <4>1. contacts'[a] = row
        BY <1>1, <2>2, <3>1
      <4> QED
        BY <2>2, <3>1, <4>1
    <3>2. CASE a # b
      <4>1. contacts'[a] = contacts[a]
        BY <1>1, <2>2, <3>2
      <4> QED
        BY <1>1, <4>1
    <3> QED
      BY <3>1, <3>2
  <2> QED
    BY <1>1, <2>1, <2>3, <2>4, <2>5, OnlyContactsChange
<1> QED
  BY <1>2, <1>3, <1>4 DEF Curate


\* A row that is inserted lies above the watermark; one that changes or goes
\* makes the next pass start over.
LEMMA RowsMarkDirty ==
  ASSUME HistoryInv, InsertRow \/ RewriteRow \/ drop_folder_rows
  PROVE  HistoryInv'
<1>1. UNCHANGED <<indexed, sent, contacts, settled, highest, forgotten>>
  BY DEF InsertRow, RewriteRow, drop_folder_rows
<1>2. /\ lastId' \in 0..MaxRows /\ cached' \in [1..MaxRows -> Headers \cup {None}] /\ lastId <= lastId'
      /\ \A id \in 1..MaxRows : id > lastId' => cached'[id] = None
  <2>1. lastId \in 0..MaxRows /\ cached \in [1..MaxRows -> Headers \cup {None}]
          /\ \A id \in 1..MaxRows : id > lastId => cached[id] = None
    BY DEF HistoryInv, HistoryTypeOK
  <2>2. CASE InsertRow
    <3>1. PICK h \in Headers : cached' = [cached EXCEPT ![lastId'] = h]
      BY <2>2 DEF InsertRow
    <3>2. lastId < MaxRows /\ lastId' = lastId + 1 /\ lastId' \in 1..MaxRows
      BY <2>1, <2>2, HistoryNumbers DEF InsertRow
    <3>3. cached' \in [1..MaxRows -> Headers \cup {None}]
      BY <2>1, <3>1, <3>2
    <3>4. ASSUME NEW id \in 1..MaxRows, id > lastId' PROVE cached'[id] = None
      <4>1. id # lastId' /\ id > lastId
        BY <2>1, <3>2, <3>4
      <4>2. cached'[id] = cached[id]
        BY <2>1, <3>1, <4>1
      <4> QED
        BY <2>1, <4>1, <4>2
    <3>5. lastId' \in 0..MaxRows /\ lastId <= lastId'
      BY <2>1, <3>2
    <3> QED
      BY <3>3, <3>4, <3>5
  <2>3. CASE RewriteRow
    <3>1. PICK id \in 1..lastId, h \in Headers : cached' = [cached EXCEPT ![id] = h] /\ cached[id] # None
      BY <2>3 DEF RewriteRow
    <3>2. lastId' = lastId /\ id \in 1..MaxRows /\ ~(id > lastId)
      BY <2>1, <2>3, HistoryNumbers DEF RewriteRow
    <3>3. cached' \in [1..MaxRows -> Headers \cup {None}]
      BY <2>1, <3>1, <3>2
    <3>4. ASSUME NEW k \in 1..MaxRows, k > lastId PROVE cached'[k] = None
      BY <2>1, <3>1, <3>2, <3>4
    <3> QED
      BY <2>1, <3>2, <3>3, <3>4
  <2>4. CASE drop_folder_rows
    <3>1. cached' = [id \in 1..MaxRows |-> None] /\ lastId' = lastId
      BY <2>4 DEF drop_folder_rows
    <3> QED
      BY <2>1, <3>1
  <2> QED
    BY <2>2, <2>3, <2>4
<1>3. /\ history' \in [known : BOOLEAN, watermark : 0..MaxRows, dirty : BOOLEAN]
      /\ history'.watermark = history.watermark
      /\ Rebuilding => Rebuilding'
      /\ history' = history \/ Rebuilding'
  <2>1. history \in [known : BOOLEAN, watermark : 0..MaxRows, dirty : BOOLEAN]
    BY DEF HistoryInv, HistoryTypeOK
  <2>2. history' \in {history, [history EXCEPT !.dirty = @ \/ history.known]}
    BY DEF InsertRow, RewriteRow, drop_folder_rows, invalidate_address_history
  <2>3. CASE history' = history
    BY <2>1, <2>3 DEF Rebuilding
  <2>4. CASE history' = [history EXCEPT !.dirty = @ \/ history.known]
    <3>1. /\ history'.watermark = history.watermark /\ history'.known = history.known
          /\ history'.dirty = (history.dirty \/ history.known)
          /\ history' \in [known : BOOLEAN, watermark : 0..MaxRows, dirty : BOOLEAN]
      BY <2>1, <2>4
    <3>2. Rebuilding'
      BY <2>1, <3>1 DEF Rebuilding
    <3> QED
      BY <3>1, <3>2
  <2> QED
    BY <2>2, <2>3, <2>4
<1>4. HistoryTypeOK'
  BY <1>1, <1>2, <1>3 DEF HistoryInv, HistoryTypeOK
<1>5. history'.watermark <= lastId'
  <2>1. history.watermark <= lastId /\ history.watermark \in Nat /\ lastId \in Nat /\ lastId' \in Nat /\ lastId <= lastId'
    BY <1>2, HistoryNumbers DEF HistoryInv, HistoryTypeOK
  <2> QED
    BY <1>3, <2>1
<1>6. ~Rebuilding' => Folded' = Folded /\ \A id \in Folded : cached'[id] = cached[id]
  <2> SUFFICES ASSUME ~Rebuilding' PROVE Folded' = Folded /\ \A id \in Folded : cached'[id] = cached[id]
    OBVIOUS
  <2>0. /\ history' = history /\ ~Rebuilding
        /\ lastId \in 0..MaxRows /\ cached \in [1..MaxRows -> Headers \cup {None}]
        /\ history.watermark \in Nat /\ history.watermark <= lastId
    BY <1>3, HistoryNumbers DEF HistoryInv, HistoryTypeOK
  <2>1. CASE InsertRow
    <3>1. PICK h \in Headers : cached' = [cached EXCEPT ![lastId'] = h]
      BY <2>1 DEF InsertRow
    <3>2. lastId' = lastId + 1
      BY <2>1 DEF InsertRow
    <3>3. ASSUME NEW id \in 1..lastId PROVE cached'[id] = cached[id] /\ id \in 1..lastId'
      BY <2>0, <3>1, <3>2, <3>3, HistoryNumbers
    <3>4. ASSUME NEW id \in 1..lastId', id <= history.watermark PROVE id \in 1..lastId
      BY <2>0, <3>2, <3>4
    <3> QED
      BY <2>0, <3>3, <3>4 DEF Folded
  <2>2. CASE RewriteRow
    <3>1. PICK id \in 1..lastId, h \in Headers :
            /\ cached' = [cached EXCEPT ![id] = h]
            /\ history' = IF cached[id] # h THEN invalidate_address_history ELSE history
      BY <2>2 DEF RewriteRow
    <3>2. cached[id] = h
      <4>1. CASE cached[id] # h
        <5>1. history'.dirty = (history.dirty \/ history.known) /\ history'.known = history.known
          BY <3>1, <4>1 DEF invalidate_address_history, HistoryInv, HistoryTypeOK
        <5> QED
          BY <5>1, <2>0 DEF Rebuilding, HistoryInv, HistoryTypeOK
      <4> QED
        BY <4>1
    <3>3. cached' = cached
      BY <2>0, <3>1, <3>2
    <3> QED
      BY <2>0, <2>2, <3>3 DEF Folded, RewriteRow
  <2>3. CASE drop_folder_rows
    <3>1. history'.dirty = (history.dirty \/ history.known) /\ history'.known = history.known
      BY <2>3 DEF drop_folder_rows, invalidate_address_history, HistoryInv, HistoryTypeOK
    <3> QED
      BY <3>1, <2>0 DEF Rebuilding, HistoryInv, HistoryTypeOK
  <2> QED
    BY <2>1, <2>2, <2>3
<1>7. ASSUME ~Rebuilding', NEW a \in Addresses
      PROVE  Mentions(a, Folded)' = Mentions(a, Folded)
  BY <1>6, <1>7 DEF Mentions
<1>8. ASSUME NEW a \in Addresses PROVE Counted(a)' = Counted(a)
  BY <1>1 DEF Counted
<1>9. settled' => \A a \in Addresses : contacts'[a] # None /\ contacts'[a].derived => (Signal(contacts[a]) > 0)'
  BY <1>1 DEF HistoryInv, Signal
<1>10. ~Rebuilding' => ~Rebuilding
  BY <1>3
<1> QED
  BY <1>1, <1>4, <1>5, <1>7, <1>8, <1>9, <1>10 DEF HistoryInv


\* One pass: what was folded before and the chunk make up what is folded after.
LEMMA ReconcileKeepsCounts ==
  ASSUME HistoryInv, reconcile_address_history_chunk
  PROVE  HistoryInv'
<1> DEFINE from == IF Rebuilding THEN 0 ELSE history.watermark
           above == {id \in 1..lastId : id > from /\ cached[id] # None}
           chunk == {id \in above : Cardinality({k \in above : k <= id}) <= ChunkRows}
           pending == Cardinality(chunk) = ChunkRows
           recount(a) == IF pending THEN 0 ELSE indexed[a] + sent[a]
           sentCount(a) == IF pending THEN 0 ELSE sent[a]
           begun_with(a) == IF Rebuilding /\ contacts[a] # None
                         THEN [contacts[a] EXCEPT !.history_count = 0, !.history_sent_count = 0]
                         ELSE contacts[a]
           folded(a) == IF Mentions(a, chunk) + recount(a) = 0 THEN begun_with(a)
                        ELSE merge_observation(begun_with(a), Mentions(a, chunk), recount(a), sentCount(a))
           next == Max(chunk \cup {from})
           before == {id \in 1..lastId : id <= from /\ cached[id] # None}
<1>1. /\ contacts' = [a \in Addresses |-> IF pending THEN folded(a) ELSE Sweep(folded(a))]
      /\ history' = [known |-> TRUE, watermark |-> next, dirty |-> FALSE]
      /\ settled' = ~pending
      /\ highest' = [a \in Addresses |-> IF Rebuilding THEN recount(a) ELSE Larger(highest[a], recount(a))]
      /\ forgotten' = IF Rebuilding THEN {} ELSE forgotten
      /\ UNCHANGED <<cached, lastId, indexed, sent>>
  BY Zenon DEF reconcile_address_history_chunk
<1>2. HistoryTypeOK /\ lastId \in Nat /\ lastId <= MaxRows /\ from \in 0..lastId
  BY HistoryNumbers DEF HistoryInv, HistoryTypeOK
<1>3. IsFiniteSet(1..lastId)
  BY <1>2, FoldedFinite
<1>4. /\ IsFiniteSet(chunk) /\ IsFiniteSet(before) /\ chunk \cap before = {}
      /\ next \in 0..lastId
      /\ {id \in 1..lastId : id <= next /\ cached[id] # None} = before \cup chunk
  <2>1. above \in SUBSET (1..lastId) /\ chunk \in SUBSET (1..lastId) /\ before \in SUBSET (1..lastId)
    OBVIOUS
  <2>2. IsFiniteSet(chunk) /\ IsFiniteSet(before)
    BY <1>3, <2>1, FS_Subset
  <2>3. ASSUME NEW id \in chunk, NEW k \in before PROVE id # k /\ from < id /\ id \in above
    BY <1>2
  <2>4. chunk \cup {from} \in SUBSET Nat /\ \A x \in chunk \cup {from} : x <= lastId
    BY <1>2, <2>1
  <2>5. next \in chunk \cup {from} /\ \A x \in chunk \cup {from} : x <= next
    <3> HIDE DEF chunk, from
    <3>1. chunk \cup {from} # {}
      OBVIOUS
    <3> QED
      BY <1>2, <2>4, <3>1, LargestRow
  <2>6. ASSUME NEW id \in 1..lastId, id <= next, cached[id] # None, ~(id <= from)
        PROVE  id \in chunk
    <3>1. id \in Nat /\ from \in Nat /\ id > from /\ id \in above
      BY <1>2, <2>6
    <3>2. next # from
      BY <2>6
    <3>3. next \in above /\ Cardinality({j \in above : j <= next}) <= ChunkRows
      BY <2>5, <3>2
    <3>4. above \in SUBSET Nat /\ \A j \in above : j <= lastId
      BY <2>1
    <3> HIDE DEF above, next, from
    <3>5. Cardinality({j \in above : j <= id}) <= ChunkRows
      BY <1>2, <2>6, <3>1, <3>3, <3>4, ChunkHasNoGap
    <3> QED
      BY <3>1, <3>5
  <2>7. next \in 0..lastId
    BY <1>2, <2>1, <2>5
  <2>8. ASSUME NEW id \in before \cup chunk PROVE id \in 1..lastId /\ id <= next /\ cached[id] # None
    <3>1. CASE id \in chunk
      BY <2>1, <2>5, <3>1
    <3>2. CASE id \in before
      <4>1. id <= from /\ from <= next /\ id \in Nat
        BY <1>2, <2>5, <3>2
      <4> QED
        BY <1>2, <2>7, <3>2, <4>1
    <3> QED
      BY <3>1, <3>2
  <2>9. {id \in 1..lastId : id <= next /\ cached[id] # None} = before \cup chunk
    <3> HIDE DEF chunk, next
    <3> QED
      BY <2>6, <2>8
  <2>10. chunk \cap before = {}
    BY <2>3
  <2> QED
    BY <2>2, <2>7, <2>9, <2>10
<1>5. Rebuilding => before = {}
  BY DEF HistoryInv
<1>6. ~Rebuilding => before = Folded
  BY DEF Folded
<1> HIDE DEF chunk, next, before, above
<1>7. ASSUME NEW a \in Addresses
      PROVE  /\ Mentions(a, Folded)' = Mentions(a, before) + Mentions(a, chunk)
             /\ Mentions(a, before) \in Nat /\ Mentions(a, chunk) \in Nat
             /\ Rebuilding => Mentions(a, before) = 0
  <2>1. Folded' = before \cup chunk
    BY <1>1, <1>4 DEF Folded
  <2>2. Mentions(a, Folded)' = Mentions(a, before \cup chunk)
    BY <1>1, <2>1 DEF Mentions
  <2>3. Mentions(a, before \cup chunk) = Mentions(a, before) + Mentions(a, chunk)
    BY <1>4, MentionsAdd
  <2>4. Mentions(a, before) \in Nat /\ Mentions(a, chunk) \in Nat
    BY <1>4, MentionsNat
  <2>5. ASSUME Rebuilding PROVE Mentions(a, before) = 0
    <3>1. {m \in {} \X {"from", "to"} : m[2] \in Mention(cached[m[1]], a)} = {}
      OBVIOUS
    <3>2. Mentions(a, {}) = 0
      BY <3>1, FS_EmptySet DEF Mentions
    <3> QED
      BY <1>5, <2>5, <3>2
  <2> QED
    BY <2>2, <2>3, <2>4, <2>5
<1>8. ASSUME NEW a \in Addresses
      PROVE  recount(a) \in Nat /\ sentCount(a) \in 0..MaxSends /\ highest[a] \in Nat
  <2>1. indexed[a] \in 0..1 /\ sent[a] \in 0..MaxSends /\ highest[a] \in Nat
    BY <1>2 DEF HistoryTypeOK, IndexedMentions
  <2> QED
    BY <2>1, HistoryNumbers
<1>9. ASSUME NEW a \in Addresses
      PROVE  /\ begun_with(a) \in ContactRow \cup {None}
             /\ HistoryCount(begun_with(a)) = IF Rebuilding THEN 0 ELSE Counted(a)
             /\ HistoryCount(begun_with(a)) \in Nat
  <2>1. contacts[a] \in ContactRow \cup {None}
    BY <1>2 DEF HistoryTypeOK
  <2>2. CASE Rebuilding /\ contacts[a] # None
    <3>1. begun_with(a) = [contacts[a] EXCEPT !.history_count = 0, !.history_sent_count = 0]
      BY <2>2
    <3>2. contacts[a] \in ContactRow
      BY <2>1, <2>2
    <3>4. 0 \in Nat /\ 0 \in 0..MaxSends
      BY HistoryNumbers
    <3> HIDE DEF begun_with
    <3>3. begun_with(a) \in ContactRow /\ begun_with(a).history_count = 0
      BY <3>1, <3>2, <3>4 DEF ContactRow
    <3> QED
      BY <2>2, <3>3, HistoryNumbers DEF HistoryCount
  <2>3. CASE ~(Rebuilding /\ contacts[a] # None)
    <3>1. begun_with(a) = contacts[a]
      BY <2>3
    <3>2. HistoryCount(contacts[a]) = Counted(a) /\ (contacts[a] = None => HistoryCount(contacts[a]) = 0)
      BY DEF HistoryCount, Counted
    <3>3. HistoryCount(contacts[a]) \in Nat
      BY <2>1 DEF HistoryCount, ContactRow
    <3> HIDE DEF begun_with
    <3> QED
      BY <2>1, <2>3, <3>1, <3>2, <3>3
  <2> QED
    BY <2>2, <2>3
<1>10. ASSUME NEW a \in Addresses
       PROVE  /\ folded(a) \in ContactRow \cup {None}
              /\ HistoryCount(folded(a)) = Larger(HistoryCount(begun_with(a)) + Mentions(a, chunk), recount(a))
  <2>1. begun_with(a) \in ContactRow \cup {None} /\ HistoryCount(begun_with(a)) \in Nat /\ Mentions(a, chunk) \in Nat
          /\ recount(a) \in Nat /\ sentCount(a) \in 0..MaxSends
    BY <1>7, <1>8, <1>9
  <2> HIDE DEF begun_with, recount, sentCount
  <2>2. CASE Mentions(a, chunk) + recount(a) = 0
    <3>1. folded(a) = begun_with(a) /\ Mentions(a, chunk) = 0 /\ recount(a) = 0
      BY <2>1, <2>2
    <3>2. Larger(HistoryCount(begun_with(a)) + 0, 0) = HistoryCount(begun_with(a))
      BY <2>1 DEF Larger
    <3> QED
      BY <2>1, <3>1, <3>2
  <2>3. CASE Mentions(a, chunk) + recount(a) # 0
    <3> DEFINE m == merge_observation(begun_with(a), Mentions(a, chunk), recount(a), sentCount(a))
    <3>1. folded(a) = m
      BY <2>3
    <3>2. m \in ContactRow /\ m # None
            /\ m.history_count = Larger(HistoryCount(begun_with(a)) + Mentions(a, chunk), recount(a))
      BY <2>1, MergedRow
    <3> HIDE DEF folded, m
    <3> QED
      BY <3>1, <3>2 DEF HistoryCount
  <2> QED
    BY <2>2, <2>3
<1>11. ASSUME NEW a \in Addresses
       PROVE  /\ contacts'[a] \in ContactRow \cup {None}
              /\ Counted(a)' = HistoryCount(folded(a))
              /\ settled' /\ contacts'[a] # None /\ contacts'[a].derived => Signal(contacts'[a]) > 0
  <2>1. folded(a) \in ContactRow \cup {None}
    BY <1>10
  <2>2. contacts'[a] = IF pending THEN folded(a) ELSE Sweep(folded(a))
    BY <1>1
  <2>3. Counted(a)' = HistoryCount(contacts'[a])
    BY DEF Counted, HistoryCount
  <2> HIDE DEF folded, pending
  <2>4. CASE pending
    BY <1>1, <2>1, <2>2, <2>3, <2>4
  <2>5. CASE ~pending
    BY <2>1, <2>2, <2>3, <2>5, SweptRow
  <2> QED
    BY <2>4, <2>5
<1>12. history' = [known |-> TRUE, watermark |-> next, dirty |-> FALSE] /\ next \in 0..MaxRows
        /\ history'.watermark = next /\ lastId' = lastId /\ next <= lastId
  <2>1. next \in 0..lastId /\ lastId \in Nat /\ lastId <= MaxRows /\ MaxRows \in Nat
    BY <1>2, <1>4, HistoryNumbers
  <2>2. next \in 0..MaxRows /\ next <= lastId
    BY <2>1
  <2>3. history' = [known |-> TRUE, watermark |-> next, dirty |-> FALSE] /\ lastId' = lastId
    BY <1>1
  <2> QED
    BY <2>2, <2>3
<1>13. HistoryTypeOK'
  <2>1. history' \in [known : BOOLEAN, watermark : 0..MaxRows, dirty : BOOLEAN]
    BY <1>12
  <2>2. contacts' \in [Addresses -> ContactRow \cup {None}]
    BY <1>1, <1>11
  <2>3. ASSUME NEW a \in Addresses PROVE highest'[a] \in Nat
    BY <1>1, <1>8, LargerNat
  <2>4. highest' \in [Addresses -> Nat]
    BY <1>1, <2>3
  <2>5. settled' \in BOOLEAN /\ forgotten' \subseteq Addresses
    BY <1>1, <1>2 DEF HistoryTypeOK
  <2> QED
    BY <1>1, <1>2, <2>1, <2>2, <2>4, <2>5 DEF HistoryTypeOK
<1>14. history'.watermark <= lastId'
  BY <1>12
<1>15. ASSUME NEW a \in Addresses
       PROVE  /\ a \in forgotten' \/ Mentions(a, Folded)' <= Counted(a)'
              /\ Counted(a)' <= Mentions(a, Folded)' + highest'[a]
  <2> DEFINE h == HistoryCount(begun_with(a))
             d == Mentions(a, chunk)
             b == Mentions(a, before)
             r == recount(a)
  <2>1. h \in Nat /\ d \in Nat /\ b \in Nat /\ r \in Nat /\ highest[a] \in Nat
    BY <1>7, <1>8, <1>9
  <2>2. Counted(a)' = Larger(h + d, r) /\ Mentions(a, Folded)' = b + d
    <3>1. Counted(a)' = HistoryCount(folded(a)) /\ HistoryCount(folded(a)) = Larger(h + d, r)
      BY <1>10, <1>11
    <3>2. Mentions(a, Folded)' = b + d
      BY <1>7
    <3> HIDE DEF folded, h, d, r, b
    <3> QED
      BY <3>1, <3>2
  <2>3. highest'[a] = IF Rebuilding THEN r ELSE Larger(highest[a], r)
    BY <1>1
  <2>4. Rebuilding => h = 0 /\ b = 0
    BY <1>7, <1>9
  <2>5. ~Rebuilding => (a \in forgotten \/ b <= h) /\ h <= b + highest[a] /\ forgotten' = forgotten
    BY <1>1, <1>6, <1>9 DEF HistoryInv
  <2> HIDE DEF h, d, b, r
  <2>10. h + d \in Nat
    BY <2>1
  <2>6. Larger(h + d, r) >= h + d /\ (Larger(h + d, r) = h + d \/ Larger(h + d, r) = r) /\ Larger(h + d, r) \in Nat
    BY <2>1, <2>10, LargerNat
  <2>7. Larger(highest[a], r) >= highest[a] /\ Larger(highest[a], r) >= r /\ Larger(highest[a], r) \in Nat
    BY <2>1, LargerNat
  <2>8. CASE Rebuilding
    BY <2>1, <2>2, <2>3, <2>4, <2>6, <2>8
  <2>9. CASE ~Rebuilding
    BY <2>1, <2>2, <2>3, <2>5, <2>6, <2>7, <2>9
  <2> QED
    BY <2>8, <2>9
<1>16. settled' => \A a \in Addresses : contacts'[a] # None /\ contacts'[a].derived => (Signal(contacts[a]) > 0)'
  BY <1>11 DEF Signal
<1> QED
  BY <1>13, <1>14, <1>15, <1>16 DEF HistoryInv

(* Once a reconcile has caught up, every mention in the thread cache is    *)
(* counted, none twice, and no derived row outlives its last source, unless*)
(* somebody deleted the contact (address_book.rs                           *)
(* reconcile_address_history_chunk): for any correspondents, headers, size *)
(* of a chunk and number of rows and sends.                                *)
THEOREM HistoryCountsOnce == HistorySpec => []HistoryCounts
<1>1. HistoryInv /\ [HistoryNext]_history_vars => HistoryInv'
  <2> SUFFICES ASSUME HistoryInv, [HistoryNext]_history_vars PROVE HistoryInv'
    OBVIOUS
  <2>1. CASE UNCHANGED history_vars
    <3>1. \A a \in Addresses : Mentions(a, Folded)' = Mentions(a, Folded) /\ Counted(a)' = Counted(a)
      BY <2>1 DEF history_vars, Mentions, Folded, Counted
    <3>2. HistoryTypeOK' /\ Rebuilding' = Rebuilding
      BY <2>1 DEF history_vars, HistoryInv, HistoryTypeOK, Rebuilding
    <3>3. settled' => \A a \in Addresses : contacts'[a] # None /\ contacts'[a].derived => (Signal(contacts[a]) > 0)'
      BY <2>1 DEF history_vars, HistoryInv, Signal
    <3> QED
      BY <2>1, <3>1, <3>2, <3>3 DEF history_vars, HistoryInv
  <2> QED
    BY <2>1, ReconcileKeepsCounts, RowsMarkDirty, ContactsKeepCounts DEF HistoryNext, Derive
<1>2. HistoryInv => HistoryCounts
  <2> SUFFICES ASSUME HistoryInv, CaughtUp PROVE HistoryCounts
    BY DEF HistoryCounts
  <2>1. Live = Folded
    BY DEF CaughtUp, Live, Folded
  <2>2. ~Rebuilding /\ settled
    BY DEF CaughtUp
  <2> QED
    BY <2>1, <2>2 DEF HistoryInv, HistoryCounts
<1> QED
  BY <1>1, <1>2, HistoryStarts, PTL DEF HistorySpec
==============================================================================
