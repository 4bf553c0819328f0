------------------------------ MODULE Credentials ------------------------------
(***************************************************************************)
(* The credential file, the secrets of the database that are sealed with   *)
(* it, and the requests that use both: connecting a mailbox by password or *)
(* through Google's consent, the push key, opening a pooled connection;    *)
(* and rekey, run beside the server.  The file holds one random DB         *)
(* passphrase, wrapped under a master key.  A key unwraps exactly what it  *)
(* wrapped.  The keychain backend is left out: it has no file.             *)
(***************************************************************************)
EXTENDS Naturals, FiniteSets, Rows

CONSTANTS
  Tasks,          \* requests and commands under way at once
  Environments,   \* [key, passfile, typed, new, machine]: what a task finds
  MaxFresh,       \* bound on the DB passphrases generated
  MaxConsents     \* bound on the authorizations started

ASSUME CredentialsAssumption ==
  {MaxFresh, MaxConsents} \subseteq Nat \ {0} /\ None \notin 1..MaxFresh

VARIABLES
  file,        \* credentials.json: [state, verify, wrap, db]
  tasks,       \* where each task stands
  sealed,      \* ciphertexts in the database: the DB passphrase each is under
  mailbox,     \* accounts row, and travel_settings.account_id
  consents,    \* gmail_oauth_pending
  collided,    \* history: a first-time setup replaced another's
  refused,     \* history: a stored password could not be unsealed
  spent        \* history: consents whose code was exchanged

cred_vars == <<file, tasks, sealed, mailbox, consents, collided, refused, spent>>

-----------------------------------------------------------------------------
Absent == [state |-> "absent", verify |-> None, wrap |-> None, db |-> None]
HasEntry(cf) == cf.db # None

decrypt_value(cf, key) == IF key # None /\ key = cf.wrap THEN cf.db ELSE None

(* None is refused.  A passphrase file or a typed passphrase is compared   *)
(* with the verifier, the environment's key is not; a store without a      *)
(* verifier is of the machine key.  In a rekey the passphrase file holds   *)
(* the new passphrase.                                                     *)
resolve_master_for_read(cf, env, consult) ==
  CASE env.key # None -> env.key
    [] env.key = None /\ env.passfile # None /\ consult ->
         IF cf.verify \in {None, env.passfile} THEN env.passfile ELSE None
    [] OTHER -> IF cf.verify = None THEN "machine" ELSE IF env.typed = cf.verify THEN env.typed ELSE None

unlock(cf, env, consult) == decrypt_value(cf, resolve_master_for_read(cf, env, consult))

(* A new store is verified if a passphrase was given for it.               *)
first_time(env, db) ==
  LET Store(wrap, verify) == [state |-> "good", verify |-> verify, wrap |-> wrap, db |-> db]
  IN CASE env.key # None -> Store(env.key, None)
       [] env.key = None /\ env.passfile # None -> Store(env.passfile, env.passfile)
       [] OTHER -> IF env.new # None THEN Store(env.new, env.new)
                    ELSE IF env.machine THEN Store("machine", None) ELSE None

-----------------------------------------------------------------------------
Secret == {"account", "gmail", "push"}
AtRest == [step |-> "idle", work |-> None, store |-> None, pass |-> None]
Passphrases == 1..MaxFresh
Keys == {"machine", None} \cup UNION {{env.key, env.passfile, env.typed, env.new} : env \in Environments}

CredentialFile == [state : {"absent", "torn", "good"}, verify : Keys, wrap : Keys, db : Passphrases \cup {None}]

(* Without a terminal neither prompt answers.                              *)
PassphrasePrompter == [key : Keys, passfile : Keys, typed : Keys, new : Keys, machine : BOOLEAN]
ASSUME PrompterAssumption == Environments \subseteq PassphrasePrompter

(* A ciphertext is opened by the passphrase it was made with and no other; *)
(* nothing is an answer from anything else.                                *)
encrypt(secret, passphrase) == [sealed EXCEPT ![secret] = passphrase]
decrypts(secret, passphrase) == sealed[secret] = passphrase

CredentialsTypeOK ==
  /\ file \in CredentialFile
  /\ \A t \in Tasks : /\ tasks[t].step \in {"idle", "unlock", "truncate", "write", "ready", "rename"}
                      /\ tasks[t].work \in Secret \cup {"rekey", "open", None}
                           /\ tasks[t].pass \in Passphrases \cup {None}
  /\ sealed \in [Secret -> Passphrases \cup {None}]
  /\ mailbox \in [stored : BOOLEAN, selected : BOOLEAN]
  /\ consents \in SUBSET (1..MaxConsents) /\ {collided, refused} \subseteq BOOLEAN

CredentialsInit ==
  /\ file = Absent /\ tasks = [t \in Tasks |-> AtRest] /\ sealed = [s \in Secret |-> None]
  /\ mailbox = [stored |-> FALSE, selected |-> FALSE] /\ consents = {} /\ collided = FALSE /\ refused = FALSE
  /\ spent = [n \in 1..MaxConsents |-> 0]

(* A random passphrase: none in use.                                       *)
Unused ==
  Passphrases \ ({file.db} \cup {sealed[s] : s \in Secret} \cup {tasks[t].pass : t \in Tasks}
                  \cup {tasks[t].store.db : t \in {x \in Tasks : tasks[x].store # None}})

(* The mail server accepted the password that is to be stored.             *)
connect_gmail(t) ==
  /\ tasks[t] = AtRest /\ tasks' = [tasks EXCEPT ![t] = [AtRest EXCEPT !.step = "unlock", !.work = "account"]]
  /\ UNCHANGED <<file, sealed, mailbox, consents, collided, refused, spent>>

(* Bound: consents are numbered.                                           *)
start(n) ==
  /\ spent[n] = 0 /\ consents' = consents \cup {n}
  /\ UNCHANGED <<file, tasks, sealed, mailbox, collided, refused, spent>>

(* The state is taken in a transaction before the code is exchanged.       *)
callback(t) ==
  /\ tasks[t] = AtRest
  /\ \E n \in consents : consents' = consents \ {n} /\ spent' = [spent EXCEPT ![n] = @ + 1]
  /\ tasks' = [tasks EXCEPT ![t] = [AtRest EXCEPT !.step = "unlock", !.work = "gmail"]]
  /\ UNCHANGED <<file, sealed, mailbox, collided, refused>>

(* Enabling push, opening a connection, or a rekey.                        *)
Started(t) ==
  /\ tasks[t] = AtRest
  /\ \E work \in {"push", "rekey"} \cup (IF mailbox.stored THEN {"open"} ELSE {}) :
       tasks' = [tasks EXCEPT ![t] = [AtRest EXCEPT !.step = "unlock", !.work = work]]
  /\ UNCHANGED <<file, sealed, mailbox, consents, collided, refused, spent>>

Leave(t) == tasks' = [tasks EXCEPT ![t] = AtRest]

(* The file is read once; nothing keeps another task from reading it too.  *)
file_get_or_create_passphrase(t) ==
  /\ tasks[t].step = "unlock" /\ tasks[t].work # "rekey"
  /\ \E env \in Environments :
       LET pass  == unlock(file, env, TRUE)
           store == IF Unused = {} THEN None ELSE first_time(env, CHOOSE db \in Unused : TRUE)
       IN CASE file.state = "torn" -> Leave(t)
            [] HasEntry(file) -> IF pass = None THEN Leave(t)
                                 ELSE tasks' = [tasks EXCEPT ![t].step = "ready", ![t].pass = pass]
            [] OTHER -> IF store = None THEN Leave(t)
                        ELSE tasks' = [tasks EXCEPT ![t].step = "truncate", ![t].store = store]
  /\ UNCHANGED <<file, sealed, mailbox, consents, collided, refused, spent>>

(* The first store is written in place.                                    *)
write_credential_file(t) ==
  /\ \/ /\ tasks[t].step = "truncate" /\ tasks' = [tasks EXCEPT ![t].step = "write"]
        /\ file' = [Absent EXCEPT !.state = "torn"]
        /\ collided' = (collided \/ HasEntry(file) \/ file.state = "torn")
     \/ /\ tasks[t].step = "write" /\ tasks' = [tasks EXCEPT ![t].step = "ready",
             ![t].pass = tasks[t].store.db, ![t].store = None]
        /\ file' = tasks[t].store /\ collided' = (collided \/ HasEntry(file))
  /\ UNCHANGED <<sealed, mailbox, consents, refused, spent>>

(* Mutant: a rekey makes a new database passphrase.                        *)
rekey_fresh(t) ==
  /\ tasks[t].step = "unlock" /\ tasks[t].work = "rekey"
  /\ \E env \in Environments :
       LET db  == unlock(file, env, FALSE)
           new == IF env.passfile # None THEN env.passfile ELSE env.new
       IN IF ~HasEntry(file) \/ db = None \/ new = None THEN Leave(t)
          ELSE tasks' = [tasks EXCEPT ![t].step = "rename", ![t].store = [state |-> "good", verify |-> new,
                 wrap |-> new, db |-> (db % MaxFresh) + 1]]
  /\ UNCHANGED <<file, sealed, mailbox, consents, collided, refused, spent>>

(* The DB passphrase stays: no sealed secret is touched.                   *)
rekey(t) ==
  /\ tasks[t].step = "unlock" /\ tasks[t].work = "rekey"
  /\ \E env \in Environments :
       LET db  == unlock(file, env, FALSE)
           new == IF env.passfile # None THEN env.passfile ELSE env.new
       IN IF ~HasEntry(file) \/ db = None \/ new = None THEN Leave(t)
          ELSE tasks' = [tasks EXCEPT ![t].step = "rename", ![t].store = [state |-> "good", verify |-> new,
                 wrap |-> new, db |-> db]]
  /\ UNCHANGED <<file, sealed, mailbox, consents, collided, refused, spent>>

(* A complete temporary file takes the name.                               *)
write_credential_file_atomic(t) ==
  /\ tasks[t].step = "rename" /\ file' = tasks[t].store /\ Leave(t)
  /\ UNCHANGED <<sealed, mailbox, consents, collided, refused, spent>>

(* The process stops, or the command fails: a temporary file is left.      *)
Abandon(t) ==
  /\ tasks[t].step # "idle" /\ Leave(t)
  /\ UNCHANGED <<file, sealed, mailbox, consents, collided, refused, spent>>

Done(t, secret) == sealed' = encrypt(secret, tasks[t].pass) /\ Leave(t)

(* Account and settings are one transaction.                               *)
upsert_imap_account_and_travel_settings(t) ==
  /\ tasks[t].step = "ready" /\ tasks[t].work = "account"
  /\ sealed' = encrypt("account", tasks[t].pass)
  /\ mailbox' = [stored |-> TRUE, selected |-> TRUE] /\ Leave(t)
  /\ UNCHANGED <<file, consents, collided, refused, spent>>

StoreRefresh(t) ==
  /\ tasks[t].step = "ready" /\ tasks[t].work = "gmail" /\ Done(t, "gmail")
  /\ UNCHANGED <<file, mailbox, consents, collided, refused, spent>>

(* A key that is there is opened, never replaced.                          *)
key(t) ==
  /\ tasks[t].step = "ready" /\ tasks[t].work = "push"
  /\ IF sealed["push"] = None THEN Done(t, "push") ELSE Leave(t) /\ UNCHANGED sealed
  /\ UNCHANGED <<file, mailbox, consents, collided, refused, spent>>

(* A mailbox is opened with what its row holds, if it can be unsealed.     *)
resolve_credentials(t) ==
  /\ tasks[t].step = "ready" /\ tasks[t].work = "open" /\ Leave(t)
  /\ refused' = (refused \/ (mailbox.stored /\ ~decrypts("account", tasks[t].pass)))
  /\ UNCHANGED <<file, sealed, mailbox, consents, collided, spent>>

(* The settings go on naming the account.                                  *)
delete_account ==
  /\ mailbox.stored /\ mailbox' = [mailbox EXCEPT !.stored = FALSE] /\ sealed' = [sealed EXCEPT !["account"] = None]
  /\ UNCHANGED <<file, tasks, consents, collided, refused, spent>>

CredentialsNext ==
  \/ \E t \in Tasks :
       \/ connect_gmail(t) \/ callback(t) \/ Started(t) \/ file_get_or_create_passphrase(t)
            \/ write_credential_file(t)
       \/ rekey(t) \/ write_credential_file_atomic(t) \/ Abandon(t) \/ upsert_imap_account_and_travel_settings(t)
       \/ StoreRefresh(t) \/ key(t) \/ resolve_credentials(t)
  \/ (\E n \in 1..MaxConsents : start(n)) \/ delete_account

CredentialsSpec == CredentialsInit /\ [][CredentialsNext]_cred_vars

-----------------------------------------------------------------------------
(* No secret is ever lost: whatever is sealed in the database is under the *)
(* DB passphrase that the credential file wraps, through crashes, rekeys   *)
(* and requests at the same time, and a stored password can be unsealed by *)
(* whoever unlocked the file - unless two first-time setups collided,      *)
(* which nothing in the code prevents; the verifier is that of the key the *)
(* file is wrapped under; and a consent is exchanged once                  *)
(* (credential_store.rs rekey and file_get_or_create_passphrase, oauth.rs  *)
(* callback).                                                              *)
SecretsOpen ==
  /\ ~collided => ~refused
  /\ ~collided => \A s \in Secret : sealed[s] # None => file.state = "good" /\ sealed[s] = file.db
  /\ file.verify \in {None, file.wrap}
  /\ \A n \in 1..MaxConsents : spent[n] <= 1
=============================================================================
