---------------------------- MODULE FolderProofs ----------------------------
(***************************************************************************)
(* Proofs about the machines that read a folder and write to it: the       *)
(* threading scan, for mail that has a Message-ID, the copy in the Sent    *)
(* folder, the backups of the data directory, the collection of evidence,  *)
(* the restore of an archive and the reading of a folder; for any mail,    *)
(* servers, files and bounds.                                              *)
(***************************************************************************)
EXTENDS ThreadScan, SentCopy, EvidenceBundle, Backups,
        FiniteSetTheorems, SequenceTheorems, NaturalsInduction, TLAPS

-----------------------------------------------------------------------------
(* The threading scan.  Every UID of the folder that was not given up on   *)
(* is still to be processed, has its row, or arrived above everything the  *)
(* scan will reach; the watermark only takes over what the scan has dealt  *)
(* with.                                                                   *)

\* Every mail has a Message-ID.  Without it a message shares rows with
\* others of its thread, and the property does not hold.
EveryMailNamed == \A m \in Mails : Header[m].id

ScanRows ==
  /\ box \in [uidvalidity : Nat, mail : [Uids -> Mails \cup {None}], top : 0..MaxUid]
  /\ sync \in [known : BOOLEAN, last_uid : Nat, uidvalidity : Nat]
  /\ scan \in [step : {"idle", "fetching"}, todo : SUBSET Uids, max_uid : Nat, dirty : SUBSET (1..MaxThreads)]

\* A folder holds a mail once, and nothing above its newest.
FolderSound ==
  /\ \A u, v \in Held : box.mail[u] = box.mail[v] => u = v
  /\ \A u \in Held : u <= box.top

\* A row is known by the Message-ID of its mail.
RowsNamed ==
  \A r \in rows : /\ {"message_id", "mail", "uid", "thread"} \subseteq DOMAIN r
                  /\ r.message_id = r.mail

Threaded(u) == \E r \in rows : r.uid = u /\ r.mail = box.mail[u]

\* What the watermark says belongs to an epoch that began.
EpochsOrdered ==
  /\ sync.uidvalidity <= box.uidvalidity
  /\ sync.known => sync.uidvalidity > 0 \/ box.uidvalidity = 0
  /\ ~sync.known => sync.last_uid = 0

SyncCurrent == sync.known /\ sync.uidvalidity = box.uidvalidity

WatermarkBelow ==
  SyncCurrent => /\ sync.last_uid <= box.top
             /\ \A u \in Held \ skipped : u <= sync.last_uid => Threaded(u)

ScanReaches ==
  scan.step = "fetching" =>
    /\ scan.todo \subseteq Held /\ scan.max_uid <= box.top
    /\ sync.known => SyncCurrent
    /\ \A u \in Held \ skipped :
         \/ u \in scan.todo \/ Threaded(u)
         \/ u > scan.max_uid /\ \A v \in scan.todo : v < u

ScanInv ==
  /\ ScanRows /\ FolderSound /\ RowsNamed /\ EpochsOrdered /\ WatermarkBelow /\ ScanReaches
  /\ scan.step = "idle" => scan = NoScan
  /\ DOMAIN threads = 1..MaxThreads

LEMMA SmallestUid ==
  ASSUME NEW S \in SUBSET Nat, S # {}
  PROVE  Min(S) \in S /\ \A x \in S : Min(S) <= x
<1> DEFINE R == OpToRel(<, Nat)
<1>1. PICK x \in S : \A y \in S : <<y, x>> \notin R
  BY NatLessThanWellFounded, WFMin
<1>2. \A y \in S : <<y, x>> \notin {p \in Nat \X Nat : p[1] < p[2]}
  BY <1>1 DEF OpToRel
<1>3. ASSUME NEW y \in S PROVE x <= y
  <2>1. ~(y < x)
    BY <1>2
  <2>2. QED
    BY <2>1
<1>4. QED
  BY <1>3 DEF Min

LEMMA LargestUid ==
  ASSUME NEW S \in SUBSET Uids, S # {}
  PROVE  Max(S) \in S /\ \A x \in S : x <= Max(S)
<1> DEFINE T == {MaxUid - x : x \in S}
<1>0. MaxUid \in Nat
  BY ScanAssumption
<1>1. T \in SUBSET Nat /\ T # {}
  <2>1. \A x \in S : MaxUid - x \in Nat
    BY <1>0 DEF Uids
  <2> QED
    BY <2>1
<1>2. PICK t \in T : \A y \in T : t <= y
  BY <1>1, SmallestUid
<1>3. PICK m \in S : t = MaxUid - m
  BY <1>2
<1>4. ASSUME NEW x \in S PROVE m >= x
  <2>1. PICK y \in T : y = MaxUid - x
    OBVIOUS
  <2>2. t <= y
    BY <1>2, <2>1
  <2>3. m \in Nat /\ x \in Nat
    BY DEF Uids
  <2>4. QED
    BY <1>0, <1>3, <2>1, <2>2, <2>3
<1>5. Max(S) \in S /\ \A x \in S : Max(S) >= x
  BY <1>4 DEF Max
<1>6. QED
  BY <1>0, <1>5 DEF Uids

LEMMA LargerOfTwo ==
  ASSUME NEW a \in Nat, NEW b \in Nat
  PROVE  Max({a, b}) = IF a >= b THEN a ELSE b
BY DEF Max

LEMMA ScanBounds == MaxUid \in Nat \ {0} /\ MaxEpoch \in Nat \ {0} /\ Window \in Nat \ {0}
BY ScanAssumption

LEMMA UidsAreNumbers == Uids \subseteq Nat /\ Held \subseteq Uids
BY ScanBounds DEF Uids, Held

LEMMA ScanInitInv == ScanInit => ScanInv
<1> SUFFICES ASSUME ScanInit PROVE ScanInv
  OBVIOUS
<1>1. PICK v \in {0, 1} : box = [uidvalidity |-> v, mail |-> [u \in Uids |-> None], top |-> 0]
  BY DEF ScanInit
<1>2. Held = {}
  BY <1>1 DEF Held
<1>3. sync = [known |-> FALSE, last_uid |-> 0, uidvalidity |-> 0]
  BY DEF ScanInit, NoSync
<1>4. sync \in [known : BOOLEAN, last_uid : Nat, uidvalidity : Nat]
  BY <1>3
<1>5. ScanRows
  BY <1>1, <1>4, ScanBounds DEF ScanInit, ScanRows, NoScan
<1>6. EpochsOrdered /\ WatermarkBelow
  BY <1>1, <1>3 DEF EpochsOrdered, WatermarkBelow, SyncCurrent
<1>7. QED
  BY <1>2, <1>5, <1>6 DEF ScanInv, FolderSound, RowsNamed, ScanReaches, ScanInit, NoScan

\* A mail that arrives comes in above everything the scan or the watermark
\* has seen.
LEMMA ArriveKeeps == ScanInv /\ Arrive => ScanInv'
<1> SUFFICES ASSUME ScanInv, Arrive PROVE ScanInv'
  OBVIOUS
<1>1. PICK m \in Mails : /\ \A u \in Held : box.mail[u] # m
                         /\ box' = [box EXCEPT !.mail[box.top + 1] = m, !.top = @ + 1]
  BY DEF Arrive
<1>2. box.top \in Nat /\ box.top < MaxUid /\ box.mail \in [Uids -> Mails \cup {None}]
  BY ScanBounds DEF ScanInv, ScanRows, Arrive
<1>3. PICK n \in Uids : n = box.top + 1
  BY <1>2, ScanBounds DEF Uids
<1>4. box' = [box EXCEPT !.mail = [box.mail EXCEPT ![n] = m], !.top = n]
  BY <1>1, <1>2, <1>3 DEF ScanInv, ScanRows
<1>5. /\ box'.mail = [box.mail EXCEPT ![n] = m] /\ box'.top = n
      /\ box'.uidvalidity = box.uidvalidity
      /\ box' \in [uidvalidity : Nat, mail : [Uids -> Mails \cup {None}], top : 0..MaxUid]
  <2>1. PICK mail : mail = [box.mail EXCEPT ![n] = m]
    OBVIOUS
  <2>2. mail \in [Uids -> Mails \cup {None}] /\ n \in 0..MaxUid
    BY <1>2, <2>1, ScanBounds DEF Uids
  <2>3. box' = [box EXCEPT !.mail = mail, !.top = n]
    BY <1>4, <2>1
  <2>4. QED
    BY <2>1, <2>2, <2>3 DEF ScanInv, ScanRows
<1>6. /\ Held' \subseteq Held \cup {n} /\ Held \subseteq Held' \cup {n} /\ n \notin Held
      /\ \A u \in Held : u # n /\ box'.mail[u] = box.mail[u] /\ u \in Nat /\ u < n /\ u \in Held'
      /\ box'.mail[n] = m
  <2>1. \A u \in Held : u <= box.top /\ u \in Nat /\ u \in Uids
    BY DEF ScanInv, FolderSound, Held, Uids
  <2>2. \A u \in Held : u < n /\ u # n
    BY <1>2, <1>3, <2>1
  <2>3. \A u \in Uids : u # n => box'.mail[u] = box.mail[u]
    BY <1>2, <1>5
  <2>4. box'.mail[n] = m
    BY <1>2, <1>5
  <2>5. QED
    BY <2>1, <2>2, <2>3, <2>4 DEF Held
<1>7. UNCHANGED <<rows, threads, sync, scan, skipped>>
  BY DEF Arrive
<1>8. ScanRows' /\ RowsNamed' /\ EpochsOrdered'
  BY <1>5, <1>7 DEF ScanInv, ScanRows, RowsNamed, EpochsOrdered
<1>9. FolderSound'
  <2>1. ASSUME NEW u \in Held', NEW v \in Held', box'.mail[u] = box'.mail[v] PROVE u = v
    BY <1>1, <1>6, <2>1 DEF ScanInv, FolderSound
  <2>2. \A u \in Held' : u <= n
    BY <1>3, <1>6 DEF Uids
  <2>3. QED
    BY <1>5, <2>1, <2>2 DEF FolderSound
<1>10. \A u \in Held : Threaded(u) => Threaded(u)'
  BY <1>6, <1>7 DEF Threaded
<1>11. WatermarkBelow'
  <2> SUFFICES ASSUME SyncCurrent'
               PROVE  sync.last_uid <= n /\ \A u \in Held' \ skipped : u <= sync.last_uid => Threaded(u)'
    BY <1>5, <1>7 DEF WatermarkBelow
  <2>1. sync.last_uid <= box.top /\ sync.last_uid \in Nat
    BY <1>5, <1>7 DEF ScanInv, ScanRows, WatermarkBelow, SyncCurrent
  <2>2. sync.last_uid < n
    BY <1>2, <1>3, <2>1
  <2>3. ASSUME NEW u \in Held' \ skipped, u <= sync.last_uid PROVE Threaded(u)'
    <3>1. u # n
      BY <1>3, <2>1, <2>2, <2>3 DEF Uids
    <3>2. u \in Held
      BY <1>6, <3>1
    <3>3. Threaded(u)
      BY <1>5, <1>7, <2>3, <3>2 DEF ScanInv, WatermarkBelow, SyncCurrent
    <3>4. QED
      BY <1>10, <3>2, <3>3
  <2>4. n \in Nat /\ sync.last_uid <= n
    BY <1>3, <2>1, <2>2 DEF Uids
  <2>5. QED
    BY <2>3, <2>4
<1>12. ScanReaches'
  <2> SUFFICES ASSUME scan.step = "fetching"
               PROVE  /\ scan.todo \subseteq Held' /\ scan.max_uid <= n
                      /\ sync.known => SyncCurrent'
                      /\ \A u \in Held' \ skipped :
                           \/ u \in scan.todo \/ Threaded(u)'
                           \/ u > scan.max_uid /\ \A v \in scan.todo : v < u
    BY <1>5, <1>7 DEF ScanReaches
  <2>1. scan.todo \subseteq Held /\ scan.max_uid <= box.top /\ scan.max_uid \in Nat
    BY DEF ScanInv, ScanRows, ScanReaches
  <2>2. scan.max_uid < n /\ scan.max_uid <= n
    BY <1>2, <1>3, <2>1
  <2>3. \A v \in scan.todo : v < n
    BY <1>6, <2>1
  <2>4. sync.known => SyncCurrent'
    BY <1>5, <1>7 DEF ScanInv, ScanReaches, SyncCurrent
  <2>5. ASSUME NEW u \in Held' \ skipped
        PROVE  \/ u \in scan.todo \/ Threaded(u)'
               \/ u > scan.max_uid /\ \A v \in scan.todo : v < u
    <3>1. CASE u = n
      BY <2>1, <2>2, <2>3, <3>1 DEF Uids
    <3>2. CASE u \in Held
      BY <1>10, <2>5, <3>2 DEF ScanInv, ScanReaches
    <3>3. QED
      BY <1>6, <3>1, <3>2
  <2>6. QED
    BY <1>6, <2>1, <2>2, <2>4, <2>5
<1>13. QED
  BY <1>7, <1>8, <1>9, <1>11, <1>12 DEF ScanInv

LEMMA ExpungeKeeps == ScanInv /\ Expunge => ScanInv'
<1> SUFFICES ASSUME ScanInv, Expunge PROVE ScanInv'
  OBVIOUS
<1>1. PICK n \in Held \ scan.todo : box' = [box EXCEPT !.mail[n] = None]
  BY DEF Expunge
<1>2. PICK mail : mail = [box.mail EXCEPT ![n] = None]
  OBVIOUS
<1>3. /\ box' = [box EXCEPT !.mail = mail] /\ mail \in [Uids -> Mails \cup {None}]
      /\ \A u \in Uids : u # n => mail[u] = box.mail[u]
      /\ mail[n] = None
  BY <1>1, <1>2 DEF ScanInv, ScanRows, Held
<1>4. /\ box'.mail = mail /\ box'.top = box.top /\ box'.uidvalidity = box.uidvalidity
      /\ box' \in [uidvalidity : Nat, mail : [Uids -> Mails \cup {None}], top : 0..MaxUid]
  BY <1>3 DEF ScanInv, ScanRows
<1>5. Held' = Held \ {n} /\ \A u \in Held' : u \in Held /\ box'.mail[u] = box.mail[u]
  BY <1>3, <1>4 DEF Held
<1>6. UNCHANGED <<rows, threads, sync, scan, skipped>>
  BY DEF Expunge
<1>7. \A u \in Held' : Threaded(u) => Threaded(u)'
  BY <1>5, <1>6 DEF Threaded
<1>8. ScanRows' /\ RowsNamed' /\ EpochsOrdered' /\ FolderSound'
  BY <1>4, <1>5, <1>6 DEF ScanInv, ScanRows, RowsNamed, EpochsOrdered, FolderSound
<1>9. WatermarkBelow'
  BY <1>4, <1>5, <1>6, <1>7 DEF ScanInv, WatermarkBelow, SyncCurrent
<1>10. ScanReaches'
  <2> SUFFICES ASSUME scan.step = "fetching"
               PROVE  /\ scan.todo \subseteq Held' /\ scan.max_uid <= box.top
                      /\ sync.known => SyncCurrent'
                      /\ \A u \in Held' \ skipped :
                           \/ u \in scan.todo \/ Threaded(u)'
                           \/ u > scan.max_uid /\ \A v \in scan.todo : v < u
    BY <1>4, <1>6 DEF ScanReaches
  <2>1. sync.known => SyncCurrent'
    BY <1>4, <1>6 DEF ScanInv, ScanReaches, SyncCurrent
  <2>2. QED
    BY <1>1, <1>5, <1>7, <2>1 DEF ScanInv, ScanReaches
<1>11. QED
  BY <1>6, <1>8, <1>9, <1>10 DEF ScanInv

\* A new epoch puts every watermark out of date.
LEMMA RenumberKeeps == ScanInv /\ Renumber => ScanInv'
<1> SUFFICES ASSUME ScanInv, Renumber PROVE ScanInv'
  OBVIOUS
<1> DEFINE mails == {box.mail[u] : u \in Held}
           n == Cardinality(mails)
<1>1. PICK order \in [1..n -> mails] :
        /\ \A i, j \in DOMAIN order : order[i] = order[j] => i = j
        /\ box' = [uidvalidity |-> box.uidvalidity + 1, top |-> n,
                   mail |-> [u \in Uids |-> IF u \in DOMAIN order THEN order[u] ELSE None]]
  BY DEF Renumber
<1>2. n \in 0..MaxUid
  <2> DEFINE f == [u \in Held |-> box.mail[u]]
  <2>1. IsFiniteSet(Uids) /\ Cardinality(Uids) = MaxUid
    BY FS_Interval, ScanBounds DEF Uids
  <2>2. Held \in SUBSET Uids
    BY DEF Held
  <2>3. IsFiniteSet(Held) /\ Cardinality(Held) <= MaxUid
    BY <2>1, <2>2, FS_Subset
  <2>4. f \in Surjection(Held, mails)
    BY DEF Surjection
  <2>5. IsFiniteSet(mails) /\ n <= Cardinality(Held)
    BY <2>3, <2>4, FS_Surjection
  <2>6. n \in Nat /\ Cardinality(Held) \in Nat
    BY <2>3, <2>5, FS_CardinalityType
  <2>7. QED
    BY <2>3, <2>5, <2>6, ScanBounds
<1>3. mails \subseteq Mails /\ None \notin mails
  BY DEF Held, ScanInv, ScanRows
<1>4. PICK mail : mail = [u \in Uids |-> IF u \in DOMAIN order THEN order[u] ELSE None]
  OBVIOUS
<1>5. mail \in [Uids -> Mails \cup {None}]
  BY <1>1, <1>3, <1>4
<1>6. box' = [uidvalidity |-> box.uidvalidity + 1, top |-> n, mail |-> mail]
  BY <1>1, <1>4
<1>7. box.uidvalidity \in Nat /\ box.uidvalidity + 1 \in Nat
  BY DEF ScanInv, ScanRows
<1>8. /\ box'.mail = mail /\ box'.top = n /\ box'.uidvalidity = box.uidvalidity + 1
      /\ box' \in [uidvalidity : Nat, mail : [Uids -> Mails \cup {None}], top : 0..MaxUid]
  BY <1>2, <1>5, <1>6, <1>7
<1>9. \A u \in Held' : u \in 1..n /\ u \in Uids /\ mail[u] = order[u]
  BY <1>1, <1>4, <1>8 DEF Held
<1>10. UNCHANGED <<rows, threads, sync, scan>> /\ scan = NoScan /\ skipped' = {}
  BY DEF Renumber
<1>11. ScanRows' /\ RowsNamed'
  BY <1>8, <1>10 DEF ScanInv, ScanRows, RowsNamed
<1>12. FolderSound'
  <2>1. \A u, v \in Held' : box'.mail[u] = box'.mail[v] => u = v
    BY <1>1, <1>8, <1>9
  <2>2. \A u \in Held' : u <= box'.top
    BY <1>2, <1>8, <1>9
  <2>3. QED
    BY <2>1, <2>2 DEF FolderSound
<1>13. EpochsOrdered' /\ ~SyncCurrent'
  <2>1. /\ sync.uidvalidity <= box.uidvalidity /\ sync.uidvalidity \in Nat /\ sync' = sync
        /\ sync.known => sync.uidvalidity > 0 \/ box.uidvalidity = 0
        /\ ~sync.known => sync.last_uid = 0
    BY <1>10 DEF ScanInv, ScanRows, EpochsOrdered
  <2>2. box.uidvalidity > 0
    BY <1>7 DEF Renumber
  <2>3. QED
    BY <1>7, <1>8, <2>1, <2>2 DEF EpochsOrdered, SyncCurrent
<1>14. QED
  BY <1>10, <1>11, <1>12, <1>13 DEF ScanInv, WatermarkBelow, ScanReaches, NoScan

\* After selecting the folder the watermark is honest about this epoch, if
\* there is one.
LEMMA SelectedFolder ==
  ASSUME ScanInv, Reconciled, UNCHANGED <<box, skipped>>
  PROVE  /\ sync' \in [known : BOOLEAN, last_uid : Nat, uidvalidity : Nat]
         /\ RowsNamed' /\ EpochsOrdered'
         /\ sync'.known => SyncCurrent'
         /\ WatermarkBelow'
<1>1. /\ sync \in [known : BOOLEAN, last_uid : Nat, uidvalidity : Nat]
      /\ box.uidvalidity \in Nat /\ box.top \in Nat
      /\ sync.uidvalidity <= box.uidvalidity
      /\ sync.known => sync.uidvalidity > 0 \/ box.uidvalidity = 0
      /\ ~sync.known => sync.last_uid = 0
  BY ScanBounds DEF ScanInv, ScanRows, EpochsOrdered
<1>2. Held' = Held /\ box' = box
  BY DEF Held
<1>3. CASE UNCHANGED <<rows, sync>> /\ (box.uidvalidity = 0 \/ (sync.known /\ sync.uidvalidity = box.uidvalidity))
  <2>1. sync.known => sync.uidvalidity = box.uidvalidity
    BY <1>1, <1>3
  <2>2. WatermarkBelow'
    BY <1>2, <1>3 DEF ScanInv, WatermarkBelow, SyncCurrent, Threaded
  <2>3. RowsNamed' /\ EpochsOrdered'
    BY <1>2, <1>3 DEF ScanInv, RowsNamed, EpochsOrdered
  <2>4. sync'.known => SyncCurrent'
    BY <1>2, <1>3, <2>1 DEF SyncCurrent
  <2>5. QED
    BY <1>1, <1>3, <2>2, <2>3, <2>4
<1>4. CASE box.uidvalidity # 0 /\ sync'.known = TRUE /\ sync'.last_uid = 0
           /\ sync'.uidvalidity = box.uidvalidity /\ (rows' = rows \/ rows' = {})
           /\ sync' \in [known : BOOLEAN, last_uid : Nat, uidvalidity : Nat]
  <2>1. RowsNamed'
    BY <1>4 DEF ScanInv, RowsNamed
  <2>2. EpochsOrdered'
    BY <1>1, <1>2, <1>4 DEF EpochsOrdered
  <2>3. SyncCurrent'
    BY <1>2, <1>4 DEF SyncCurrent
  <2>4. \A u \in Held' : ~(u <= sync'.last_uid)
    BY <1>4 DEF Held, Uids
  <2>5. WatermarkBelow'
    BY <1>1, <1>2, <1>4, <2>4 DEF WatermarkBelow
  <2>6. QED
    BY <1>4, <2>1, <2>2, <2>3, <2>5
<1>5. CASE reset_folder_sync /\ box.uidvalidity # 0
  <2>1. sync' = [known |-> TRUE, last_uid |-> 0, uidvalidity |-> box.uidvalidity] /\ rows' = {}
    BY <1>5 DEF reset_folder_sync
  <2>2. sync' \in [known : BOOLEAN, last_uid : Nat, uidvalidity : Nat]
    BY <1>1, <2>1
  <2>3. sync'.known = TRUE /\ sync'.last_uid = 0 /\ sync'.uidvalidity = box.uidvalidity
    BY <2>1
  <2>4. QED
    BY <1>4, <1>5, <2>1, <2>2, <2>3
<1>6. CASE /\ box.uidvalidity # 0 /\ ~(sync.known /\ sync.uidvalidity # 0)
           /\ sync' = set_uidvalidity(sync) /\ rows' = rows
  <2>1. ~sync.known /\ sync.last_uid = 0
    BY <1>1, <1>6
  <2>2. sync' = [sync EXCEPT !.known = TRUE, !.uidvalidity = box.uidvalidity]
    BY <1>6 DEF set_uidvalidity
  <2>3. sync'.known = TRUE /\ sync'.last_uid = 0 /\ sync'.uidvalidity = box.uidvalidity
    BY <1>1, <2>1, <2>2
  <2>4. sync' \in [known : BOOLEAN, last_uid : Nat, uidvalidity : Nat]
    BY <1>1, <2>2
  <2>5. QED
    BY <1>4, <1>6, <2>3, <2>4
<1>7. QED
  BY <1>1, <1>3, <1>5, <1>6 DEF Reconciled

\* What a fetch leaves out was threaded, or is given up in the first window.
LEMMA StartKeeps == ScanInv /\ scan_folder_for_threads => ScanInv'
<1> SUFFICES ASSUME ScanInv, scan_folder_for_threads PROVE ScanInv'
  OBVIOUS
<1>1. /\ scan = NoScan /\ Held # {} /\ Reconciled /\ box' = box
      /\ scan' = [NoScan EXCEPT !.step = "fetching", !.todo = FetchQuery(sync')]
      /\ skipped' = IF sync'.known THEN skipped ELSE skipped \cup (Held \ FetchQuery(sync'))
  BY DEF scan_folder_for_threads
<1>2. Held \subseteq Uids /\ Held' = Held
  BY <1>1 DEF Held
<1>3. Max(Held) \in Held
  BY <1>1, <1>2, LargestUid
<1>4. PICK todo : todo = FetchQuery(sync')
  OBVIOUS
<1>5. todo \subseteq Held
  BY <1>3, <1>4 DEF FetchQuery
<1>6. /\ scan' = [step |-> "fetching", todo |-> todo, max_uid |-> 0, dirty |-> {}]
  BY <1>1, <1>4 DEF NoScan
<1>7. /\ sync' \in [known : BOOLEAN, last_uid : Nat, uidvalidity : Nat]
      /\ RowsNamed' /\ EpochsOrdered'
      /\ sync'.known => SyncCurrent'
      /\ sync'.known =>
           /\ sync'.last_uid <= box.top
           /\ \A u \in Held \ skipped : u <= sync'.last_uid => Threaded(u)'
  <2>1. DOMAIN sync = {"known", "last_uid", "uidvalidity"}
    BY DEF ScanInv, ScanRows
  <2>2. CASE sync'.known
    <3>1. UNCHANGED <<box, skipped>>
      BY <1>1, <2>2
    <3>2. QED
      BY <1>1, <1>2, <3>1, SelectedFolder DEF WatermarkBelow
  <2>3. CASE ~sync'.known
    <3>1. UNCHANGED <<rows, sync>>
      <4>1. ~reset_folder_sync
        BY <2>3 DEF reset_folder_sync
      <4>2. sync' # set_uidvalidity(sync)
        <5>1. set_uidvalidity(sync).known = TRUE
          BY <2>1 DEF set_uidvalidity
        <5>2. QED
          BY <2>3, <5>1
      <4>3. QED
        BY <1>1, <4>1, <4>2 DEF Reconciled
    <3>2. QED
      BY <1>1, <2>3, <3>1 DEF ScanInv, ScanRows, RowsNamed, EpochsOrdered
  <2>4. QED
    BY <2>2, <2>3
<1>8. WatermarkBelow'
  BY <1>1, <1>2, <1>7 DEF WatermarkBelow, SyncCurrent
<1>9. ScanRows'
  BY <1>1, <1>2, <1>5, <1>6, <1>7 DEF ScanInv, ScanRows
<1>10. ScanReaches'
  <2>1. ASSUME NEW u \in Held' \ skipped', u \notin todo PROVE Threaded(u)'
    <3>1. sync'.known
      BY <1>1, <1>2, <1>4, <2>1
    <3>2. ~(u > sync'.last_uid)
      BY <1>2, <1>4, <2>1, <3>1 DEF FetchQuery
    <3>3. u \in Nat /\ sync'.last_uid \in Nat
      BY <1>2, <1>7, <2>1 DEF Uids
    <3>4. u <= sync'.last_uid
      BY <3>2, <3>3
    <3>5. QED
      BY <1>1, <1>2, <1>7, <2>1, <3>1, <3>4
  <2>2. scan'.max_uid <= box'.top
    <3>1. box.top \in 0..MaxUid
      BY DEF ScanInv, ScanRows
    <3>2. box'.top = box.top
      BY <1>1, Zenon
    <3>3. scan'.max_uid = 0
      BY <1>6
    <3>4. QED
      BY <3>1, <3>2, <3>3, ScanBounds
  <2>3. QED
    BY <1>2, <1>5, <1>6, <1>7, <2>1, <2>2 DEF ScanReaches
<1>11. FolderSound'
  BY <1>1, <1>2 DEF ScanInv, FolderSound
<1>12. DOMAIN threads' = 1..MaxThreads
  BY <1>1 DEF ScanInv, Reconciled, reset_folder_sync
<1>13. QED
  BY <1>6, <1>7, <1>8, <1>9, <1>10, <1>11, <1>12 DEF ScanInv

\* The row of a message is found by its Message-ID: no other message of the
\* folder loses its own.
LEMMA RowTaken ==
  ASSUME EveryMailNamed, ScanInv, NEW u \in Held, NEW t \in 1..MaxThreads,
         upsert_thread_message(box.mail[u], u, t), box' = box
  PROVE  RowsNamed' /\ Threaded(u)' /\ \A v \in Held : Threaded(v) => Threaded(v)'
<1>1. PICK m \in Mails : m = box.mail[u]
  BY DEF ScanInv, ScanRows, Held
<1>2. Header[m].id /\ OwnId(m) = m
  BY DEF EveryMailNamed, OwnId
<1>3. \A v \in Held : box.mail[v] = m => v = u
  BY <1>1 DEF ScanInv, FolderSound
<1> DEFINE known == {r \in rows : r.message_id = m}
<1>4. CASE known = {}
  <2>1. PICK i : i = Max({r.id : r \in rows} \cup {0}) + 1
    OBVIOUS
  <2>2. PICK new : new = [id |-> i, message_id |-> m, mail |-> m, uid |-> u, thread |-> t]
    OBVIOUS
  <2>3. rows' = rows \cup {new}
    BY <1>1, <1>2, <1>4, <2>1, <2>2 DEF upsert_thread_message
  <2>4. RowsNamed'
    BY <2>2, <2>3 DEF ScanInv, RowsNamed
  <2>5. QED
    BY <1>1, <2>2, <2>3, <2>4 DEF Threaded
<1>5. CASE known # {}
  <2>1. PICK r \in known : rows' = (rows \ {r}) \cup {[r EXCEPT !.mail = m, !.uid = u, !.thread = t]}
    BY <1>1, <1>2, <1>5 DEF upsert_thread_message
  <2>2. PICK new : new = [r EXCEPT !.mail = m, !.uid = u, !.thread = t]
    OBVIOUS
  <2>3. /\ r \in rows /\ r.message_id = m /\ r.mail = m
        /\ {"message_id", "mail", "uid", "thread"} \subseteq DOMAIN r
    BY DEF ScanInv, RowsNamed
  <2>4. DOMAIN new = DOMAIN r /\ new.message_id = m /\ new.mail = m /\ new.uid = u
    BY <2>2, <2>3
  <2>5. rows' = (rows \ {r}) \cup {new}
    BY <2>1, <2>2
  <2>6. RowsNamed'
    BY <2>3, <2>4, <2>5 DEF ScanInv, RowsNamed
  <2>7. Threaded(u)'
    BY <1>1, <2>4, <2>5 DEF Threaded
  <2>8. ASSUME NEW v \in Held, Threaded(v) PROVE Threaded(v)'
    <3>1. CASE v = u
      BY <2>7, <3>1
    <3>2. CASE v # u
      BY <1>3, <2>3, <2>5, <2>8, <3>2 DEF Threaded
    <3>3. QED
      BY <3>1, <3>2
  <2>9. QED
    BY <2>6, <2>7, <2>8
<1>6. QED
  BY <1>4, <1>5

\* The message processed is the lowest still to do: it is threaded, or given
\* up on, and what the scan will not reach stays above it.
LEMMA FetchedKeeps ==
  ASSUME EveryMailNamed, ScanInv, process_fetched_message
  PROVE  ScanInv'
<1>1. scan.step = "fetching" /\ scan.todo # {} /\ scan.todo \subseteq Held /\ Held \subseteq Uids
  <2>1. Held \subseteq Uids /\ scan.todo # {}
    BY DEF process_fetched_message, Held
  <2>2. scan # NoScan
    BY <2>1 DEF NoScan
  <2>3. scan.step \in {"idle", "fetching"}
    BY DEF ScanInv, ScanRows
  <2>4. scan.step = "fetching"
    BY <2>2, <2>3 DEF ScanInv
  <2>5. QED
    BY <2>1, <2>4 DEF ScanInv, ScanReaches
<1>2. PICK u \in scan.todo : u = Min(scan.todo) /\ \A v \in scan.todo : u <= v
  <2>1. scan.todo \in SUBSET Nat
    BY <1>1, UidsAreNumbers
  <2>2. QED
    BY <1>1, <2>1, SmallestUid
<1>3. PICK top : top = Max({scan.max_uid, u})
  OBVIOUS
<1>4. /\ scan.max_uid \in Nat /\ u \in Nat /\ box.top \in Nat /\ u \in Held /\ u <= box.top
      /\ scan.max_uid <= box.top
  BY <1>1, <1>2, ScanBounds DEF ScanInv, ScanRows, ScanReaches, FolderSound, Uids
<1>5. top = (IF scan.max_uid >= u THEN scan.max_uid ELSE u)
  BY <1>3, <1>4, LargerOfTwo
<1>6. top \in Nat /\ top <= box.top /\ (top = u \/ top = scan.max_uid)
  BY <1>4, <1>5
<1>7. PICK todo : todo = scan.todo \ {u}
  OBVIOUS
<1>8. UNCHANGED <<box, sync>> /\ Held' = Held
  BY DEF process_fetched_message, Held
<1>9. ASSUME /\ scan'.todo = todo /\ scan'.max_uid = top /\ scan'.step = "fetching"
             /\ scan' \in [step : {"idle", "fetching"}, todo : SUBSET Uids, max_uid : Nat,
                           dirty : SUBSET (1..MaxThreads)]
             /\ skipped \subseteq skipped' /\ (u \in skipped' \/ Threaded(u)')
             /\ \A v \in Held : Threaded(v) => Threaded(v)'
             /\ RowsNamed' /\ DOMAIN threads' = 1..MaxThreads
      PROVE  ScanInv'
  <2>1. ScanRows' /\ FolderSound' /\ EpochsOrdered'
    BY <1>8, <1>9 DEF ScanInv, ScanRows, FolderSound, EpochsOrdered
  <2>2. WatermarkBelow'
    BY <1>8, <1>9 DEF ScanInv, WatermarkBelow, SyncCurrent
  <2>3. ASSUME NEW v \in Held' \ skipped'
        PROVE  \/ v \in todo \/ Threaded(v)'
               \/ v > top /\ \A w \in todo : w < v
    <3>1. v \in Held \ skipped /\ v \in Nat
      BY <1>1, <1>8, <1>9, <2>3, UidsAreNumbers
    <3>2. CASE v = u
      BY <1>9, <2>3, <3>2
    <3>3. CASE v \in scan.todo /\ v # u
      BY <1>7, <3>3
    <3>4. CASE Threaded(v)
      BY <1>9, <3>1, <3>4
    <3>5. CASE v > scan.max_uid /\ \A w \in scan.todo : w < v
      BY <1>2, <1>6, <1>7, <3>5
    <3>6. QED
      BY <1>1, <3>1, <3>2, <3>3, <3>4, <3>5 DEF ScanInv, ScanReaches
  <2>4. sync'.known => SyncCurrent'
    BY <1>1, <1>8 DEF ScanInv, ScanReaches, SyncCurrent
  <2>5. ScanReaches'
    BY <1>1, <1>6, <1>7, <1>8, <1>9, <2>3, <2>4 DEF ScanReaches
  <2>6. QED
    BY <1>9, <2>1, <2>2, <2>5 DEF ScanInv
<1>10. CASE \E found \in ThreadOf(box.mail[u]), t \in DOMAIN threads :
              /\ IF found # None THEN t = found /\ UNCHANGED threads
                 ELSE /\ threads[t].subject = None
                      /\ threads' = [threads EXCEPT ![t].subject = Header[box.mail[u]].subject]
              /\ upsert_thread_message(box.mail[u], u, t)
              /\ scan' = [scan EXCEPT !.todo = @ \ {u}, !.max_uid = Max({@, u}), !.dirty = @ \cup {t}]
              /\ UNCHANGED <<skipped, faults>>
  <2>1. PICK t \in DOMAIN threads :
              /\ \/ UNCHANGED threads
                 \/ threads' = [threads EXCEPT ![t].subject = Header[box.mail[u]].subject]
              /\ upsert_thread_message(box.mail[u], u, t)
              /\ scan' = [scan EXCEPT !.todo = @ \ {u}, !.max_uid = Max({@, u}), !.dirty = @ \cup {t}]
              /\ UNCHANGED skipped
    BY <1>10
  <2>2. t \in 1..MaxThreads /\ DOMAIN threads' = 1..MaxThreads
    BY <2>1 DEF ScanInv
  <2>3. /\ scan'.todo = todo /\ scan'.max_uid = top /\ scan'.step = "fetching"
        /\ scan' \in [step : {"idle", "fetching"}, todo : SUBSET Uids, max_uid : Nat,
                      dirty : SUBSET (1..MaxThreads)]
    <3>1. PICK dirty : dirty = scan.dirty \cup {t}
      OBVIOUS
    <3>2. scan' = [scan EXCEPT !.todo = todo, !.max_uid = top, !.dirty = dirty]
      BY <1>3, <1>7, <2>1, <3>1 DEF ScanInv, ScanRows
    <3>3. dirty \subseteq 1..MaxThreads /\ todo \subseteq Uids
      BY <1>1, <1>7, <2>2, <3>1 DEF ScanInv, ScanRows
    <3>4. QED
      BY <1>1, <1>6, <3>2, <3>3 DEF ScanInv, ScanRows
  <2>4. RowsNamed' /\ Threaded(u)' /\ \A v \in Held : Threaded(v) => Threaded(v)'
    BY <1>4, <1>8, <2>1, <2>2, RowTaken
  <2>5. QED
    BY <1>9, <2>1, <2>2, <2>3, <2>4
<1>11. CASE /\ scan' = [scan EXCEPT !.todo = @ \ {u}, !.max_uid = Max({@, u})]
            /\ skipped' = skipped \cup {u}
            /\ UNCHANGED <<rows, threads>>
  <2>1. scan' = [scan EXCEPT !.todo = todo, !.max_uid = top]
    BY <1>3, <1>7, <1>11 DEF ScanInv, ScanRows
  <2>2. /\ scan'.todo = todo /\ scan'.max_uid = top /\ scan'.step = "fetching"
        /\ scan' \in [step : {"idle", "fetching"}, todo : SUBSET Uids, max_uid : Nat,
                      dirty : SUBSET (1..MaxThreads)]
    BY <1>1, <1>6, <1>7, <2>1 DEF ScanInv, ScanRows
  <2>3. RowsNamed' /\ \A v \in Held : Threaded(v) => Threaded(v)'
    BY <1>8, <1>11 DEF ScanInv, RowsNamed, Threaded
  <2>4. QED
    BY <1>9, <1>11, <2>2, <2>3 DEF ScanInv
<1>12. QED
  BY <1>2, <1>10, <1>11 DEF process_fetched_message

\* At the end nothing is still to be processed: what is not threaded lies
\* above the highest UID of the stream.
LEMMA ScannedKeeps == ScanInv /\ Scanned => ScanInv'
<1> SUFFICES ASSUME ScanInv, Scanned PROVE ScanInv'
  OBVIOUS
<1>1. /\ scan.step = "fetching" /\ scan.todo = {} /\ scan' = NoScan
      /\ UNCHANGED <<box, rows, skipped>> /\ Held' = Held
  BY DEF Scanned, Held
<1>2. DOMAIN threads' = 1..MaxThreads
  BY DEF ScanInv, Scanned, refresh_thread_stats
<1>3. /\ scan.max_uid \in Nat /\ scan.max_uid <= box.top /\ box.uidvalidity \in Nat
      /\ sync \in [known : BOOLEAN, last_uid : Nat, uidvalidity : Nat]
      /\ sync.uidvalidity <= box.uidvalidity
  BY <1>1 DEF ScanInv, ScanRows, ScanReaches, EpochsOrdered
<1>4. PICK marked : marked = [sync EXCEPT !.known = TRUE, !.last_uid = scan.max_uid]
  OBVIOUS
<1>5. sync' = IF box.uidvalidity > 0 THEN [marked EXCEPT !.known = TRUE, !.uidvalidity = box.uidvalidity]
              ELSE marked
  BY <1>4 DEF Scanned, set_uidvalidity, set_last_synced_uid
<1>6. /\ marked \in [known : BOOLEAN, last_uid : Nat, uidvalidity : Nat]
      /\ marked.known = TRUE /\ marked.last_uid = scan.max_uid /\ marked.uidvalidity = sync.uidvalidity
  BY <1>3, <1>4
<1>7. /\ sync' \in [known : BOOLEAN, last_uid : Nat, uidvalidity : Nat]
      /\ sync'.known = TRUE /\ sync'.last_uid = scan.max_uid /\ sync'.uidvalidity = box.uidvalidity
  <2>1. CASE box.uidvalidity > 0
    BY <1>3, <1>5, <1>6, <2>1
  <2>2. CASE ~(box.uidvalidity > 0)
    BY <1>3, <1>5, <1>6, <2>2
  <2>3. QED
    BY <2>1, <2>2
<1>8. EpochsOrdered'
  BY <1>1, <1>3, <1>7 DEF EpochsOrdered
<1>9. ASSUME NEW u \in Held' \ skipped', u <= sync'.last_uid PROVE Threaded(u)'
  <2>1. u \in Held \ skipped /\ u \in Nat /\ u <= scan.max_uid
    BY <1>1, <1>7, <1>9 DEF Held, Uids
  <2>2. Threaded(u)
    BY <1>1, <1>3, <2>1 DEF ScanInv, ScanReaches
  <2>3. QED
    BY <1>1, <2>2 DEF Threaded
<1>10. WatermarkBelow'
  BY <1>1, <1>3, <1>7, <1>9 DEF WatermarkBelow
<1>11. ScanRows' /\ FolderSound' /\ RowsNamed'
  BY <1>1, <1>7 DEF ScanInv, ScanRows, FolderSound, RowsNamed, NoScan
<1>12. QED
  BY <1>1, <1>2, <1>8, <1>10, <1>11 DEF ScanInv, ScanReaches, NoScan

LEMMA ScanLostKeeps == ScanInv /\ ScanLost => ScanInv'
<1> SUFFICES ASSUME ScanInv, ScanLost PROVE ScanInv'
  OBVIOUS
<1>1. scan' = NoScan /\ UNCHANGED <<box, rows, threads, sync, skipped>> /\ Held' = Held
  BY DEF ScanLost, Held
<1>2. ScanRows' /\ FolderSound' /\ RowsNamed' /\ EpochsOrdered'
  BY <1>1 DEF ScanInv, ScanRows, FolderSound, RowsNamed, EpochsOrdered, NoScan
<1>3. WatermarkBelow'
  BY <1>1 DEF ScanInv, WatermarkBelow, SyncCurrent, Threaded
<1>4. QED
  BY <1>1, <1>2, <1>3 DEF ScanInv, ScanReaches, NoScan

LEMMA ClearKeeps == ScanInv /\ clear_last_synced_uid => ScanInv'
<1> SUFFICES ASSUME ScanInv, clear_last_synced_uid PROVE ScanInv'
  OBVIOUS
<1>1. /\ UNCHANGED <<box, rows, threads, scan, skipped>> /\ Held' = Held /\ scan = NoScan
      /\ sync' = [known |-> FALSE, last_uid |-> 0, uidvalidity |-> 0]
  BY DEF clear_last_synced_uid, Held, NoSync
<1>2. /\ sync'.known = FALSE /\ sync'.last_uid = 0 /\ sync'.uidvalidity = 0
      /\ sync' \in [known : BOOLEAN, last_uid : Nat, uidvalidity : Nat]
  BY <1>1
<1>3. ScanRows' /\ FolderSound' /\ RowsNamed'
  BY <1>1, <1>2 DEF ScanInv, ScanRows, FolderSound, RowsNamed
<1>4. EpochsOrdered' /\ WatermarkBelow'
  BY <1>1, <1>2 DEF ScanInv, ScanRows, EpochsOrdered, WatermarkBelow, SyncCurrent
<1>5. QED
  BY <1>1, <1>3, <1>4 DEF ScanInv, ScanReaches, NoScan

LEMMA ScanStutters == ScanInv /\ UNCHANGED scan_vars => ScanInv'
BY DEF ScanInv, ScanRows, FolderSound, RowsNamed, EpochsOrdered, WatermarkBelow, ScanReaches, SyncCurrent,
       Threaded, Held, scan_vars

\* For mail that has a Message-ID, no message falls below the watermark of
\* its folder without a row, except one a scan gave up on: however arrivals,
\* renumbered folders, lost scans and rebuilds interleave with the scans.
THEOREM NothingBelowWatermark ==
  ASSUME EveryMailNamed
  PROVE  ScanSpec => []WatermarkHonest
<1>1. ScanInv /\ [ScanNext]_scan_vars => ScanInv'
  <2> SUFFICES ASSUME ScanInv, [ScanNext]_scan_vars PROVE ScanInv'
    OBVIOUS
  <2>1. CASE Arrive
    BY <2>1, ArriveKeeps
  <2>2. CASE Expunge
    BY <2>2, ExpungeKeeps
  <2>3. CASE Renumber
    BY <2>3, RenumberKeeps
  <2>4. CASE scan_folder_for_threads
    BY <2>4, StartKeeps
  <2>5. CASE process_fetched_message
    BY <2>5, FetchedKeeps
  <2>6. CASE Scanned
    BY <2>6, ScannedKeeps
  <2>7. CASE ScanLost
    BY <2>7, ScanLostKeeps
  <2>8. CASE clear_last_synced_uid
    BY <2>8, ClearKeeps
  <2>9. CASE UNCHANGED scan_vars
    BY <2>9, ScanStutters
  <2>10. QED
    BY <2>1, <2>2, <2>3, <2>4, <2>5, <2>6, <2>7, <2>8, <2>9 DEF ScanNext, build_threads
<1>2. ScanInv => WatermarkHonest
  BY DEF ScanInv, WatermarkBelow, WatermarkHonest, SyncCurrent, Threaded
<1>3. QED
  BY <1>1, <1>2, ScanInitInv, PTL DEF ScanSpec

-----------------------------------------------------------------------------
(* The copy in the Sent folder.  Of the mail on the server only drafts go  *)
(* away, so that a copy somebody saw stays; and the client appends before  *)
(* its second lookup only, once its first found nothing.                   *)

CopyTask(c) ==
  c \in [step : {"idle", "lookup", "trying", "append", "resolved", "recorded", "lost"},
         again : BOOLEAN, folder : {c.folder}, tries : {c.tries}, status : {c.status}, uid : {c.uid},
         attempted : BOOLEAN, appended : BOOLEAN, early : BOOLEAN]

MailSound ==
  /\ IsFiniteSet(stored \cup removed)
  /\ \A m \in stored \cup removed : m.uid \in 1..Cardinality(stored \cup removed)
  /\ \A m, n \in stored \cup removed : m.uid = n.uid => m = n
  /\ \A m \in removed : m.id = "draft"
  /\ \A m \in stored : m.by = "client" => m.id = "ours"
  /\ \A m, n \in stored : m.by = "client" /\ n.by = "client" => m = n
  /\ cleaning # None => cleaning \in stored \cup removed /\ cleaning.id = "draft"

\* The message is on the server, as a search that ended said.
OursAt(place) == \E m \in stored : m.folder = place /\ m.id = "ours"
OursIs(uid, place) == \E m \in stored : m.uid = uid /\ m.folder = place /\ m.id = "ours"
ClientHas == \E m \in stored : m.by = "client"

\* What a lookup under way knows of the server.
CopyTaskSound(c) ==
  /\ CopyTask(c)
  /\ c.again = c.attempted
  /\ c.again => ~c.early /\ c.step \notin {"idle", "append"}
  /\ ~c.again => ~ClientHas
  /\ ~c.again /\ c.step \in {"idle", "lookup", "append"} => ~c.early
  /\ c.step = "trying" /\ c.early => OursAt(c.folder)
  /\ c.appended => ClientHas
  /\ c.step \in {"idle", "lookup", "trying", "append"} => c.uid = None
  /\ c.uid # None => OursIs(c.uid, c.folder)

ProofSound ==
  proof # None => /\ proof.uid # None => OursIs(proof.uid, proof.folder)
                  /\ proof.copy_source = "client_appended" => ClientHas

SentCopyInv == MailSound /\ CopyTaskSound(copying) /\ ProofSound

\* Mail only grows, but for drafts that cleanup takes away.
MailKept ==
  /\ \A m \in stored : m.id = "ours" => m \in stored'
  /\ \A m \in stored' : m.by = "client" => m \in stored

LEMMA KnowledgeKept ==
  ASSUME MailSound, MailKept
  PROVE  /\ \A place : OursAt(place) => OursAt(place)'
         /\ \A uid, place : OursIs(uid, place) => OursIs(uid, place)'
         /\ ClientHas <=> ClientHas'
BY DEF MailSound, MailKept, OursAt, OursIs, ClientHas

\* A step that does not look, append or record.
LEMMA OthersKeep ==
  ASSUME SentCopyInv, MailKept, UNCHANGED <<copying, proof>>
  PROVE  CopyTaskSound(copying)' /\ ProofSound'
<1>1. CopyTaskSound(copying) /\ MailSound
  BY DEF SentCopyInv
<1>2. CopyTaskSound(copying)'
  BY <1>1, KnowledgeKept DEF CopyTaskSound, CopyTask
<1>3. ProofSound'
  BY <1>1, KnowledgeKept DEF SentCopyInv, ProofSound
<1> QED BY <1>2, <1>3

LEMMA NothingMoves ==
  ASSUME SentCopyInv, UNCHANGED <<stored, removed, cleaning, copying, proof>>
  PROVE  SentCopyInv'
<1>1. MailSound' /\ MailKept
  BY DEF SentCopyInv, MailSound, MailKept
<1> QED BY <1>1, OthersKeep DEF SentCopyInv

\* A message is put in a folder under a number of its own.
LEMMA MailPut ==
  ASSUME MailSound, NEW place, NEW by, NEW message,
         by = "client" => ~ClientHas /\ message.id = "ours",
         stored' = Put(place, by, message), UNCHANGED <<removed, cleaning>>
  PROVE  /\ MailSound'
         /\ \A m \in stored : m \in stored'
         /\ by # "client" => MailKept
         /\ by = "client" => ClientHas'
<1> DEFINE all == stored \cup removed
<1>0. PICK k \in Nat : k = Cardinality(all)
  BY FS_CardinalityType DEF MailSound
<1> DEFINE new == [uid |-> k + 1, folder |-> place, by |-> by, id |-> message.id, bcc |-> message.bcc]
<1>1. stored' = stored \cup {new} /\ stored' \cup removed' = all \cup {new}
  BY <1>0 DEF Put
<1>2. IsFiniteSet(all) /\ \A m \in all : m.uid \in 1..k
  BY <1>0 DEF MailSound
<1>3. new.uid = k + 1 /\ new.folder = place /\ new.by = by /\ new.id = message.id
  OBVIOUS
<1> HIDE DEF new
<1>4. \A m \in all : m.uid # k + 1
  <2>1. k + 1 \notin 1..k
    OBVIOUS
  <2> QED BY <1>2, <2>1
<1>5. new \notin all
  BY <1>3, <1>4
<1>6. IsFiniteSet(all \cup {new}) /\ Cardinality(all \cup {new}) = k + 1
  <2> HIDE DEF all
  <2> QED BY <1>0, <1>2, <1>5, FS_AddElement
<1>7. \A m \in all \cup {new} : m.uid \in 1..(k + 1)
  <2>1. \A i \in 1..k : i \in 1..(k + 1)
    OBVIOUS
  <2>2. k + 1 \in 1..(k + 1)
    OBVIOUS
  <2> QED BY <1>2, <1>3, <2>1, <2>2
<1>8. \A m, j \in all \cup {new} : m.uid = j.uid => m = j
  BY <1>3, <1>4 DEF MailSound
<1>9. \A m \in stored' : m.by = "client" => m.id = "ours"
  BY <1>1, <1>3 DEF MailSound
<1>10. \A m, j \in stored' : m.by = "client" /\ j.by = "client" => m = j
  BY <1>1, <1>3 DEF MailSound, ClientHas
<1>11. cleaning' # None => cleaning' \in stored' \cup removed' /\ cleaning'.id = "draft"
  BY <1>1 DEF MailSound
<1>12. MailSound'
  <2> HIDE DEF all
  <2>1. stored' \cup removed' = all \cup {new} /\ Cardinality(stored' \cup removed') = k + 1
    BY <1>1, <1>6
  <2>2. \A m \in removed' : m.id = "draft"
    BY DEF MailSound
  <2> QED BY <2>1, <2>2, <1>6, <1>7, <1>8, <1>9, <1>10, <1>11 DEF MailSound
<1> QED BY <1>1, <1>3, <1>12 DEF MailKept, ClientHas

LEMMA SentCopyInvInit == ASSUME SentCopyInit PROVE SentCopyInv
<1>1. MailSound
  BY FS_EmptySet DEF SentCopyInit, MailSound
<1>2. CopyTaskSound(copying)
  BY DEF SentCopyInit, CopyTaskSound, CopyTask, ClientHas
<1>3. ProofSound
  BY DEF SentCopyInit, ProofSound
<1> QED BY <1>1, <1>2, <1>3 DEF SentCopyInv

LEMMA MailComes ==
  ASSUME SentCopyInv, MailArrives \/ DraftAppended \/ ProviderFiles
  PROVE  SentCopyInv'
<1>1. PICK place, by, message : by # "client" /\ stored' = Put(place, by, message)
  BY DEF MailArrives, DraftAppended, ProviderFiles
<1>2. UNCHANGED <<copying, proof, removed, cleaning>>
  BY DEF MailArrives, DraftAppended, ProviderFiles
<1>3. MailSound' /\ MailKept
  BY <1>1, <1>2, MailPut DEF SentCopyInv
<1> QED BY <1>2, <1>3, OthersKeep DEF SentCopyInv

LEMMA DraftsCleaned ==
  ASSUME SentCopyInv, LocateDraft \/ delete_provider_draft_exact
  PROVE  SentCopyInv'
<1>0. MailSound
  BY DEF SentCopyInv
<1>1. CASE LocateDraft
  <2> DEFINE matches == find_exact_message_id_match(resolve_draft_cleanup_target, "draft")
  <2>1. Cardinality(matches) = 1 /\ cleaning' = CHOOSE m \in matches : TRUE
    BY <1>1 DEF LocateDraft
  <2>2. \A m \in matches : m \in stored /\ m.id = "draft"
    BY DEF find_exact_message_id_match, message_id_search
  <2> HIDE DEF matches
  <2>3. cleaning' \in matches
    BY <2>1, FS_EmptySet
  <2>4. UNCHANGED <<stored, removed, copying, proof>>
    BY <1>1 DEF LocateDraft
  <2>5. MailSound' /\ MailKept
    BY <1>0, <2>2, <2>3, <2>4 DEF MailSound, MailKept
  <2> QED BY <2>4, <2>5, OthersKeep DEF SentCopyInv
<1>2. CASE delete_provider_draft_exact
  <2>1. /\ stored' = {m \in stored : m.folder # cleaning.folder \/ m.uid # cleaning.uid}
        /\ removed' = removed \cup (stored \ stored') /\ cleaning # None /\ cleaning' = None
        /\ UNCHANGED <<copying, proof>>
    BY <1>2 DEF delete_provider_draft_exact
  <2>2. stored' \cup removed' = stored \cup removed
    BY <2>1
  <2>3. \A m \in stored \ stored' : m.id = "draft"
    BY <1>0, <2>1 DEF MailSound
  <2>4. MailSound'
    <3>1. cleaning' = None /\ stored' \subseteq stored
      BY <2>1
    <3>2. \A m \in removed' : m \in removed \/ m.id = "draft"
      BY <2>1, <2>3
    <3> QED BY <1>0, <2>2, <3>1, <3>2 DEF MailSound
  <2>5. MailKept
    BY <2>1, <2>3 DEF MailKept
  <2> QED BY <2>1, <2>4, <2>5, OthersKeep DEF SentCopyInv
<1> QED BY <1>1, <1>2

\* An answer ends a lookup: it comes with the number of a copy that is
\* there, and sends on to the append only without any.
LEMMA AnswerSound ==
  ASSUME NEW c, CopyTaskSound(c), c.step \in {"lookup", "trying"},
         NEW status, NEW uid,
         uid # None => OursIs(uid, c.folder),
         status = "not_found" => ~c.early /\ uid = None
  PROVE  CopyTaskSound(Answer(c, status, uid))
<1>1. PICK went : went = IF c.again THEN "resolved" ELSE decide_sent_copy_action(status)
  OBVIOUS
<1>2. /\ went \in {"append", "resolved"}
      /\ went = "append" => ~c.again /\ status = "not_found"
  BY <1>1 DEF decide_sent_copy_action
<1> DEFINE b == [c EXCEPT !.status = status, !.uid = uid, !.tries = 0, !.step = went]
<1>3. Answer(c, status, uid) = b
  BY <1>1, Zenon DEF Answer
<1>4. /\ b.step = went /\ b.again = c.again /\ b.folder = c.folder /\ b.tries = 0 /\ b.status = status /\ b.uid = uid
      /\ b.attempted = c.attempted /\ b.appended = c.appended /\ b.early = c.early
  BY DEF CopyTaskSound, CopyTask
<1>5. CopyTask(b)
  BY <1>2 DEF CopyTaskSound, CopyTask
<1> HIDE DEF b
<1>6. CopyTaskSound(b)
  BY <1>2, <1>4, <1>5 DEF CopyTaskSound
<1> QED BY <1>3, <1>6

\* Steps of the lookup change neither the mail nor the record of an old one.
LEMMA LookupMoves ==
  ASSUME SentCopyInv, UNCHANGED <<stored, removed, cleaning, proof>>, CopyTaskSound(copying')
  PROVE  SentCopyInv'
<1>1. MailSound' /\ ProofSound'
  BY DEF SentCopyInv, MailSound, ProofSound, OursIs, ClientHas
<1>2. CopyTaskSound(copying)'
  BY DEF CopyTaskSound, CopyTask, OursAt, OursIs, ClientHas
<1> QED BY <1>1, <1>2 DEF SentCopyInv

LEMMA LookupBegins ==
  ASSUME SentCopyInv, find_sent_mail_by_message_id
  PROVE  SentCopyInv'
<1>0. CopyTaskSound(copying) /\ copying.step = "lookup" /\ UNCHANGED <<stored, removed, cleaning, proof>>
  BY DEF SentCopyInv, find_sent_mail_by_message_id
<1>1. \A f : /\ CopyTaskSound([copying EXCEPT !.folder = f]) /\ [copying EXCEPT !.folder = f].step = "lookup"
             /\ [copying EXCEPT !.folder = f].folder = f
  BY <1>0 DEF CopyTaskSound, CopyTask
<1>2. ASSUME NEW status, status # "not_found"
      PROVE  CopyTaskSound(Answer([copying EXCEPT !.folder = None], status, None))
  <2> DEFINE c == [copying EXCEPT !.folder = None]
  <2>1. CopyTaskSound(c) /\ c.step = "lookup"
    BY <1>1
  <2> HIDE DEF c
  <2>2. CopyTaskSound(Answer(c, status, None))
    BY <1>2, <2>1, AnswerSound
  <2> QED BY <2>2 DEF c
<1>3. ASSUME NEW f, NEW early \in BOOLEAN,
             early = IF copying.again THEN copying.early ELSE find_exact_message_id_match(f, "ours") # {}
      PROVE  CopyTaskSound([copying EXCEPT !.step = "trying", !.folder = f, !.early = early])
  <2> DEFINE b == [copying EXCEPT !.step = "trying", !.folder = f, !.early = early]
  <2>1. /\ b.step = "trying" /\ b.folder = f /\ b.early = early /\ b.again = copying.again
        /\ b.attempted = copying.attempted /\ b.appended = copying.appended /\ b.uid = copying.uid
        /\ CopyTask(b)
    BY <1>0 DEF CopyTaskSound, CopyTask
  <2>2. early /\ ~copying.again => OursAt(f)
    BY <1>3 DEF find_exact_message_id_match, message_id_search, OursAt
  <2>3. copying.again => ~early
    BY <1>0, <1>3 DEF CopyTaskSound
  <2> HIDE DEF b
  <2>4. /\ copying.uid = None /\ copying.again = copying.attempted
        /\ copying.appended => ClientHas
        /\ ~copying.again => ~ClientHas
    BY <1>0 DEF CopyTaskSound
  <2>5. early => OursAt(f)
    BY <2>2, <2>3
  <2>6. CopyTaskSound(b)
    BY <2>1, <2>3, <2>4, <2>5 DEF CopyTaskSound
  <2> QED BY <2>6 DEF b
<1>4. CASE \E status \in {"imap_connect_failed", "sent_folder_detection_failed"} :
             copying' = Answer([copying EXCEPT !.folder = None], status, None)
  <2>1. PICK status \in {"imap_connect_failed", "sent_folder_detection_failed"} :
          copying' = Answer([copying EXCEPT !.folder = None], status, None)
    BY <1>4
  <2>2. CopyTaskSound(copying')
    BY <1>2, <2>1
  <2> QED BY <1>0, <2>2, LookupMoves
<1>5. CASE copying' = Answer([copying EXCEPT !.folder = None], "sent_folder_not_found", None)
  <2>1. CopyTaskSound(copying')
    BY <1>2, <1>5
  <2> QED BY <1>0, <2>1, LookupMoves
<1>6. ASSUME NEW f,
             copying' = [copying EXCEPT !.step = "trying", !.folder = f,
                           !.early = IF copying.again THEN @ ELSE find_exact_message_id_match(f, "ours") # {}]
      PROVE  SentCopyInv'
  <2>1. PICK early \in BOOLEAN :
          early = IF copying.again THEN copying.early ELSE find_exact_message_id_match(f, "ours") # {}
    BY <1>0 DEF CopyTaskSound, CopyTask
  <2>2. copying' = [copying EXCEPT !.step = "trying", !.folder = f, !.early = early]
    BY <1>6, <2>1, Zenon
  <2>3. CopyTaskSound(copying')
    BY <1>3, <2>1, <2>2
  <2> QED BY <1>0, <2>3, LookupMoves
<1> QED BY <1>4, <1>5, <1>6 DEF find_sent_mail_by_message_id

LEMMA SearchEnds ==
  ASSUME SentCopyInv, Search
  PROVE  SentCopyInv'
<1> DEFINE matches == find_exact_message_id_match(copying.folder, "ours")
           Missed(status) == IF copying.tries = 2 THEN Answer(copying, status, None)
                             ELSE [copying EXCEPT !.tries = @ + 1]
<1>0. CopyTaskSound(copying) /\ copying.step = "trying" /\ UNCHANGED <<stored, removed, cleaning, proof>>
  BY DEF SentCopyInv, Search
<1>1. \A m \in matches : m \in stored /\ m.folder = copying.folder /\ m.id = "ours"
  BY DEF find_exact_message_id_match, message_id_search
<1>2. matches = {} => ~copying.early
  BY <1>0 DEF CopyTaskSound, OursAt, find_exact_message_id_match, message_id_search
<1>3. ASSUME NEW status, status = "not_found" => matches = {}
      PROVE  CopyTaskSound(Missed(status))
  <2>1. PICK n : n = copying.tries + 1
    OBVIOUS
  <2>2. CopyTaskSound([copying EXCEPT !.tries = n])
    BY <1>0 DEF CopyTaskSound, CopyTask
  <2>3. [copying EXCEPT !.tries = @ + 1] = [copying EXCEPT !.tries = n]
    BY <2>1, Zenon
  <2>4. CopyTaskSound(Answer(copying, status, None))
    BY <1>0, <1>2, <1>3, AnswerSound
  <2> QED BY <2>2, <2>3, <2>4, Zenon
<1>4. classify_exact_message_id_match(matches) \in {"none", "unique"} => IF matches = {}
        THEN classify_exact_message_id_match(matches) = "none"
        ELSE classify_exact_message_id_match(matches) = "unique"
  <2> HIDE DEF matches
  <2>1. matches = {} => Cardinality(matches) # 1
    BY FS_EmptySet
  <2> QED BY <2>1 DEF classify_exact_message_id_match
<1>5. \/ copying' = Missed("lookup_failed")
      \/ copying' = Missed("not_found") /\ matches = {}
      \/ copying' = Answer(copying, "found", (CHOOSE m \in matches : TRUE).uid) /\ matches # {}
      \/ copying' = Answer(copying, "ambiguous", None)
  <2> HIDE DEF matches
  <2>1. \/ copying' = Missed("lookup_failed")
        \/ copying' = CASE classify_exact_message_id_match(matches) = "none" -> Missed("not_found")
                        [] classify_exact_message_id_match(matches) = "unique" ->
                             Answer(copying, "found", (CHOOSE m \in matches : TRUE).uid)
                        [] OTHER -> Answer(copying, "ambiguous", None)
    BY Zenon DEF Search, matches
  <2> HIDE DEF Missed
  <2> QED BY <1>4, <2>1
<1>6. CopyTaskSound(copying')
  <2>1. CASE copying' = Missed("lookup_failed")
    BY <1>3, <2>1
  <2>2. CASE copying' = Missed("not_found") /\ matches = {}
    BY <1>3, <2>2
  <2>3. CASE copying' = Answer(copying, "found", (CHOOSE m \in matches : TRUE).uid) /\ matches # {}
    <3>1. PICK hit \in matches : hit = CHOOSE m \in matches : TRUE
      BY <2>3
    <3>2. OursIs(hit.uid, copying.folder)
      BY <1>1 DEF OursIs
    <3>3. CopyTaskSound(Answer(copying, "found", hit.uid))
      BY <1>0, <3>2, AnswerSound
    <3> QED BY <2>3, <3>1, <3>3
  <2>4. CASE copying' = Answer(copying, "ambiguous", None)
    <3>1. CopyTaskSound(Answer(copying, "ambiguous", None))
      BY <1>0, AnswerSound
    <3> QED BY <2>4, <3>1
  <2> QED BY <1>5, <2>1, <2>2, <2>3, <2>4
<1> QED BY <1>0, <1>6, LookupMoves

LEMMA CopyAppended ==
  ASSUME SentCopyInv, append_sent_copy
  PROVE  SentCopyInv'
<1>0. /\ CopyTaskSound(copying) /\ MailSound /\ ProofSound
      /\ copying.step = "append" /\ UNCHANGED <<proof, cleaning, removed>>
  BY DEF SentCopyInv, append_sent_copy
<1>1. PICK answered, stays \in BOOLEAN :
        /\ answered => stays
        /\ copying' = [copying EXCEPT !.step = "lookup", !.again = TRUE, !.attempted = TRUE, !.appended = answered]
        /\ IF stays THEN \E place : stored' = Put(place, "client", build_message("ours", TRUE))
                   ELSE stored' = stored
  BY DEF append_sent_copy
<1>2. ~copying.again /\ ~copying.early /\ copying.uid = None /\ ~ClientHas
  BY <1>0 DEF CopyTaskSound
<1>3. /\ copying'.step = "lookup" /\ copying'.again /\ copying'.attempted /\ copying'.appended = answered
      /\ copying'.early = copying.early /\ copying'.uid = None /\ CopyTask(copying')
  BY <1>0, <1>1, <1>2 DEF CopyTaskSound, CopyTask
<1>4. MailSound' /\ (\A m \in stored : m \in stored') /\ (stays => ClientHas')
  <2>1. CASE stays
    <3>1. PICK place : stored' = Put(place, "client", build_message("ours", TRUE))
      BY <1>1, <2>1
    <3>2. build_message("ours", TRUE).id = "ours"
      BY DEF build_message
    <3> QED BY <1>0, <1>2, <3>1, <3>2, MailPut
  <2>2. CASE ~stays
    BY <1>0, <1>1, <2>2 DEF MailSound
  <2> QED BY <2>1, <2>2
<1>5. CopyTaskSound(copying)'
  <2>1. /\ copying'.appended => ClientHas'
        /\ CopyTask(copying)'
    BY <1>1, <1>3, <1>4 DEF CopyTask
  <2> QED BY <1>2, <1>3, <2>1 DEF CopyTaskSound
<1>6. ProofSound'
  BY <1>0, <1>4 DEF ProofSound, OursIs, ClientHas
<1> QED BY <1>4, <1>5, <1>6 DEF SentCopyInv

LEMMA CopyRecorded ==
  ASSUME SentCopyInv, send \/ record_sent_copy_proof \/ CopyLost
  PROVE  SentCopyInv'
<1>0. CopyTaskSound(copying) /\ UNCHANGED <<stored, removed, cleaning>>
  BY DEF SentCopyInv, send, record_sent_copy_proof, CopyLost
<1>2. ASSUME NEW step \in {"lookup", "recorded", "lost"}, step = "lookup" => copying.step = "idle"
      PROVE  CopyTaskSound([copying EXCEPT !.step = step])
  BY <1>0, <1>2 DEF CopyTaskSound, CopyTask
<1>3. CASE send \/ CopyLost
  <2>1. CopyTaskSound(copying') /\ proof' = proof
    BY <1>2, <1>3 DEF send, CopyLost
  <2> QED BY <1>0, <2>1, LookupMoves
<1>4. CASE record_sent_copy_proof
  <2>1. CopyTaskSound(copying')
    BY <1>2, <1>4 DEF record_sent_copy_proof
  <2>2. /\ proof'.uid = copying.uid /\ proof'.folder = copying.folder
        /\ proof'.copy_source = "client_appended" => copying.appended
    BY <1>4 DEF record_sent_copy_proof, determine_copy_source
  <2>3. ProofSound'
    BY <1>0, <2>2 DEF CopyTaskSound, ProofSound, OursIs, ClientHas
  <2>4. MailSound' /\ CopyTaskSound(copying)'
    BY <1>0, <2>1 DEF SentCopyInv, MailSound, CopyTaskSound, CopyTask, OursAt, OursIs, ClientHas
  <2> QED BY <2>3, <2>4 DEF SentCopyInv
<1> QED BY <1>3, <1>4

LEMMA SentCopyInvNext ==
  ASSUME SentCopyInv, [SentCopyNext]_sentcopy_vars
  PROVE  SentCopyInv'
<1>1. CASE FoldersChange \/ classify_folders \/ UNCHANGED sentcopy_vars
  BY <1>1, NothingMoves DEF FoldersChange, classify_folders, sentcopy_vars
<1> QED BY <1>1, MailComes, LookupBegins, SearchEnds, CopyAppended, CopyRecorded, DraftsCleaned DEF SentCopyNext

\* A copy that was in the Sent folder before the lookup is never doubled by
\* the client, the client appends one at most, a recorded UID is that of a
\* copy of this message, and cleanup removes drafts only: for any folders,
\* other mail, failures and lost answers (sent_proof.rs, draft_cleanup.rs).
THEOREM CopiedOnce == SentCopySpec => []SentCopyOnce
<1>1. SentCopyInv => SentCopyOnce
  <2> SUFFICES ASSUME SentCopyInv PROVE SentCopyOnce
    OBVIOUS
  <2>1. ~(copying.early /\ copying.attempted)
    BY DEF SentCopyInv, CopyTaskSound
  <2>2. Cardinality({m \in stored : m.by = "client"}) <= 1
    <3> DEFINE client == {m \in stored : m.by = "client"}
    <3>1. client = {} \/ \E m \in client : client = {m}
      BY DEF SentCopyInv, MailSound
    <3> HIDE DEF client
    <3>2. Cardinality(client) <= 1
      BY <3>1, FS_EmptySet, FS_Singleton
    <3> QED BY <3>2 DEF client
  <2>3. \A m \in removed : m.id = "draft"
    BY DEF SentCopyInv, MailSound
  <2>4. proof # None => /\ proof.uid # None =>
                             \E m \in stored : m.uid = proof.uid /\ m.folder = proof.folder /\ m.id = "ours"
                        /\ proof.copy_source = "client_appended" => \E m \in stored : m.by = "client"
    BY DEF SentCopyInv, ProofSound, OursIs, ClientHas
  <2> QED BY <2>1, <2>2, <2>3, <2>4 DEF SentCopyOnce
<1>2. SentCopyInit => SentCopyInv
  BY SentCopyInvInit
<1>3. SentCopyInv /\ [SentCopyNext]_sentcopy_vars => SentCopyInv'
  BY SentCopyInvNext
<1> QED BY <1>1, <1>2, <1>3, PTL DEF SentCopySpec

-----------------------------------------------------------------------------
(* Backups.  What a running export has written it has noted, and is whole; *)
(* so a manifest describes the backup, and a restore, which writes the     *)
(* database last, copies from files that were verified.                    *)

Db == "travel.db"
Config == "intelligence.json"
Steps == {"vacuum", "sanitize", "config", "digest", "list", "copy", "manifest"}

SnapshotRows ==
  /\ live \in Directory /\ saving \in Originals \cup {None}
  /\ output \in Directory \cup {None} /\ inventory \in Directory \cup {None}
  /\ destination \in Directory \cup {None}
  /\ exporting \in [step : Steps, files : Directory, left : SUBSET Originals] \cup {None}
  /\ had \subseteq Originals /\ replaced \in BOOLEAN /\ spoiled \in BOOLEAN
  /\ restoring \in (SUBSET FileNames) \cup {None}

\* The service writes whole files, and an original as it came.
LiveSound ==
  /\ live[Db] # None /\ live[Db].whole
  /\ live[Config] # None => live[Config].whole
  /\ \A d \in Originals : live[d] \in {None, Original}
  /\ had \subseteq Present(live)

\* What a running export has written, and noted of it.
ExportSound ==
  exporting # None =>
    /\ output # None /\ inventory = None
    /\ \A d \in Originals : output[d] = exporting.files[d] /\ output[d] \in {None, Original}
    /\ exporting.step # "vacuum" => output[Db] # None /\ output[Db].whole
    /\ exporting.step \notin {"vacuum", "sanitize"} =>
         exporting.files[Db] = output[Db] /\ ~output[Db].grants
    /\ exporting.step = "digest" => output[Config] # None /\ output[Config].whole /\ live[Config] # None
    /\ exporting.step \in {"vacuum", "sanitize", "config", "digest"} => exporting.files[Config] = None
    /\ exporting.step \in {"list", "copy", "manifest"} =>
         replaced \/ (exporting.files[Config] = output[Config]
                      /\ (output[Config] # None => output[Config].whole))
    /\ exporting.step = "copy" => had \subseteq exporting.left \cup Present(exporting.files)
    /\ exporting.step = "manifest" => had \subseteq Present(exporting.files)

\* A backup with its manifest.
BackupSound ==
  inventory # None =>
    /\ exporting = None /\ output # None
    /\ spoiled \/ replaced \/ Verified
    /\ had \subseteq Recorded /\ inventory[Db] # None /\ ~inventory[Db].grants

\* A restore under way, and one that was stopped.
RestoreSound ==
  destination # None =>
    /\ inventory # None
    /\ restoring # None =>
         /\ Verified /\ restoring \subseteq Recorded
         /\ \A n \in Recorded \ restoring : destination[n] = inventory[n]
         /\ restoring # {} => Db \in restoring /\ destination[Db] = None
    /\ restoring = None /\ destination[Db] # None => ~destination[Db].whole

SnapshotInv ==
  /\ SnapshotRows /\ LiveSound /\ ExportSound /\ BackupSound /\ RestoreSound
  /\ destination = None => restoring = None

LEMMA NamesApart ==
  /\ Db \in FileNames /\ Config \in FileNames /\ Originals \subseteq FileNames
  /\ Db # Config /\ Db \notin Originals /\ Config \notin Originals
  /\ \A n \in FileNames : n = Db \/ n = Config \/ n \in Originals
BY SnapshotsAssumption DEF Db, Config, FileNames

LEMMA FilesAre ==
  /\ Original \in File /\ Original # None /\ Original.whole /\ Empty_dir \in Directory /\ Empty_dir # None
  /\ \A f \in File : f # None /\ [f EXCEPT !.whole = FALSE] \in File /\ ~[f EXCEPT !.whole = FALSE].whole
<1>1. Original \in File /\ Original.whole
  BY SnapshotsAssumption DEF Original, File
<1>2. Empty_dir \in Directory
  BY DEF Empty_dir, Directory
<1>3. ASSUME NEW f \in File PROVE [f EXCEPT !.whole = FALSE] \in File /\ ~[f EXCEPT !.whole = FALSE].whole
  BY DEF File
<1> QED
  BY <1>1, <1>2, <1>3, SnapshotsAssumption

-----------------------------------------------------------------------------
(* The service.                                                            *)
LEMMA ServiceKeeps == ASSUME SnapshotInv, Service PROVE SnapshotInv'
<1>1. UNCHANGED <<output, inventory, exporting, had, replaced, spoiled, destination, restoring>>
  BY DEF Service, WriteRecord, put_config, preserve_begun, persist_noclobber, CrashWhileSaving,
         export_vars, restore_dir_vars
<1>2. saving' \in Originals \cup {None} /\ live \in Directory
  BY DEF SnapshotInv, SnapshotRows, Service, WriteRecord, put_config, preserve_begun, persist_noclobber,
         CrashWhileSaving
<1>3. /\ live' \in Directory /\ live'[Db] # None /\ live'[Db].whole
      /\ live'[Config] # None => live'[Config].whole
      /\ live[Config] # None => live'[Config] # None
      /\ \A d \in Originals : live'[d] \in {None, Original} /\ (live[d] # None => live'[d] # None)
  <2>1. CASE WriteRecord
    <3>1. live[Db] \in File
      BY <1>2, NamesApart DEF SnapshotInv, LiveSound, Directory
    <3>2. live[Db].version + 1 \in 0..MaxWrites
      BY <2>1, <3>1, SnapshotsAssumption DEF WriteRecord, File, Db
    <3>3. PICK v \in 0..MaxWrites : v = live[Db].version + 1
      BY <3>2
    <3> DEFINE db == [live[Db] EXCEPT !.version = v]
    <3>4. live' = [live EXCEPT ![Db] = db]
      BY <2>1, <3>3 DEF WriteRecord, Db
    <3>5. db \in File /\ db.whole
      BY <3>1 DEF File, SnapshotInv, LiveSound
    <3> HIDE DEF db
    <3> QED
      BY <1>2, <3>4, <3>5, FilesAre, NamesApart DEF SnapshotInv, LiveSound, Directory
  <2>2. CASE put_config
    <3>1. PICK v \in 1..MaxWrites : live' = [live EXCEPT ![Config] = [version |-> v, whole |-> TRUE, grants |-> FALSE]]
      BY <2>2 DEF put_config, Config
    <3> DEFINE config == [version |-> v, whole |-> TRUE, grants |-> FALSE]
    <3>2. config \in File /\ config.whole
      BY SnapshotsAssumption DEF File
    <3> HIDE DEF config
    <3>3. live' = [live EXCEPT ![Config] = config]
      BY <3>1 DEF config
    <3> QED
      BY <1>2, <3>2, <3>3, FilesAre, NamesApart DEF SnapshotInv, LiveSound, Directory
  <2>3. CASE persist_noclobber
    <3>1. saving \in Originals /\ live' = [live EXCEPT ![saving] = Original]
      BY <2>3 DEF persist_noclobber, SnapshotInv, SnapshotRows
    <3> QED
      BY <1>2, <3>1, FilesAre, NamesApart DEF SnapshotInv, LiveSound, Directory
  <2>4. CASE preserve_begun \/ CrashWhileSaving
    BY <1>2, <2>4 DEF SnapshotInv, LiveSound, preserve_begun, CrashWhileSaving
  <2> QED
    BY <2>1, <2>2, <2>3, <2>4 DEF Service
<1>4. LiveSound'
  BY <1>1, <1>3 DEF SnapshotInv, SnapshotRows, LiveSound, Present
<1>5. SnapshotRows'
  BY <1>1, <1>2, <1>3 DEF SnapshotInv, SnapshotRows
<1>6. ExportSound'
  BY <1>1, <1>3 DEF SnapshotInv, ExportSound, Present
<1> QED
  BY <1>1, <1>4, <1>5, <1>6 DEF SnapshotInv, BackupSound, RestoreSound, Recorded, Verified

-----------------------------------------------------------------------------
(* Taking a backup.                                                        *)

\* While one is taken there is no manifest, so nothing to restore.
LEMMA ExportAlone ==
  ASSUME SnapshotInv, exporting # None \/ output = None
  PROVE  inventory = None /\ destination = None /\ restoring = None
BY DEF SnapshotInv, ExportSound, BackupSound, RestoreSound

LEMMA ExportTyped ==
  ASSUME SnapshotInv, exporting # None
  PROVE  /\ exporting \in [step : Steps, files : Directory, left : SUBSET Originals]
         /\ output \in Directory /\ output # None /\ inventory = None /\ live \in Directory
BY DEF SnapshotInv, SnapshotRows, ExportSound

\* What is left to show of a step of the export.
LEMMA ExportStep ==
  ASSUME SnapshotInv, inventory = None, destination = None, restoring = None,
         UNCHANGED <<live, saving, inventory, spoiled, destination, restoring>>,
         output' \in Directory \cup {None}, replaced' \in BOOLEAN,
         exporting' \in [step : Steps, files : Directory, left : SUBSET Originals] \cup {None},
         had' \subseteq Present(live), ExportSound'
  PROVE  SnapshotInv'
<1>1. SnapshotRows'
  BY DEF SnapshotInv, SnapshotRows, Present
<1>2. LiveSound'
  BY DEF SnapshotInv, LiveSound, Present
<1> QED
  BY <1>1, <1>2 DEF SnapshotInv, BackupSound, RestoreSound

LEMMA BeginKeeps == ASSUME SnapshotInv, BeginExport PROVE SnapshotInv'
<1>1. inventory = None /\ destination = None /\ restoring = None
  BY ExportAlone DEF BeginExport
<1>2. /\ output' = Empty_dir /\ had' = Present(live)
      /\ exporting' = [step |-> "vacuum", files |-> Empty_dir, left |-> {}]
      /\ UNCHANGED <<live, saving, inventory, spoiled, destination, restoring, replaced>>
  BY DEF BeginExport, live_vars, restore_dir_vars
<1>3. exporting' \in [step : Steps, files : Directory, left : SUBSET Originals]
  BY <1>2, FilesAre DEF Steps
<1>4. ExportSound'
  BY <1>1, <1>2, FilesAre, NamesApart DEF ExportSound, Empty_dir
<1> QED
  BY <1>1, <1>2, <1>3, <1>4, FilesAre, ExportStep DEF SnapshotInv, SnapshotRows

LEMMA DatabaseKeeps == ASSUME SnapshotInv, VacuumInto \/ Sanitize PROVE SnapshotInv'
<1>0. exporting # None /\ exporting.step \in {"vacuum", "sanitize"}
  BY DEF VacuumInto, Sanitize, AtStep
<1>1. inventory = None /\ destination = None /\ restoring = None
  BY <1>0, ExportAlone
<1>2. CASE VacuumInto
  <2>1. /\ output' = [output EXCEPT ![Db] = live[Db]] /\ exporting' = [exporting EXCEPT !.step = "sanitize"]
        /\ UNCHANGED <<live, saving, inventory, spoiled, destination, restoring, replaced, had>>
    BY <1>2 DEF VacuumInto, live_vars, restore_dir_vars, Db
  <2>2. exporting' \in [step : Steps, files : Directory, left : SUBSET Originals]
        /\ exporting'.step = "sanitize" /\ exporting'.files = exporting.files
    BY <1>0, <2>1, ExportTyped DEF Steps
  <2>3. output' \in Directory /\ output' # None /\ output'[Db] = live[Db]
        /\ \A n \in FileNames \ {Db} : output'[n] = output[n]
    BY <1>0, <2>1, ExportTyped, NamesApart, SnapshotsAssumption DEF Directory
  <2>4. ExportSound'
    BY <1>0, <1>1, <2>1, <2>2, <2>3, NamesApart DEF SnapshotInv, ExportSound, LiveSound
  <2> QED
    BY <1>1, <2>1, <2>2, <2>3, <2>4, ExportStep DEF SnapshotInv, SnapshotRows, LiveSound
<1>3. CASE Sanitize
  <2> DEFINE db == Sanitized(output[Db])
  <2>1. /\ output' = [output EXCEPT ![Db] = db] /\ exporting' = [exporting EXCEPT !.files[Db] = output'[Db], !.step = "config"]
        /\ UNCHANGED <<live, saving, inventory, spoiled, destination, restoring, replaced, had>>
        /\ exporting.step = "sanitize"
    BY <1>3 DEF Sanitize, Noted, live_vars, restore_dir_vars, Db, AtStep
  <2>2. output[Db] \in File /\ output[Db].whole
    BY <1>0, <2>1, ExportTyped, NamesApart DEF SnapshotInv, ExportSound, Directory
  <2>3. db \in File /\ db.whole /\ ~db.grants
    BY <2>2 DEF Sanitized, File
  <2> HIDE DEF db
  <2>4. output' \in Directory /\ output' # None /\ output'[Db] = db
        /\ \A n \in FileNames \ {Db} : output'[n] = output[n]
    BY <1>0, <2>1, <2>3, ExportTyped, NamesApart, SnapshotsAssumption DEF Directory
  <2>5. exporting' \in [step : Steps, files : Directory, left : SUBSET Originals]
        /\ exporting'.step = "config" /\ exporting'.files = [exporting.files EXCEPT ![Db] = db]
    <3>1. [exporting.files EXCEPT ![Db] = db] \in Directory
      BY <1>0, <2>3, ExportTyped, NamesApart DEF Directory
    <3>2. exporting' = [exporting EXCEPT !.files = [exporting.files EXCEPT ![Db] = db], !.step = "config"]
      BY <1>0, <2>1, <2>4, ExportTyped
    <3> QED
      BY <1>0, <3>1, <3>2, ExportTyped DEF Steps
  <2>6. exporting'.files[Db] = db /\ \A n \in FileNames \ {Db} : exporting'.files[n] = exporting.files[n]
    BY <1>0, <2>5, ExportTyped, NamesApart DEF Directory
  <2>7. ExportSound'
    <3>1. exporting.files[Config] = None
          /\ \A d \in Originals : output[d] = exporting.files[d] /\ output[d] \in {None, Original}
      BY <1>0, <2>1 DEF SnapshotInv, ExportSound
    <3>2. exporting'.files[Config] = None
          /\ \A d \in Originals : output'[d] = exporting'.files[d] /\ output'[d] \in {None, Original}
      BY <2>4, <2>6, <3>1, NamesApart
    <3>3. inventory' = None /\ output'[Db] # None
      BY <1>1, <2>1, <2>3, <2>4, FilesAre
    <3> QED
      BY <2>3, <2>4, <2>5, <2>6, <3>2, <3>3 DEF ExportSound
  <2> QED
    BY <1>1, <2>1, <2>4, <2>5, <2>7, ExportStep DEF SnapshotInv, SnapshotRows, LiveSound
<1> QED
  BY <1>2, <1>3

LEMMA ConfigKeeps == ASSUME SnapshotInv, CopyConfig \/ DigestConfig PROVE SnapshotInv'
<1>0. exporting # None /\ exporting.step \in {"config", "digest"}
  BY DEF CopyConfig, DigestConfig, AtStep
<1>1. inventory = None /\ destination = None /\ restoring = None
  BY <1>0, ExportAlone
<1>2. CASE CopyConfig
  <2>1. /\ output' = [output EXCEPT ![Config] = live[Config]]
        /\ exporting' = [exporting EXCEPT !.step = IF live[Config] = None THEN "list" ELSE "digest"]
        /\ UNCHANGED <<live, saving, inventory, spoiled, destination, restoring, replaced, had>>
        /\ exporting.step = "config"
    BY <1>2 DEF CopyConfig, live_vars, restore_dir_vars, Config, AtStep
  <2>2. exporting' \in [step : Steps, files : Directory, left : SUBSET Originals]
        /\ exporting'.step = (IF live[Config] = None THEN "list" ELSE "digest") /\ exporting'.files = exporting.files
    BY <1>0, <2>1, ExportTyped DEF Steps
  <2>3. output' \in Directory /\ output' # None /\ output'[Config] = live[Config]
        /\ \A n \in FileNames \ {Config} : output'[n] = output[n]
    BY <1>0, <2>1, ExportTyped, NamesApart, SnapshotsAssumption DEF Directory
  <2>4. ExportSound'
    BY <1>0, <1>1, <2>1, <2>2, <2>3, NamesApart DEF SnapshotInv, ExportSound, LiveSound
  <2> QED
    BY <1>1, <2>1, <2>2, <2>3, <2>4, ExportStep DEF SnapshotInv, SnapshotRows, LiveSound
<1>3. CASE DigestConfig
  <2>1. /\ exporting' = [exporting EXCEPT !.files[Config] = live[Config], !.step = "list"]
        /\ replaced' = (live[Config] # output[Config])
        /\ UNCHANGED <<live, saving, inventory, spoiled, destination, restoring, output, had>>
        /\ exporting.step = "digest"
    BY <1>3 DEF DigestConfig, Noted, live_vars, restore_dir_vars, Config, AtStep
  <2>2. exporting' \in [step : Steps, files : Directory, left : SUBSET Originals]
        /\ exporting'.step = "list" /\ exporting'.files = [exporting.files EXCEPT ![Config] = live[Config]]
    <3>1. [exporting.files EXCEPT ![Config] = live[Config]] \in Directory
      BY <1>0, ExportTyped, NamesApart DEF Directory
    <3>2. exporting' = [exporting EXCEPT !.files = [exporting.files EXCEPT ![Config] = live[Config]], !.step = "list"]
      BY <1>0, <2>1, ExportTyped
    <3> QED
      BY <1>0, <3>1, <3>2, ExportTyped DEF Steps
  <2>3. exporting'.files[Config] = live[Config]
        /\ \A n \in FileNames \ {Config} : exporting'.files[n] = exporting.files[n]
    BY <1>0, <2>2, ExportTyped, NamesApart DEF Directory
  <2>4. ExportSound'
    <3>1. /\ output # None /\ output[Db] # None /\ output[Db].whole /\ ~output[Db].grants
          /\ exporting.files[Db] = output[Db] /\ output[Config] # None /\ output[Config].whole
          /\ \A d \in Originals : output[d] = exporting.files[d] /\ output[d] \in {None, Original}
      BY <1>0, <2>1 DEF SnapshotInv, ExportSound
    <3>2. replaced' \/ exporting'.files[Config] = output[Config]
      BY <2>1, <2>3
    <3>3. exporting'.files[Db] = output[Db] /\ \A d \in Originals : output[d] = exporting'.files[d]
      BY <2>3, <3>1, NamesApart
    <3> QED
      BY <1>1, <2>1, <2>2, <3>1, <3>2, <3>3 DEF ExportSound
  <2>5. replaced' \in BOOLEAN
    BY <2>1
  <2> QED
    BY <1>1, <2>1, <2>2, <2>4, <2>5, ExportStep DEF SnapshotInv, SnapshotRows, LiveSound
<1> QED
  BY <1>2, <1>3

LEMMA DocumentsKeep == ASSUME SnapshotInv, ListDocuments \/ CopyDocument PROVE SnapshotInv'
<1>0. exporting # None /\ exporting.step \in {"list", "copy"}
  BY DEF ListDocuments, CopyDocument, AtStep
<1>1. inventory = None /\ destination = None /\ restoring = None
  BY <1>0, ExportAlone
<1>2. CASE ListDocuments
  <2>1. /\ exporting' = [exporting EXCEPT !.step = IF Present(live) = {} THEN "manifest" ELSE "copy", !.left = Present(live)]
        /\ UNCHANGED <<live, saving, inventory, spoiled, destination, restoring, output, replaced, had>>
        /\ exporting.step = "list"
    BY <1>2 DEF ListDocuments, live_vars, restore_dir_vars, AtStep
  <2>2. exporting' \in [step : Steps, files : Directory, left : SUBSET Originals]
        /\ exporting'.step = (IF Present(live) = {} THEN "manifest" ELSE "copy")
        /\ exporting'.files = exporting.files /\ exporting'.left = Present(live)
    BY <1>0, <2>1, ExportTyped DEF Steps, Present
  <2>3. ExportSound'
    BY <1>0, <1>1, <2>1, <2>2 DEF SnapshotInv, ExportSound, LiveSound
  <2> QED
    BY <1>1, <2>1, <2>2, <2>3, ExportStep DEF SnapshotInv, SnapshotRows, LiveSound
<1>3. CASE CopyDocument
  <2>1. PICK d \in Present(live) :
          /\ output' = [output EXCEPT ![d] = live[d]]
          /\ exporting' = [exporting EXCEPT !.files[d] = live[d], !.left = @ \ {d},
                             !.step = IF exporting.left \subseteq {d} THEN "manifest" ELSE "copy"]
    BY <1>3 DEF CopyDocument
  <2>2. UNCHANGED <<live, saving, inventory, spoiled, destination, restoring, replaced, had>> /\ exporting.step = "copy"
    BY <1>3 DEF CopyDocument, live_vars, restore_dir_vars, AtStep
  <2>3. d \in Originals /\ d \in FileNames /\ d # Db /\ d # Config /\ live[d] = Original
    BY NamesApart DEF Present, SnapshotInv, LiveSound
  <2>4. output' \in Directory /\ output' # None /\ output'[d] = Original
        /\ \A n \in FileNames \ {d} : output'[n] = output[n]
    BY <1>0, <2>1, <2>3, ExportTyped, FilesAre, SnapshotsAssumption DEF Directory
  <2>5. [exporting.files EXCEPT ![d] = Original] \in Directory
    BY <1>0, <2>3, ExportTyped, FilesAre DEF Directory
  <2>6. exporting' = [exporting EXCEPT !.files = [exporting.files EXCEPT ![d] = Original], !.left = exporting.left \ {d},
                        !.step = IF exporting.left \subseteq {d} THEN "manifest" ELSE "copy"]
    BY <1>0, <2>1, <2>3, ExportTyped
  <2>7. exporting' \in [step : Steps, files : Directory, left : SUBSET Originals]
        /\ exporting'.step = (IF exporting.left \subseteq {d} THEN "manifest" ELSE "copy")
        /\ exporting'.files = [exporting.files EXCEPT ![d] = Original] /\ exporting'.left = exporting.left \ {d}
    BY <1>0, <2>5, <2>6, ExportTyped DEF Steps
  <2>8. exporting'.files[d] = Original /\ \A n \in FileNames \ {d} : exporting'.files[n] = exporting.files[n]
    BY <1>0, <2>3, <2>7, ExportTyped DEF Directory
  <2>9. ExportSound'
    <3>1. had \subseteq exporting.left \cup Present(exporting.files)
      BY <1>0, <2>2 DEF SnapshotInv, ExportSound
    <3>2. Present(exporting'.files) = Present(exporting.files) \cup {d}
      BY <2>3, <2>8, FilesAre, NamesApart DEF Present
    <3>3. had \subseteq exporting'.left \cup Present(exporting'.files)
          /\ (exporting'.step = "manifest" => had \subseteq Present(exporting'.files))
      BY <2>7, <3>1, <3>2
    <3>4. \A e \in Originals : output'[e] = exporting'.files[e] /\ output'[e] \in {None, Original}
      BY <1>0, <2>4, <2>8, NamesApart DEF SnapshotInv, ExportSound
    <3> QED
      BY <1>0, <1>1, <2>2, <2>3, <2>4, <2>7, <2>8, <3>3, <3>4, NamesApart DEF SnapshotInv, ExportSound
  <2> QED
    BY <1>1, <2>2, <2>4, <2>7, <2>9, ExportStep DEF SnapshotInv, SnapshotRows, LiveSound
<1> QED
  BY <1>2, <1>3

\* A backup that has its manifest is as the export left it.
LEMMA ManifestKeeps == ASSUME SnapshotInv, WriteManifest PROVE SnapshotInv'
<1>0. exporting # None /\ exporting.step = "manifest"
  BY DEF WriteManifest, AtStep
<1>1. inventory = None /\ destination = None /\ restoring = None
  BY <1>0, ExportAlone
<1>2. /\ inventory' = exporting.files /\ exporting' = None
      /\ UNCHANGED <<live, saving, output, had, replaced, spoiled, destination, restoring>>
  BY DEF WriteManifest, live_vars, restore_dir_vars
<1>3. output # None /\ exporting.files \in Directory
  BY <1>0, ExportTyped
<1>4. /\ \A d \in Originals : output[d] = exporting.files[d] /\ output[d] \in {None, Original}
      /\ output[Db] # None /\ output[Db].whole /\ exporting.files[Db] = output[Db] /\ ~output[Db].grants
      /\ replaced \/ (exporting.files[Config] = output[Config] /\ (output[Config] # None => output[Config].whole))
      /\ had \subseteq Present(exporting.files)
  BY <1>0 DEF SnapshotInv, ExportSound
<1>5. replaced' \/ Verified'
  BY <1>2, <1>4, FilesAre, NamesApart DEF Verified, Recorded, Db
<1>6. had' \subseteq Recorded'
  BY <1>2, <1>4, NamesApart DEF Recorded, Present
<1>7. BackupSound'
  BY <1>2, <1>3, <1>4, <1>5, <1>6 DEF BackupSound
<1> QED
  BY <1>1, <1>2, <1>3, <1>7 DEF SnapshotInv, SnapshotRows, LiveSound, ExportSound, RestoreSound

LEMMA StopExportKeeps == ASSUME SnapshotInv, StopExport PROVE SnapshotInv'
<1>0. exporting # None
  BY DEF StopExport
<1>1. inventory = None /\ destination = None /\ restoring = None
  BY <1>0, ExportAlone
<1>2. exporting' = None /\ UNCHANGED <<live, saving, inventory, had, replaced, spoiled, destination, restoring>>
  BY DEF StopExport, live_vars, restore_dir_vars
<1>3. output' \in Directory
  <2>1. CASE output' = output
    BY <1>0, <2>1, ExportTyped
  <2>2. CASE output' = [output EXCEPT ![Db] = [live[Db] EXCEPT !.whole = FALSE]]
    <3>1. live[Db] \in File
      BY NamesApart DEF SnapshotInv, SnapshotRows, LiveSound, Directory
    <3>2. [live[Db] EXCEPT !.whole = FALSE] \in File
      BY <3>1, FilesAre
    <3> QED
      BY <1>0, <2>2, <3>2, ExportTyped DEF Directory
  <2>3. CASE \E d \in Originals : output' = [output EXCEPT ![d] = [Original EXCEPT !.whole = FALSE]]
    BY <1>0, <2>3, ExportTyped, FilesAre DEF Directory
  <2> QED
    BY <2>1, <2>2, <2>3 DEF StopExport, Db
<1> QED
  BY <1>1, <1>2, <1>3 DEF SnapshotInv, SnapshotRows, LiveSound, ExportSound, BackupSound, RestoreSound

-----------------------------------------------------------------------------
(* The medium, and restoring.                                              *)
LEMMA SpoilKeeps == ASSUME SnapshotInv, Spoil PROVE SnapshotInv'
<1>1. inventory # None /\ restoring = None /\ spoiled' = TRUE
      /\ UNCHANGED <<live, saving, inventory, exporting, had, replaced, destination, restoring>>
  BY DEF Spoil, live_vars, restore_dir_vars
<1>2. exporting = None /\ output \in Directory
  BY <1>1 DEF SnapshotInv, SnapshotRows, BackupSound
<1>3. PICK n \in FileNames : output[n] # None /\ output' = [output EXCEPT ![n].whole = FALSE]
  BY DEF Spoil
<1>4. output[n] \in File
  BY <1>2, <1>3 DEF Directory
<1> DEFINE bad == [output[n] EXCEPT !.whole = FALSE]
<1>5. bad \in File /\ output' = [output EXCEPT ![n] = bad]
  BY <1>3, <1>4, FilesAre
<1> HIDE DEF bad
<1>6. output' \in Directory /\ output' # None
  BY <1>2, <1>5, SnapshotsAssumption DEF Directory
<1> QED
  BY <1>1, <1>2, <1>6 DEF SnapshotInv, SnapshotRows, LiveSound, ExportSound, BackupSound, RestoreSound, Recorded

LEMMA RestoreKeeps == ASSUME SnapshotInv, restore PROVE SnapshotInv'
<1>0. UNCHANGED <<live, saving, output, inventory, exporting, had, replaced, spoiled>>
  BY DEF restore, BeginRestore, RestoreFile, StopRestore, live_vars, export_vars
<1>1. LiveSound' /\ ExportSound' /\ BackupSound' /\ (Verified <=> Verified') /\ Recorded' = Recorded
  BY <1>0 DEF SnapshotInv, LiveSound, ExportSound, BackupSound, Recorded, Verified
<1>2. CASE BeginRestore
  <2>1. destination' = Empty_dir /\ restoring' = Recorded /\ inventory # None /\ Verified
    BY <1>2 DEF BeginRestore
  <2>2. Db \in Recorded /\ Recorded \subseteq FileNames /\ Empty_dir[Db] = None
    BY <2>1, NamesApart DEF Verified, Recorded, Empty_dir, Db
  <2>3. RestoreSound'
    BY <1>0, <1>1, <2>1, <2>2, SnapshotsAssumption DEF RestoreSound
  <2> QED
    BY <1>0, <1>1, <2>1, <2>2, <2>3, FilesAre DEF SnapshotInv, SnapshotRows
<1>3. ASSUME restoring # None, restoring # {}
      PROVE  /\ destination # None /\ destination \in Directory /\ inventory # None /\ Verified
             /\ restoring \subseteq Recorded /\ Db \in restoring /\ destination[Db] = None
             /\ restoring \subseteq FileNames
             /\ NextFiles \subseteq restoring /\ (Db \in NextFiles => restoring = {Db})
             /\ \A n \in NextFiles : output[n] = inventory[n] /\ output[n] \in File
             /\ \A n \in Recorded \ restoring : destination[n] = inventory[n]
  <2>1. /\ destination # None /\ destination \in Directory /\ inventory # None /\ Verified
        /\ restoring \subseteq Recorded /\ Db \in restoring /\ destination[Db] = None
        /\ \A n \in Recorded \ restoring : destination[n] = inventory[n]
    BY <1>3 DEF SnapshotInv, SnapshotRows, RestoreSound
  <2>2. NextFiles \subseteq restoring /\ (Db \in NextFiles => restoring = {Db}) /\ Recorded \subseteq FileNames
    BY DEF NextFiles, Recorded, Db
  <2>3. \A n \in Recorded : output[n] = inventory[n] /\ inventory[n] \in File
    BY <2>1 DEF Verified, Recorded, SnapshotInv, SnapshotRows, Directory
  <2> QED
    BY <2>1, <2>2, <2>3
<1>4. CASE RestoreFile
  <2>1. restoring # None /\ restoring # {}
    BY <1>4 DEF RestoreFile
  <2>2. PICK n \in NextFiles : destination' = [destination EXCEPT ![n] = output[n]] /\ restoring' = restoring \ {n}
    BY <1>4 DEF RestoreFile
  <2>3. destination' \in Directory /\ destination'[n] = output[n] /\ \A m \in FileNames \ {n} : destination'[m] = destination[m]
    BY <1>3, <2>1, <2>2 DEF Directory
  <2>4. restoring' \subseteq FileNames /\ restoring' # None
    BY <1>3, <2>1, <2>2, SnapshotsAssumption
  <2>5. \A m \in Recorded \ restoring' : destination'[m] = inventory[m]
    <3>1. Recorded \subseteq FileNames
      BY DEF Recorded
    <3> QED
      BY <1>3, <2>1, <2>2, <2>3, <3>1
  <2>6. restoring' # {} => Db \in restoring' /\ destination'[Db] = None
    BY <1>3, <2>1, <2>2, <2>3, NamesApart
  <2>7. RestoreSound'
    BY <1>0, <1>1, <1>3, <2>1, <2>2, <2>4, <2>5, <2>6 DEF RestoreSound
  <2>8. destination' # None
    BY <2>3, SnapshotsAssumption
  <2> QED
    BY <1>0, <1>1, <2>3, <2>4, <2>7, <2>8 DEF SnapshotInv, SnapshotRows
<1>5. CASE StopRestore
  <2>1. restoring # None /\ restoring # {} /\ restoring' = None
    BY <1>5 DEF StopRestore
  <2>2. PICK n \in NextFiles : destination' = [destination EXCEPT ![n] = [output[n] EXCEPT !.whole = FALSE]]
    BY <1>5 DEF StopRestore
  <2> DEFINE torn == [output[n] EXCEPT !.whole = FALSE]
  <2>3. torn \in File /\ ~torn.whole
    BY <1>3, <2>1, FilesAre
  <2> HIDE DEF torn
  <2>4. destination' = [destination EXCEPT ![n] = torn]
    BY <2>2 DEF torn
  <2>5. destination' \in Directory /\ (destination'[Db] # None => ~destination'[Db].whole)
    BY <1>3, <2>1, <2>3, <2>4, NamesApart DEF Directory
  <2>6. RestoreSound'
    BY <1>0, <1>3, <2>1, <2>5 DEF RestoreSound
  <2>7. SnapshotRows'
    BY <1>0, <2>1, <2>5 DEF SnapshotInv, SnapshotRows
  <2> QED
    BY <1>1, <2>1, <2>6, <2>7 DEF SnapshotInv
<1> QED
  BY <1>2, <1>4, <1>5 DEF restore

\* Wherever an export or a restore was cut, and whatever the service wrote
\* meanwhile, a backup with a manifest can be restored (unless the configuration
\* was replaced under it or the medium spoiled it), holds the originals and grants
\* nothing; a restored directory with a whole database is all of it (backup.rs).
THEOREM BackupsAreWhole == SnapshotsSpec => []BackupsHold
<1>1. SnapshotsInit => SnapshotInv
  <2> SUFFICES ASSUME SnapshotsInit PROVE SnapshotInv
    OBVIOUS
  <2> DEFINE db == [version |-> 0, whole |-> TRUE, grants |-> TRUE]
  <2>1. db \in File /\ db.whole
    BY SnapshotsAssumption DEF File
  <2>2. db # None
    BY <2>1, FilesAre
  <2> HIDE DEF db
  <2>3. live = [n \in FileNames |-> IF n = Db THEN db ELSE None]
    BY DEF SnapshotsInit, db, Db
  <2>4. live \in Directory /\ live[Db] = db /\ live[Config] = None /\ \A d \in Originals : live[d] = None
    BY <2>1, <2>3, NamesApart DEF Directory
  <2>5. /\ saving = None /\ output = None /\ inventory = None /\ exporting = None /\ had = {} /\ replaced = FALSE
        /\ spoiled = FALSE /\ destination = None /\ restoring = None
    BY DEF SnapshotsInit
  <2>6. SnapshotRows
    BY <2>4, <2>5 DEF SnapshotRows
  <2>7. LiveSound
    BY <2>1, <2>2, <2>4, <2>5 DEF LiveSound
  <2> QED
    BY <2>5, <2>6, <2>7 DEF SnapshotInv, ExportSound, BackupSound, RestoreSound
<1>2. SnapshotInv /\ [SnapshotsNext]_snapshots_vars => SnapshotInv'
  <2> SUFFICES ASSUME SnapshotInv, [SnapshotsNext]_snapshots_vars PROVE SnapshotInv'
    OBVIOUS
  <2>1. CASE UNCHANGED snapshots_vars
    BY <2>1 DEF snapshots_vars, SnapshotInv, SnapshotRows, LiveSound, ExportSound, BackupSound, RestoreSound,
           Recorded, Verified, Present
  <2> QED
    BY <2>1, ServiceKeeps, BeginKeeps, DatabaseKeeps, ConfigKeeps, DocumentsKeep, ManifestKeeps, StopExportKeeps,
       SpoilKeeps, RestoreKeeps DEF SnapshotsNext, TakeBackup
<1>3. SnapshotInv => BackupsHold
  <2> SUFFICES ASSUME SnapshotInv PROVE BackupsHold
    OBVIOUS
  <2>1. inventory # None => (spoiled \/ replaced \/ Verified) /\ had \subseteq Recorded /\ ~inventory["travel.db"].grants
    BY DEF SnapshotInv, BackupSound, Db
  <2>2. ASSUME destination # None, destination[Db] # None, destination[Db].whole
        PROVE  \A n \in Recorded : destination[n] = inventory[n]
    <3>1. restoring # None /\ restoring = {}
      BY <2>2 DEF SnapshotInv, RestoreSound
    <3> QED
      BY <2>2, <3>1 DEF SnapshotInv, RestoreSound
  <2> QED
    BY <2>1, <2>2 DEF BackupsHold, Db
<1> QED
  BY <1>1, <1>2, <1>3, PTL DEF SnapshotsSpec

-----------------------------------------------------------------------------
(* Evidence.  A walk through a thread owes neighbours only for what is in  *)
(* its queue, unless it met the limit, and every walk ends with an empty   *)
(* queue; what an export has recorded of a file holds until something of   *)
(* its name is written.                                                    *)

ExpansionRecord ==
  [phase : {"up", "down", "done"}, head : Heads, fetched : SUBSET Letters, matched : SUBSET Letters,
   included : SUBSET Letters, ancestors : SUBSET Letters, descendants : SUBSET Letters, queue : SUBSET Letters,
   limited : BOOLEAN, missing : SUBSET (Letters \cup Seq(Letters))]

\* A walk owes the neighbours of what is in its queue, and of nothing else it
\* has reached, unless the limit was met.
WalksOwe ==
  LET x == expansion IN
  /\ x.limited \/ \A m \in x.matched \cup x.ancestors :
       (x.phase = "up" /\ m \in x.queue) \/ parent_by_uid(m) \subseteq x.included
  /\ x.limited \/ x.phase = "up" \/ \A m \in x.matched \cup x.descendants :
       (x.phase = "down" /\ m \in x.queue) \/ children_by_uid(m) \subseteq x.included
  /\ x.phase = "up" => x.descendants = {}

IncludedBounded ==
  LET x == expansion IN
  Cardinality(x.included) <= ThreadLimit \/ Cardinality(x.included) <= Cardinality(x.matched)

ExpansionInv ==
  expansion.phase # "idle" =>
    /\ expansion \in ExpansionRecord
    /\ expansion.included \subseteq expansion.fetched
    /\ expansion.matched \cup expansion.ancestors \cup expansion.descendants \subseteq expansion.included
    /\ WalksOwe /\ IncludedBounded
    /\ expansion.phase = "done" => expansion.missing = missing_parents

\* What verification said was so when it was said.
VerifiedRightly == verified # None /\ verified.ok => verified.whole /\ verified.alone

\* The file of a record was replaced only by one of its name.
RecordsHold ==
  \A p \in export.provenance :
    /\ p.file \in DOMAIN export.files
    /\ \/ export.files[p.file] = p.sha256
       \/ \E q \in export.provenance : q # p /\ p.file \in {q.file, extracted_text_filename(q.file)}
       \/ p.file \in export.noted

ExportInv ==
  /\ export = [left |-> export.left, extract |-> export.extract, files |-> export.files,
               provenance |-> export.provenance, noted |-> export.noted]
  /\ export.left \in Seq(Attached) /\ RecordsHold

EvidenceInv == ExpansionInv /\ VerifiedRightly /\ ExportInv

\* Where a walk may go: only over the messages fetched.
LEMMA NeighboursFetched ==
  ASSUME expansion \in ExpansionRecord, NEW m \in Letters
  PROVE  /\ parent_by_uid(m) \subseteq expansion.fetched /\ children_by_uid(m) \subseteq expansion.fetched
         /\ parent_ids(m) \subseteq Letters \cup Seq(Letters)
<1>1. expansion.head[m] \in HeaderThreadMessage
  BY HeadsAssumption DEF ExpansionRecord
<1>2. expansion.head[m].in_reply_to \in Letters \cup {None} /\ expansion.head[m].references \in Seq(Letters)
  BY <1>1 DEF HeaderThreadMessage
<1>3. ASSUME NEW r \in Seq(Letters) PROVE extract_message_ids(r) \subseteq Letters \cup Seq(Letters)
  BY <1>3 DEF extract_message_ids
<1>4. parent_ids(m) \subseteq Letters \cup Seq(Letters)
  BY <1>2, <1>3 DEF parent_ids
<1>5. parent_by_uid(m) \subseteq expansion.fetched /\ children_by_uid(m) \subseteq expansion.fetched
  BY DEF parent_by_uid, children_by_uid
<1> QED
  BY <1>4, <1>5

\* One step of a walk: what it takes is new, and the rest is owed to the limit.
Taken(m, neighbours, reached, y) ==
  /\ y \in ExpansionRecord
  /\ y.phase = expansion.phase /\ y.head = expansion.head /\ y.fetched = expansion.fetched
  /\ y.matched = expansion.matched /\ y.ancestors = expansion.ancestors
  /\ y.descendants = expansion.descendants
  /\ expansion.included \subseteq y.included /\ y.included \subseteq expansion.included \cup neighbours
  /\ expansion.limited => y.limited
  /\ y.limited \/ neighbours \subseteq y.included
  /\ expansion.queue \ {m} \subseteq y.queue
  /\ \A k \in neighbours \cap y.included : k \in reached \/ k \in y.queue
  /\ Cardinality(y.included) <= ThreadLimit \/ Cardinality(y.included) <= Cardinality(y.matched)

LEMMA WalkTakes ==
  ASSUME expansion \in ExpansionRecord, IncludedBounded, expansion.matched \subseteq expansion.included,
         NEW m \in expansion.queue, NEW neighbours \in SUBSET expansion.fetched,
         NEW reached \in SUBSET expansion.included, NEW y \in Walk(m, neighbours, reached)
  PROVE  Taken(m, neighbours, reached, y)
<1> DEFINE x == expansion
           owed == neighbours \ reached
           new == owed \ x.included
           room == IF Cardinality(x.included) >= ThreadLimit THEN 0 ELSE ThreadLimit - Cardinality(x.included)
           size == Min({room, Cardinality(new)})
<1>1. PICK taken \in kSubset(size, new) :
        y = [x EXCEPT !.included = @ \cup taken, !.queue = (@ \ {m}) \cup taken \cup (owed \cap x.included),
                      !.limited = @ \/ taken # new]
  BY DEF Walk
<1>2. taken \subseteq new /\ Cardinality(taken) = size
  BY DEF kSubset
<1>3. /\ x.included \subseteq Letters /\ x.matched \subseteq Letters /\ x.fetched \subseteq Letters
      /\ x.queue \subseteq Letters /\ x.limited \in BOOLEAN
  BY DEF ExpansionRecord
<1>4. /\ y.included = x.included \cup taken /\ y.matched = x.matched
      /\ y.queue = (x.queue \ {m}) \cup taken \cup (owed \cap x.included)
      /\ y.limited = (x.limited \/ taken # new)
      /\ y.phase = x.phase /\ y.head = x.head /\ y.fetched = x.fetched
      /\ y.ancestors = x.ancestors /\ y.descendants = x.descendants
  BY <1>1 DEF ExpansionRecord
<1>5. y \in ExpansionRecord
  <2>1. x.included \cup taken \in SUBSET Letters
        /\ (x.queue \ {m}) \cup taken \cup (owed \cap x.included) \in SUBSET Letters
        /\ (x.limited \/ taken # new) \in BOOLEAN
    BY <1>2, <1>3
  <2> HIDE DEF owed, new, room, size
  <2> QED
    BY <1>1, <2>1 DEF ExpansionRecord
<1>6. Cardinality(y.included) <= ThreadLimit \/ Cardinality(y.included) <= Cardinality(y.matched)
  <2>1. IsFiniteSet(x.included) /\ IsFiniteSet(taken) /\ IsFiniteSet(new) /\ x.included \cap taken = {}
    BY <1>2, <1>3, FS_Subset, EvidenceAssumption
  <2>2. Cardinality(x.included) \in Nat /\ Cardinality(taken) \in Nat /\ Cardinality(new) \in Nat
    BY <2>1, FS_CardinalityType
  <2>3. Cardinality(x.included \cup taken) = Cardinality(x.included) + Cardinality(taken)
    <3>1. Cardinality(x.included \cap taken) = 0
      BY <2>1, FS_EmptySet
    <3>2. Cardinality(x.included \cup taken)
            = Cardinality(x.included) + Cardinality(taken) - Cardinality(x.included \cap taken)
      BY <2>1, FS_Union
    <3> QED
      BY <2>2, <3>1, <3>2
  <2>4. room \in Nat /\ (Cardinality(x.included) >= ThreadLimit => room = 0)
        /\ (~(Cardinality(x.included) >= ThreadLimit) => room = ThreadLimit - Cardinality(x.included))
    BY <2>2, EvidenceAssumption
  <2>5. size <= room
    <3> HIDE DEF room, new
    <3>1. \E z \in {room, Cardinality(new)} : \A w \in {room, Cardinality(new)} : z <= w
      BY <2>2, <2>4
    <3> QED
      BY <3>1, <2>2, <2>4 DEF Min
  <2> HIDE DEF room, size, new
  <2>6. Cardinality(x.included) <= ThreadLimit \/ Cardinality(x.included) <= Cardinality(x.matched)
    BY DEF IncludedBounded
  <2>7. Cardinality(x.matched) \in Nat
    BY <1>3, FS_Subset, FS_CardinalityType, EvidenceAssumption
  <2>8. Cardinality(y.included) = Cardinality(x.included) + size
    BY <1>2, <1>4, <2>3
  <2>9. size \in Nat
    BY <1>2, <2>2
  <2> HIDE DEF x
  <2>10. CASE Cardinality(x.included) >= ThreadLimit
    BY <2>2, <2>4, <2>5, <2>6, <2>7, <2>8, <2>9, <2>10, <1>4, EvidenceAssumption
  <2>11. CASE ~(Cardinality(x.included) >= ThreadLimit)
    BY <2>2, <2>4, <2>5, <2>8, <2>9, <2>11, EvidenceAssumption
  <2> QED
    BY <2>10, <2>11
<1>7. y.limited \/ neighbours \subseteq y.included
  BY <1>3, <1>4
<1>8. \A k \in neighbours \cap y.included : k \in reached \/ k \in y.queue
  BY <1>4
<1>9. y.included \subseteq expansion.included \cup neighbours
  BY <1>2, <1>4
<1>10. expansion.limited => y.limited
  BY <1>4
<1>11. expansion.queue \ {m} \subseteq y.queue /\ expansion.included \subseteq y.included
  BY <1>4
<1> QED
  BY <1>4, <1>5, <1>6, <1>7, <1>8, <1>9, <1>10, <1>11 DEF Taken

\* The matches are all that an expansion begins with.
LEMMA ExpansionStarts == ASSUME ExpansionInv, StartExpansion PROVE ExpansionInv'
<1> PICK letters \in SUBSET Letters, head \in Heads, matched \in SUBSET Letters :
       /\ matched \subseteq letters
       /\ expansion' = [phase |-> "up", head |-> head, fetched |-> letters, matched |-> matched, included |-> matched,
                        ancestors |-> {}, descendants |-> {}, queue |-> matched,
                        limited |-> Cardinality(matched) > ThreadLimit, missing |-> {}]
  BY Zenon DEF StartExpansion
<1>1. Cardinality(matched) \in Nat
  BY FS_Subset, FS_CardinalityType, EvidenceAssumption
<1>2. expansion' \in ExpansionRecord
  <2>1. (Cardinality(matched) > ThreadLimit) \in BOOLEAN
    OBVIOUS
  <2> QED
    BY <2>1 DEF ExpansionRecord
<1>3. WalksOwe'
  BY DEF WalksOwe
<1>4. IncludedBounded'
  BY <1>1 DEF IncludedBounded
<1> QED
  BY <1>2, <1>3, <1>4 DEF ExpansionInv

\* A step up the thread.
LEMMA UpKeeps ==
  ASSUME ExpansionInv, expansion.phase = "up", NEW m \in expansion.queue,
         NEW y \in Walk(m, parent_by_uid(m), expansion.ancestors),
         expansion' = [y EXCEPT !.ancestors = expansion.ancestors \cup (parent_by_uid(m) \cap y.included)]
  PROVE  ExpansionInv'
<1> DEFINE x == expansion
           seen == x.ancestors \cup (parent_by_uid(m) \cap y.included)
<1>1. /\ x \in ExpansionRecord /\ x.included \subseteq x.fetched
      /\ x.matched \cup x.ancestors \cup x.descendants \subseteq x.included
      /\ WalksOwe /\ IncludedBounded
  BY DEF ExpansionInv
<1>2. m \in Letters
  BY <1>1 DEF ExpansionRecord
<1>3. /\ parent_by_uid(m) \in SUBSET x.fetched /\ x.ancestors \in SUBSET x.included
      /\ x.matched \subseteq x.included
  BY <1>1, <1>2, NeighboursFetched
<1>4. /\ y \in ExpansionRecord
      /\ y.phase = x.phase /\ y.head = x.head /\ y.fetched = x.fetched
      /\ y.matched = x.matched /\ y.ancestors = x.ancestors /\ y.descendants = x.descendants
      /\ x.included \subseteq y.included /\ y.included \subseteq x.included \cup parent_by_uid(m)
      /\ x.limited => y.limited
      /\ y.limited \/ parent_by_uid(m) \subseteq y.included
      /\ x.queue \ {m} \subseteq y.queue
      /\ \A k \in parent_by_uid(m) \cap y.included : k \in x.ancestors \/ k \in y.queue
      /\ Cardinality(y.included) <= ThreadLimit \/ Cardinality(y.included) <= Cardinality(y.matched)
  <2>1. Taken(m, parent_by_uid(m), x.ancestors, y)
    BY <1>1, <1>3, WalkTakes
  <2> QED
    BY <2>1 DEF Taken
<1>5. seen \subseteq y.included /\ y.included \subseteq y.fetched /\ seen \subseteq Letters
  <2>1. seen \subseteq y.included /\ y.included \subseteq y.fetched
    BY <1>1, <1>3, <1>4
  <2> QED
    BY <1>4, <2>1 DEF ExpansionRecord
<1>0. expansion' = [y EXCEPT !.ancestors = seen]
  OBVIOUS
<1>6. /\ expansion' \in ExpansionRecord
      /\ expansion'.phase = "up" /\ expansion'.head = x.head /\ expansion'.fetched = x.fetched
      /\ expansion'.matched = x.matched /\ expansion'.ancestors = seen /\ expansion'.descendants = x.descendants
      /\ expansion'.included = y.included /\ expansion'.queue = y.queue /\ expansion'.limited = y.limited
  <2> HIDE DEF seen
  <2> QED
    BY <1>0, <1>4, <1>5 DEF ExpansionRecord
<1>7. \A k : parent_by_uid(k)' = parent_by_uid(k)
  BY <1>6 DEF parent_by_uid, parent_ids
<1>8. y.limited \/ \A k \in x.matched \cup seen : k \in y.queue \/ parent_by_uid(k) \subseteq y.included
  <2> SUFFICES ASSUME ~y.limited, NEW k \in x.matched \cup seen, k \notin y.queue
               PROVE  parent_by_uid(k) \subseteq y.included
    OBVIOUS
  <2>1. CASE k = m
    BY <1>4, <2>1
  <2>2. CASE k # m
    <3>1. k \in x.matched \cup x.ancestors /\ k \notin x.queue /\ ~x.limited
      BY <1>4, <2>2
    <3>2. parent_by_uid(k) \subseteq x.included
      BY <1>1, <3>1 DEF WalksOwe
    <3> QED
      BY <1>4, <3>2
  <2> QED
    BY <2>1, <2>2
<1>9. WalksOwe'
  <2> HIDE DEF seen
  <2>1. x.descendants = {}
    BY <1>1 DEF WalksOwe
  <2> QED
    BY <1>6, <1>7, <1>8, <2>1 DEF WalksOwe
<1>10. IncludedBounded'
  BY <1>4, <1>6 DEF IncludedBounded
<1>11. /\ expansion'.included \subseteq expansion'.fetched
       /\ expansion'.matched \cup expansion'.ancestors \cup expansion'.descendants \subseteq expansion'.included
  BY <1>1, <1>4, <1>5, <1>6
<1> QED
  BY <1>6, <1>9, <1>10, <1>11 DEF ExpansionInv

\* A step down the thread.
LEMMA DownKeeps ==
  ASSUME ExpansionInv, expansion.phase = "down", NEW m \in expansion.queue,
         NEW y \in Walk(m, children_by_uid(m), expansion.descendants),
         expansion' = [y EXCEPT !.descendants = expansion.descendants \cup (children_by_uid(m) \cap y.included)]
  PROVE  ExpansionInv'
<1> DEFINE x == expansion
           seen == x.descendants \cup (children_by_uid(m) \cap y.included)
<1>1. /\ x \in ExpansionRecord /\ x.included \subseteq x.fetched
      /\ x.matched \cup x.ancestors \cup x.descendants \subseteq x.included
      /\ WalksOwe /\ IncludedBounded
  BY DEF ExpansionInv
<1>2. m \in Letters
  BY <1>1 DEF ExpansionRecord
<1>3. /\ children_by_uid(m) \in SUBSET x.fetched /\ x.descendants \in SUBSET x.included
      /\ x.matched \subseteq x.included
  BY <1>1, <1>2, NeighboursFetched
<1>4. /\ y \in ExpansionRecord
      /\ y.phase = x.phase /\ y.head = x.head /\ y.fetched = x.fetched
      /\ y.matched = x.matched /\ y.ancestors = x.ancestors /\ y.descendants = x.descendants
      /\ x.included \subseteq y.included /\ y.included \subseteq x.included \cup children_by_uid(m)
      /\ x.limited => y.limited
      /\ y.limited \/ children_by_uid(m) \subseteq y.included
      /\ x.queue \ {m} \subseteq y.queue
      /\ \A k \in children_by_uid(m) \cap y.included : k \in x.descendants \/ k \in y.queue
      /\ Cardinality(y.included) <= ThreadLimit \/ Cardinality(y.included) <= Cardinality(y.matched)
  <2>1. Taken(m, children_by_uid(m), x.descendants, y)
    BY <1>1, <1>3, WalkTakes
  <2> QED
    BY <2>1 DEF Taken
<1>5. seen \subseteq y.included /\ y.included \subseteq y.fetched /\ seen \subseteq Letters
  <2>1. seen \subseteq y.included /\ y.included \subseteq y.fetched
    BY <1>1, <1>3, <1>4
  <2> QED
    BY <1>4, <2>1 DEF ExpansionRecord
<1>0. expansion' = [y EXCEPT !.descendants = seen]
  OBVIOUS
<1>6. /\ expansion' \in ExpansionRecord
      /\ expansion'.phase = "down" /\ expansion'.head = x.head /\ expansion'.fetched = x.fetched
      /\ expansion'.matched = x.matched /\ expansion'.ancestors = x.ancestors /\ expansion'.descendants = seen
      /\ expansion'.included = y.included /\ expansion'.queue = y.queue /\ expansion'.limited = y.limited
  <2> HIDE DEF seen
  <2> QED
    BY <1>0, <1>4, <1>5 DEF ExpansionRecord
<1>7. \A k : parent_by_uid(k)' = parent_by_uid(k) /\ children_by_uid(k)' = children_by_uid(k)
  BY <1>6 DEF parent_by_uid, children_by_uid, parent_ids
<1>8. y.limited \/ \A k \in x.matched \cup seen : k \in y.queue \/ children_by_uid(k) \subseteq y.included
  <2> SUFFICES ASSUME ~y.limited, NEW k \in x.matched \cup seen, k \notin y.queue
               PROVE  children_by_uid(k) \subseteq y.included
    OBVIOUS
  <2>1. CASE k = m
    BY <1>4, <2>1
  <2>2. CASE k # m
    <3>1. k \in x.matched \cup x.descendants /\ k \notin x.queue /\ ~x.limited
      BY <1>4, <2>2
    <3>2. children_by_uid(k) \subseteq x.included
      BY <1>1, <3>1 DEF WalksOwe
    <3> QED
      BY <1>4, <3>2
  <2> QED
    BY <2>1, <2>2
<1>9. y.limited \/ \A k \in x.matched \cup x.ancestors : parent_by_uid(k) \subseteq y.included
  <2>1. x.limited \/ \A k \in x.matched \cup x.ancestors : parent_by_uid(k) \subseteq x.included
    BY <1>1 DEF WalksOwe
  <2> QED
    BY <1>4, <2>1
<1>10. WalksOwe'
  <2> HIDE DEF seen
  <2> QED
    BY <1>6, <1>7, <1>8, <1>9 DEF WalksOwe
<1>11. IncludedBounded'
  BY <1>4, <1>6 DEF IncludedBounded
<1>12. /\ expansion'.included \subseteq expansion'.fetched
       /\ expansion'.matched \cup expansion'.ancestors \cup expansion'.descendants \subseteq expansion'.included
  BY <1>1, <1>4, <1>5, <1>6
<1> QED
  BY <1>6, <1>10, <1>11, <1>12 DEF ExpansionInv

\* A walk ends when its queue is empty, and then owes nothing.
LEMMA WalkEnds ==
  ASSUME ExpansionInv, expansion.phase \in {"up", "down"}, expansion.queue = {},
         expansion' = IF expansion.phase = "up"
                        THEN [expansion EXCEPT !.phase = "down", !.queue = expansion.matched]
                        ELSE [expansion EXCEPT !.phase = "done", !.missing = missing_parents]
  PROVE  ExpansionInv'
<1> DEFINE x == expansion
<1>1. /\ x \in ExpansionRecord /\ x.included \subseteq x.fetched
      /\ x.matched \cup x.ancestors \cup x.descendants \subseteq x.included
      /\ WalksOwe /\ IncludedBounded
  BY DEF ExpansionInv
<1>2. missing_parents \in SUBSET (Letters \cup Seq(Letters))
  <2>1. \A m \in x.matched : parent_ids(m) \subseteq Letters \cup Seq(Letters)
    BY <1>1, NeighboursFetched DEF ExpansionRecord
  <2> QED
    BY <2>1 DEF missing_parents
<1>3. /\ expansion' \in ExpansionRecord
      /\ expansion'.head = x.head /\ expansion'.fetched = x.fetched
      /\ expansion'.matched = x.matched /\ expansion'.ancestors = x.ancestors
      /\ expansion'.descendants = x.descendants
      /\ expansion'.included = x.included /\ expansion'.limited = x.limited
      /\ x.phase = "up" => expansion'.phase = "down" /\ expansion'.queue = x.matched
      /\ x.phase = "down" => expansion'.phase = "done" /\ expansion'.missing = missing_parents
  BY <1>1, <1>2 DEF ExpansionRecord
<1>4. \A k : parent_ids(k)' = parent_ids(k) /\ parent_by_uid(k)' = parent_by_uid(k)
             /\ children_by_uid(k)' = children_by_uid(k)
  BY <1>3 DEF parent_by_uid, children_by_uid, parent_ids
<1>5. missing_parents' = missing_parents
  BY <1>3, <1>4 DEF missing_parents
<1>6. WalksOwe'
  <2>1. x.limited \/ \A k \in x.matched \cup x.ancestors : parent_by_uid(k) \subseteq x.included
    BY <1>1 DEF WalksOwe
  <2>2. CASE x.phase = "up"
    <3>1. x.descendants = {}
      BY <1>1, <2>2 DEF WalksOwe
    <3> QED
      BY <1>3, <1>4, <2>1, <2>2, <3>1 DEF WalksOwe
  <2>3. CASE x.phase = "down"
    <3>1. x.limited \/ \A k \in x.matched \cup x.descendants : children_by_uid(k) \subseteq x.included
      BY <1>1, <2>3 DEF WalksOwe
    <3> QED
      BY <1>3, <1>4, <2>1, <2>3, <3>1 DEF WalksOwe
  <2> QED
    BY <2>2, <2>3
<1>7. IncludedBounded'
  BY <1>1, <1>3 DEF IncludedBounded
<1> QED
  BY <1>1, <1>3, <1>5, <1>6, <1>7 DEF ExpansionInv

LEMMA StepKeeps == ASSUME ExpansionInv, Step PROVE ExpansionInv'
<1>1. CASE expansion.queue = {} /\
           expansion' = IF expansion.phase = "up"
                          THEN [expansion EXCEPT !.phase = "down", !.queue = expansion.matched]
                          ELSE [expansion EXCEPT !.phase = "done", !.missing = missing_parents]
  BY <1>1, WalkEnds DEF Step
<1>2. ASSUME expansion.phase = "up", NEW m \in expansion.queue,
             NEW y \in Walk(m, parent_by_uid(m), expansion.ancestors),
             expansion' = [y EXCEPT !.ancestors = expansion.ancestors \cup (parent_by_uid(m) \cap y.included)]
      PROVE  ExpansionInv'
  BY <1>2, UpKeeps
<1>3. ASSUME expansion.phase = "down", NEW m \in expansion.queue,
             NEW y \in Walk(m, children_by_uid(m), expansion.descendants),
             expansion' = [y EXCEPT !.descendants = expansion.descendants \cup (children_by_uid(m) \cap y.included)]
      PROVE  ExpansionInv'
  BY <1>3, DownKeeps
<1>4. CASE expansion.phase = "up"
  BY <1>1, <1>2, <1>4 DEF Step
<1>5. CASE expansion.phase = "down"
  BY <1>1, <1>3, <1>5 DEF Step
<1> QED
  BY <1>4, <1>5 DEF Step

\* An attachment is written, and its record with it.
LEMMA AttachmentKeeps == ASSUME ExportInv, export_one_attachment PROVE ExportInv'
<1> DEFINE a == Head(export.left)
           file == normalize_attachment_filename(a.name)
           texted == export.extract /\ a.text
           texts == {t \in {extracted_text_filename(file)} : texted}
           record == [name |-> a.name, file |-> file, sha256 |-> a.bytes]
           written == [f \in DOMAIN export.files \cup {file} \cup texts |->
                         IF f \in texts THEN "text" ELSE IF f = file THEN a.bytes ELSE export.files[f]]
<1>1. /\ export = [left |-> export.left, extract |-> export.extract, files |-> export.files,
                   provenance |-> export.provenance, noted |-> export.noted]
      /\ export.left \in Seq(Attached) /\ export.left # <<>> /\ RecordsHold
  BY DEF ExportInv, export_one_attachment
<1>2. a \in Attached /\ Tail(export.left) \in Seq(Attached)
  BY <1>1
<1>3. extracted_text_filename(file) # file
  BY <1>2, EvidenceAssumption
<1>4. export' = [export EXCEPT !.left = Tail(@), !.files = written, !.provenance = @ \cup {record}]
  BY DEF export_one_attachment
<1> HIDE DEF file, texts, record, written
<1>5. /\ export' = [left |-> export'.left, extract |-> export'.extract, files |-> export'.files,
                    provenance |-> export'.provenance, noted |-> export'.noted]
      /\ export'.left = Tail(export.left) /\ export'.files = written
      /\ export'.provenance = export.provenance \cup {record} /\ export'.noted = export.noted
  BY <1>1, <1>4
<1>6. record.file = file /\ record.sha256 = a.bytes
  BY DEF record
<1>7. DOMAIN written = DOMAIN export.files \cup {file} \cup texts
  BY DEF written
<1>8. texts \subseteq {extracted_text_filename(file)}
  BY DEF texts
<1>9. \A f \in DOMAIN written : f \notin texts => written[f] = IF f = file THEN a.bytes ELSE export.files[f]
  BY <1>7 DEF written
<1>10. ASSUME NEW p \in export'.provenance
       PROVE  /\ p.file \in DOMAIN written
              /\ \/ written[p.file] = p.sha256
                 \/ \E q \in export'.provenance : q # p /\ p.file \in {q.file, extracted_text_filename(q.file)}
                 \/ p.file \in export.noted
  <2>1. CASE p = record
    <3>1. p.file = file /\ file \in DOMAIN written /\ file \notin texts
      BY <1>3, <1>6, <1>7, <1>8, <2>1
    <3> QED
      BY <1>6, <1>9, <2>1, <3>1
  <2>2. CASE p # record
    <3>1. p \in export.provenance /\ p.file \in DOMAIN written
      BY <1>1, <1>5, <1>7, <2>2 DEF RecordsHold
    <3>2. CASE p.file = file \/ p.file \in texts
      BY <1>5, <1>6, <1>8, <2>2, <3>1, <3>2
    <3>3. CASE p.file # file /\ p.file \notin texts
      <4>1. written[p.file] = export.files[p.file]
        BY <1>9, <3>1, <3>3
      <4> QED
        BY <1>1, <1>5, <3>1, <4>1 DEF RecordsHold
    <3> QED
      BY <3>2, <3>3
  <2> QED
    BY <2>1, <2>2
<1>11. RecordsHold'
  BY <1>5, <1>10 DEF RecordsHold
<1> QED
  BY <1>2, <1>5, <1>11 DEF ExportInv

\* The notes are written beside them, or over what has their names.
LEMMA NotesKeep == ASSUME ExportInv, write_attachment_message_notes PROVE ExportInv'
<1> DEFINE written == [f \in DOMAIN export.files \cup NoteFiles |-> IF f \in NoteFiles THEN "note" ELSE export.files[f]]
<1>1. /\ export = [left |-> export.left, extract |-> export.extract, files |-> export.files,
                   provenance |-> export.provenance, noted |-> export.noted]
      /\ export.left \in Seq(Attached) /\ RecordsHold /\ export.noted = {}
  BY DEF ExportInv, write_attachment_message_notes
<1>2. export' = [export EXCEPT !.files = written, !.noted = NoteFiles]
  BY DEF write_attachment_message_notes
<1>3. \A f \in DOMAIN export.files : f \in DOMAIN written /\ (f \notin NoteFiles => written[f] = export.files[f])
  OBVIOUS
<1> HIDE DEF written
<1>4. /\ export' = [left |-> export'.left, extract |-> export'.extract, files |-> export'.files,
                    provenance |-> export'.provenance, noted |-> export'.noted]
      /\ export'.left = export.left /\ export'.files = written
      /\ export'.provenance = export.provenance /\ export'.noted = NoteFiles
  BY <1>1, <1>2
<1>5. RecordsHold'
  BY <1>1, <1>3, <1>4 DEF RecordsHold
<1> QED
  BY <1>1, <1>4, <1>5 DEF ExportInv

LEMMA ExportStarts == ASSUME ExportInv, StartExport PROVE ExportInv'
<1> PICK a \in Attached, b \in Attached, text \in BOOLEAN :
       export' = [export EXCEPT !.left = <<a, b>>, !.extract = text]
  BY DEF StartExport
<1>1. <<a, b>> \in Seq(Attached)
  OBVIOUS
<1>2. export'.provenance = {} /\ export'.left = <<a, b>>
      /\ export' = [left |-> export'.left, extract |-> export'.extract, files |-> export'.files,
                    provenance |-> export'.provenance, noted |-> export'.noted]
  BY DEF StartExport, ExportInv
<1> QED
  BY <1>1, <1>2 DEF ExportInv, RecordsHold

\* A verification looks at every file it answers for.
LEMMA VerifyRight == ASSUME VerifiedRightly, verify_bundle PROVE VerifiedRightly'
<1> PICK strict \in BOOLEAN :
       verified' = IF manifest_reads
                     THEN [ok |-> /\ {f \in Records : bundle[f] = None} = {}
                                  /\ {f \in Records : bundle[f] = "bad"} = {}
                                  /\ ~top_level_digest_mismatch /\ (strict => bundle["extra"] = None),
                           whole |-> \A f \in Files : bundle[f] = "good",
                           alone |-> strict => bundle["extra"] = None]
                     ELSE None
  BY DEF verify_bundle
<1> QED
  BY DEF VerifiedRightly, top_level_digest_mismatch

\* The largest of two numbers.
LEMMA AtMostMax ==
  ASSUME NEW i \in Nat, NEW j \in Nat, NEW n \in Nat, n <= i \/ n <= j
  PROVE  n <= Max({i, j})
<1>1. \E x \in {i, j} : \A y \in {i, j} : x >= y
  OBVIOUS
<1>2. Max({i, j}) \in {i, j} /\ \A y \in {i, j} : Max({i, j}) >= y
  BY <1>1 DEF Max
<1> QED
  BY <1>2

(* An expansion of threads leaves out no parent or child it knows of       *)
(* without saying so and exceeds its limit by matches alone; a bundle that *)
(* verifies is whole; and every attachment exported is as recorded unless  *)
(* something of its name was written over it (evidence.rs                  *)
(* expand_header_threads, verify_bundle, export_one_attachment): for any   *)
(* messages, headers, limits and attachments.                              *)
THEOREM EvidenceIsAccounted == EvidenceSpec => []EvidenceAccounted
<1>1. EvidenceInit => EvidenceInv
  <2> SUFFICES ASSUME EvidenceInit PROVE EvidenceInv
    OBVIOUS
  <2>1. expansion.phase = "idle" /\ verified = None
    BY DEF EvidenceInit
  <2>2. export = [left |-> <<>>, extract |-> FALSE, files |-> <<>>, provenance |-> {}, noted |-> {}]
    BY DEF EvidenceInit
  <2>3. ExportInv
    BY <2>2 DEF ExportInv, RecordsHold
  <2> QED
    BY <2>1, <2>3 DEF EvidenceInv, ExpansionInv, VerifiedRightly
<1>2. EvidenceInv /\ [EvidenceNext]_evidence_vars => EvidenceInv'
  <2> SUFFICES ASSUME EvidenceInv, [EvidenceNext]_evidence_vars PROVE EvidenceInv'
    OBVIOUS
  <2>1. ASSUME UNCHANGED expansion PROVE ExpansionInv'
    <3>1. UNCHANGED missing_parents /\ UNCHANGED WalksOwe
      BY <2>1 DEF missing_parents, WalksOwe, parent_ids, parent_by_uid, children_by_uid
    <3> QED
      BY <2>1, <3>1 DEF EvidenceInv, ExpansionInv, IncludedBounded
  <2>2. ASSUME UNCHANGED verified PROVE VerifiedRightly'
    BY <2>2 DEF EvidenceInv, VerifiedRightly
  <2>3. ASSUME UNCHANGED export PROVE ExportInv'
    BY <2>3 DEF EvidenceInv, ExportInv, RecordsHold
  <2>4. ExpansionInv'
    <3>1. StartExpansion \/ Step \/ UNCHANGED expansion
      BY DEF EvidenceNext, evidence_vars, write_evidence_bundle, BundleDamage, verify_bundle, StartExport,
             export_one_attachment, write_attachment_message_notes
    <3> QED
      BY <2>1, <3>1, ExpansionStarts, StepKeeps DEF EvidenceInv
  <2>5. VerifiedRightly'
    <3>1. verify_bundle \/ UNCHANGED verified
      BY DEF EvidenceNext, evidence_vars, StartExpansion, Step, write_evidence_bundle, BundleDamage, StartExport,
             export_one_attachment, write_attachment_message_notes
    <3> QED
      BY <2>2, <3>1, VerifyRight DEF EvidenceInv
  <2>6. ExportInv'
    <3>1. StartExport \/ export_one_attachment \/ write_attachment_message_notes \/ UNCHANGED export
      BY DEF EvidenceNext, evidence_vars, StartExpansion, Step, write_evidence_bundle, BundleDamage, verify_bundle
    <3> QED
      BY <2>3, <3>1, ExportStarts, AttachmentKeeps, NotesKeep DEF EvidenceInv
  <2> QED
    BY <2>4, <2>5, <2>6 DEF EvidenceInv
<1>3. EvidenceInv => EvidenceAccounted
  <2> SUFFICES ASSUME EvidenceInv PROVE EvidenceAccounted
    OBVIOUS
  <2> DEFINE x == expansion
  <2>1. ASSUME x.phase = "done"
        PROVE  /\ x.limited \/ \A m \in x.included :
                    /\ m \in x.matched \cup x.ancestors => parent_by_uid(m) \subseteq x.included
                    /\ m \in x.matched \cup x.descendants => children_by_uid(m) \subseteq x.included
               /\ \A m \in x.matched : parent_ids(m) \subseteq x.included \cup x.missing \/ x.limited
               /\ Cardinality(x.included) <= Max({ThreadLimit, Cardinality(x.matched)})
    <3>1. x \in ExpansionRecord /\ WalksOwe /\ IncludedBounded /\ x.missing = missing_parents
      BY <2>1 DEF EvidenceInv, ExpansionInv
    <3>2. x.limited \/ \A m \in x.matched \cup x.ancestors : parent_by_uid(m) \subseteq x.included
      BY <2>1, <3>1 DEF WalksOwe
    <3>3. x.limited \/ \A m \in x.matched \cup x.descendants : children_by_uid(m) \subseteq x.included
      BY <2>1, <3>1 DEF WalksOwe
    <3>4. ASSUME NEW m \in x.matched, ~x.limited PROVE parent_ids(m) \subseteq x.included \cup x.missing
      <4>1. parent_ids(m) \cap x.fetched \subseteq x.included
        BY <3>2, <3>4 DEF parent_by_uid
      <4>2. parent_ids(m) \subseteq UNION {parent_ids(k) : k \in x.matched}
        OBVIOUS
      <4>3. parent_ids(m) \ x.fetched \subseteq x.missing
        BY <3>1, <4>2 DEF missing_parents
      <4> QED
        BY <4>1, <4>3
    <3>5. Cardinality(x.included) <= Max({ThreadLimit, Cardinality(x.matched)})
      <4>1. x.included \subseteq Letters /\ x.matched \subseteq Letters
        BY <3>1 DEF ExpansionRecord
      <4>2. Cardinality(x.included) \in Nat /\ Cardinality(x.matched) \in Nat /\ ThreadLimit \in Nat
        BY <4>1, FS_Subset, FS_CardinalityType, EvidenceAssumption
      <4> QED
        BY <3>1, <4>2, AtMostMax DEF IncludedBounded
    <3> QED
      BY <3>2, <3>3, <3>4, <3>5
  <2>2. verified # None /\ verified.ok => verified.whole /\ verified.alone
    BY DEF EvidenceInv, VerifiedRightly
  <2>3. \A p \in export.provenance :
          \/ export.files[p.file] = p.sha256
          \/ \E q \in export.provenance : q # p /\ p.file \in {q.file, extracted_text_filename(q.file)}
          \/ p.file \in export.noted
    BY DEF EvidenceInv, ExportInv, RecordsHold
  <2> QED
    BY <2>1, <2>2, <2>3 DEF EvidenceAccounted
<1> QED
  BY <1>1, <1>2, <1>3, PTL DEF EvidenceSpec

-----------------------------------------------------------------------------
(* The restore of an archive.  A line of the sidecar counts once it has its *)
(* newline: a malformed one pays for one copy of the message it holds, and *)
(* the lines that can be read pay for one together, since what they hold is *)
(* not planned again.  The message noted as pending is paid for when the   *)
(* newline is written, before the APPEND.                                  *)

RestoreRun ==
  [step : {"idle", "next", "append", "done", "newline before", "newline after"},
   plan : SUBSET Archived, message : SUBSET Archived]

RestoreRows ==
  /\ files \in [Archived -> {"absent", "whole", "resized", "altered", "symlink"}]
  /\ sidecar \in Seq(Seq(RestoreStateRecord)) /\ \A i \in DOMAIN sidecar : sidecar[i] # <<>>
  /\ unended \in BOOLEAN /\ (unended => sidecar # <<>>)
  /\ run \in RestoreRun /\ appended \in [Archived -> Nat]

\* A line that has its newline does not change any more.
Ended == {i \in DOMAIN sidecar : unended => i < Len(sidecar)}
Mentioned(i, m) == \E e \in Range(sidecar[i]) : e.message = m
Charged(m) == {i \in Ended \cap Malformed : Mentioned(i, m)}
ReadBack(m) == \E i \in Ended \ Malformed : sidecar[i][1].message = m

\* An ended line pays for each copy: a malformed one each, the others one together.
PaidByLines(m) == appended[m] <= Cardinality(Charged(m)) + IF ReadBack(m) THEN 1 ELSE 0
OneMore(m) == appended[m] + 1 <= Cardinality(Charged(m)) + IF ReadBack(m) THEN 1 ELSE 0

\* What a restore is about to append has been noted, and nothing noted and
\* readable is planned.
RestoreRunSound ==
  /\ run.plan \cap run.message = {} /\ \A m \in run.plan : ~ReadBack(m)
  /\ \A a, b \in run.message : a = b
  /\ run.step \in {"append", "done"} => ~unended
  /\ run.step \in {"newline before", "newline after"} =>
       unended /\ run.message = {Last(Last(sidecar)).message}
  /\ run.step = "newline before" => \A m \in run.message : ~ReadBack(m)
  /\ run.step = "append" => \A m \in run.message : OneMore(m)
  /\ run.step = "done" => \A m \in run.message : appended[m] # 0

\* A message noted as done was appended.
DoneBacked == \A i \in DOMAIN sidecar : \A e \in Range(sidecar[i]) : e.status = "done" => appended[e.message] # 0

RestoreInv == RestoreRows /\ RestoreRunSound /\ DoneBacked /\ \A m \in Archived : PaidByLines(m)

BadLine(line) == Len(line) > 1 \/ line[1].status = "torn"

\* Replacing one element of a sequence, and the last element of one that is not empty.
LEMMA OneReplaced ==
  ASSUME NEW T, NEW q \in Seq(T), NEW j \in 1..Len(q), NEW v \in T
  PROVE  LET r == [q EXCEPT ![j] = v]
         IN /\ r \in Seq(T) /\ Len(r) = Len(q) /\ DOMAIN r = 1..Len(q)
            /\ r[j] = v /\ \A i \in 1..Len(q) : i # j => r[i] = q[i]
<1> DEFINE r == [q EXCEPT ![j] = v]
<1>1. r \in Seq(T) /\ Len(r) = Len(q) /\ DOMAIN r = DOMAIN q /\ DOMAIN q = 1..Len(q)
  OBVIOUS
<1> QED
  BY <1>1

LEMMA LastOne ==
  ASSUME NEW T, NEW q \in Seq(T), q # <<>>
  PROVE  /\ Len(q) \in Nat /\ Len(q) # 0 /\ DOMAIN q = 1..Len(q) /\ Len(q) \in 1..Len(q)
         /\ q[Len(q)] \in T /\ q[Len(q)] \in Range(q)
<1>1. Len(q) \in Nat /\ Len(q) # 0 /\ DOMAIN q = 1..Len(q)
  OBVIOUS
<1>2. Len(q) \in 1..Len(q)
  BY <1>1
<1> QED
  BY <1>1, <1>2 DEF Range

LEMMA MalformedLines ==
  /\ Malformed = {i \in DOMAIN sidecar : BadLine(sidecar[i])}
  /\ Malformed' = {i \in DOMAIN sidecar' : BadLine(sidecar'[i])}
BY DEF Malformed, BadLine

\* Ended lines stay, and what they pay for stays paid.
EndedStay == \A i \in Ended : i \in Ended' /\ sidecar'[i] = sidecar[i]

LEMMA ChargesStay ==
  ASSUME RestoreRows, EndedStay, NEW m
  PROVE  Charged(m) \subseteq Charged(m)' /\ (ReadBack(m) => ReadBack(m)')
<1>1. \A i \in Ended : i \in DOMAIN sidecar /\ i \in Ended' /\ i \in DOMAIN sidecar' /\ sidecar'[i] = sidecar[i]
  BY DEF EndedStay, Ended
<1>2. \A i \in Ended : (i \in Malformed <=> i \in Malformed') /\ (Mentioned(i, m) <=> Mentioned(i, m)')
  BY <1>1, MalformedLines DEF Mentioned
<1> QED
  BY <1>1, <1>2 DEF Charged, ReadBack

LEMMA ChargesFinite ==
  ASSUME NEW m
  PROVE  /\ RestoreRows => IsFiniteSet(Charged(m)) /\ Cardinality(Charged(m)) \in Nat
         /\ RestoreRows' => IsFiniteSet(Charged(m)') /\ Cardinality(Charged(m)') \in Nat
<1>1. ASSUME NEW n \in Nat, NEW S \in SUBSET (1..n) PROVE IsFiniteSet(S) /\ Cardinality(S) \in Nat
  <2>1. IsFiniteSet(1..n)
    BY FS_Interval
  <2> QED
    BY <2>1, FS_Subset, FS_CardinalityType
<1>2. RestoreRows => Charged(m) \in SUBSET (1..Len(sidecar)) /\ Len(sidecar) \in Nat
  BY DEF RestoreRows, Charged, Ended
<1>3. RestoreRows' => Charged(m)' \in SUBSET (1..Len(sidecar')) /\ Len(sidecar') \in Nat
  BY DEF RestoreRows, Charged, Ended
<1> QED
  BY <1>1, <1>2, <1>3

LEMMA PaidStays ==
  ASSUME RestoreRows, RestoreRows', EndedStay, NEW m \in Archived, appended'[m] = appended[m]
  PROVE  (PaidByLines(m) => PaidByLines(m)') /\ (OneMore(m) => OneMore(m)')
<1>1. Charged(m) \subseteq Charged(m)' /\ (ReadBack(m) => ReadBack(m)')
  BY ChargesStay
<1>2. IsFiniteSet(Charged(m)') /\ Cardinality(Charged(m)') \in Nat /\ Cardinality(Charged(m)) \in Nat
  BY ChargesFinite
<1>3. Cardinality(Charged(m)) <= Cardinality(Charged(m)')
  BY <1>1, <1>2, FS_Subset
<1>4. appended[m] \in Nat
  BY DEF RestoreRows
<1> DEFINE c == Cardinality(Charged(m))
           d == Cardinality(Charged(m)')
           u == IF ReadBack(m) THEN 1 ELSE 0
           v == IF ReadBack(m)' THEN 1 ELSE 0
<1>5. u \in {0, 1} /\ v \in {0, 1} /\ u <= v
  BY <1>1
<1>6. (PaidByLines(m) <=> appended[m] <= c + u) /\ (OneMore(m) <=> appended[m] + 1 <= c + u)
  BY DEF PaidByLines, OneMore
<1>7. (PaidByLines(m)' <=> appended'[m] <= d + v) /\ (OneMore(m)' <=> appended'[m] + 1 <= d + v)
  BY DEF PaidByLines, OneMore
<1> HIDE DEF c, d, u, v
<1>8. c \in Nat /\ d \in Nat /\ c <= d
  BY <1>2, <1>3 DEF c, d
<1>9. /\ appended[m] <= c + u => appended[m] <= d + v
      /\ appended[m] + 1 <= c + u => appended[m] + 1 <= d + v
  BY <1>4, <1>5, <1>8
<1> QED
  BY <1>6, <1>7, <1>9

\* A step that replaces the last line, which has no newline, ends no line.
LEMMA LastLineReplaced ==
  ASSUME RestoreRows, unended, unended' = TRUE, NEW line \in Seq(RestoreStateRecord), line # <<>>,
         sidecar' = [sidecar EXCEPT ![Len(sidecar)] = line]
  PROVE  /\ sidecar' \in Seq(Seq(RestoreStateRecord)) /\ sidecar' # <<>>
         /\ DOMAIN sidecar' = DOMAIN sidecar /\ Len(sidecar') = Len(sidecar)
         /\ \A i \in DOMAIN sidecar : sidecar'[i] = IF i = Len(sidecar) THEN line ELSE sidecar[i]
         /\ \A i \in DOMAIN sidecar' : sidecar'[i] # <<>>
         /\ Ended' = Ended /\ EndedStay
<1> DEFINE n == Len(sidecar)
           S == Seq(RestoreStateRecord)
           after == [sidecar EXCEPT ![n] = line]
<1>1. sidecar \in Seq(S) /\ line \in S /\ n \in Nat /\ n # 0 /\ n \in 1..Len(sidecar) /\ DOMAIN sidecar = 1..n
  BY LastOne DEF RestoreRows
<1> HIDE DEF S
<1>2. /\ after \in Seq(S) /\ Len(after) = Len(sidecar) /\ DOMAIN after = 1..Len(sidecar)
      /\ after[n] = line /\ \A i \in 1..Len(sidecar) : i # n => after[i] = sidecar[i]
  <2> HIDE DEF n
  <2> QED
    BY <1>1, OneReplaced
<1>3. sidecar' = after
  OBVIOUS
<1> HIDE DEF after
<1>4. sidecar' \in Seq(Seq(RestoreStateRecord)) /\ Len(sidecar') = n /\ DOMAIN sidecar' = 1..n
  BY <1>2, <1>3 DEF S
<1>5. \A i \in 1..n : sidecar'[i] = IF i = n THEN line ELSE sidecar[i]
  BY <1>2, <1>3
<1>6. \A i \in 1..n : sidecar'[i] # <<>>
  BY <1>1, <1>5 DEF RestoreRows
<1>7. sidecar' # <<>>
  BY <1>1, <1>4
<1>8. Ended = {i \in 1..n : i < n} /\ Ended' = {i \in 1..n : i < n}
  BY <1>1, <1>4 DEF Ended
<1>9. EndedStay
  <2> SUFFICES ASSUME NEW i \in Ended PROVE i \in Ended' /\ sidecar'[i] = sidecar[i]
    BY DEF EndedStay
  <2>1. i \in 1..n /\ i < n
    BY <1>8
  <2>2. i # n
    <3> HIDE DEF n
    <3> QED
      BY <1>1, <2>1
  <2> QED
    BY <1>5, <1>8, <2>1, <2>2
<1>10. DOMAIN sidecar' = DOMAIN sidecar /\ Len(sidecar') = Len(sidecar)
  BY <1>1, <1>4
<1>11. \A i \in DOMAIN sidecar : sidecar'[i] = IF i = Len(sidecar) THEN line ELSE sidecar[i]
  BY <1>1, <1>5
<1>12. \A i \in DOMAIN sidecar' : sidecar'[i] # <<>>
  BY <1>4, <1>6
<1> QED
  BY <1>4, <1>7, <1>8, <1>9, <1>10, <1>11, <1>12

\* Text is put onto the line that has no newline, if there is one.
LEMMA WrittenLines ==
  ASSUME RestoreRows, NEW e \in RestoreStateRecord, sidecar' = Written(e), unended' = TRUE
  PROVE  /\ sidecar' \in Seq(Seq(RestoreStateRecord)) /\ sidecar' # <<>>
         /\ \A i \in DOMAIN sidecar' : sidecar'[i] # <<>>
         /\ Ended' = Ended /\ EndedStay /\ Last(Last(sidecar')) = e
         /\ \A i \in DOMAIN sidecar' : \A x \in Range(sidecar'[i]) :
              x = e \/ \E j \in DOMAIN sidecar : x \in Range(sidecar[j])
<1> DEFINE n == Len(sidecar)
<1>1. sidecar \in Seq(Seq(RestoreStateRecord)) /\ n \in Nat /\ DOMAIN sidecar = 1..n
  BY DEF RestoreRows
<1>2. CASE unended
  <2> DEFINE line == sidecar[n]
             longer == Append(line, e)
  <2>1. n \in DOMAIN sidecar /\ line \in Seq(RestoreStateRecord)
    BY <1>1, <1>2 DEF RestoreRows
  <2>2. /\ longer \in Seq(RestoreStateRecord) /\ Len(longer) = Len(line) + 1 /\ longer # <<>>
        /\ longer[Len(longer)] = e /\ \A k \in 1..Len(line) : longer[k] = line[k]
    BY <2>1
  <2>3. sidecar' = [sidecar EXCEPT ![Len(sidecar)] = longer]
    BY <1>2 DEF Written
  <2>4. \A x \in Range(longer) : x = e \/ x \in Range(line)
    <3>1. DOMAIN longer = 1..(Len(line) + 1) /\ DOMAIN line = 1..Len(line) /\ Len(line) \in Nat
      BY <2>1, <2>2
    <3> HIDE DEF longer, line
    <3> QED
      BY <2>2, <3>1 DEF Range
  <2> HIDE DEF longer
  <2>5. /\ sidecar' \in Seq(Seq(RestoreStateRecord)) /\ sidecar' # <<>>
        /\ DOMAIN sidecar' = DOMAIN sidecar /\ Len(sidecar') = Len(sidecar)
        /\ \A i \in DOMAIN sidecar : sidecar'[i] = IF i = Len(sidecar) THEN longer ELSE sidecar[i]
        /\ \A i \in DOMAIN sidecar' : sidecar'[i] # <<>>
        /\ Ended' = Ended /\ EndedStay
    BY <1>2, <2>2, <2>3, LastLineReplaced
  <2>6. Last(Last(sidecar')) = e
    BY <2>1, <2>2, <2>5 DEF Last
  <2>7. \A i \in DOMAIN sidecar' : \A x \in Range(sidecar'[i]) :
           x = e \/ \E j \in DOMAIN sidecar : x \in Range(sidecar[j])
    <3> SUFFICES ASSUME NEW i \in DOMAIN sidecar, NEW x \in Range(sidecar'[i])
                 PROVE  x = e \/ \E j \in DOMAIN sidecar : x \in Range(sidecar[j])
      BY <2>5
    <3>1. CASE i = Len(sidecar)
      BY <2>1, <2>4, <2>5, <3>1 DEF line
    <3>2. CASE i # Len(sidecar)
      BY <2>5, <3>2
    <3> QED
      BY <3>1, <3>2
  <2> QED
    BY <2>5, <2>6, <2>7
<1>3. CASE ~unended
  <2>1. sidecar' = Append(sidecar, <<e>>)
    BY <1>3 DEF Written
  <2>2. <<e>> \in Seq(RestoreStateRecord) /\ <<e>> # <<>> /\ Len(<<e>>) = 1 /\ <<e>>[1] = e /\ DOMAIN <<e>> = 1..1
    OBVIOUS
  <2> DEFINE fresh == <<e>>
  <2> HIDE DEF fresh
  <2>3. /\ sidecar' \in Seq(Seq(RestoreStateRecord)) /\ Len(sidecar') = n + 1 /\ DOMAIN sidecar' = 1..(n + 1)
        /\ sidecar'[n + 1] = fresh /\ \A i \in 1..n : sidecar'[i] = sidecar[i]
    BY <1>1, <2>1, <2>2 DEF fresh
  <2>4. Ended = 1..n /\ Ended' = {i \in 1..(n + 1) : i < n + 1}
    BY <1>1, <1>3, <2>3 DEF Ended
  <2>5. Ended' = Ended /\ EndedStay
    <3>1. Ended' = Ended
      BY <1>1, <2>4
    <3> QED
      BY <2>3, <2>4, <3>1 DEF EndedStay
  <2>6. Last(Last(sidecar')) = e
    BY <2>2, <2>3 DEF Last, fresh
  <2>7. \A x \in Range(fresh) : x = e
    BY <2>2 DEF Range, fresh
  <2>8. \A i \in DOMAIN sidecar' : \A x \in Range(sidecar'[i]) :
           x = e \/ \E j \in DOMAIN sidecar : x \in Range(sidecar[j])
    <3> SUFFICES ASSUME NEW i \in 1..(n + 1), NEW x \in Range(sidecar'[i])
                 PROVE  x = e \/ \E j \in DOMAIN sidecar : x \in Range(sidecar[j])
      BY <2>3
    <3>1. CASE i = n + 1
      BY <2>3, <2>7, <3>1
    <3>2. CASE i # n + 1
      <4>1. i \in 1..n
        BY <1>1, <3>2
      <4> QED
        BY <1>1, <2>3, <4>1
    <3> QED
      BY <3>1, <3>2
  <2>9. sidecar' # <<>> /\ \A i \in DOMAIN sidecar' : sidecar'[i] # <<>>
    <3>1. ASSUME NEW i \in 1..(n + 1) PROVE sidecar'[i] # <<>>
      <4>1. CASE i = n + 1
        BY <2>2, <2>3, <4>1 DEF fresh
      <4>2. CASE i # n + 1
        <5>1. i \in 1..n
          BY <1>1, <4>2
        <5> QED
          BY <1>1, <2>3, <5>1 DEF RestoreRows
      <4> QED
        BY <4>1, <4>2
    <3>2. sidecar' # <<>>
      BY <1>1, <2>3
    <3> QED
      BY <2>3, <3>1, <3>2
  <2> QED
    BY <2>3, <2>5, <2>6, <2>8, <2>9
<1> QED
  BY <1>2, <1>3 DEF RestoreRows

\* No line gains its newline: what the ended ones hold is as it was.
LEMMA EndedSame ==
  ASSUME RestoreRows, Ended' = Ended, EndedStay, NEW m
  PROVE  /\ Charged(m)' = Charged(m) /\ (ReadBack(m)' <=> ReadBack(m))
         /\ appended'[m] = appended[m] =>
              (PaidByLines(m)' <=> PaidByLines(m)) /\ (OneMore(m)' <=> OneMore(m))
<1>1. \A i \in Ended : i \in DOMAIN sidecar /\ i \in DOMAIN sidecar' /\ sidecar'[i] = sidecar[i]
  BY DEF EndedStay, Ended
<1>2. \A i \in Ended : (i \in Malformed <=> i \in Malformed') /\ (Mentioned(i, m) <=> Mentioned(i, m)')
  BY <1>1, MalformedLines DEF Mentioned
<1>3. Charged(m)' = Charged(m) /\ (ReadBack(m)' <=> ReadBack(m))
  BY <1>1, <1>2 DEF Charged, ReadBack
<1>4. ASSUME appended'[m] = appended[m]
      PROVE  (PaidByLines(m)' <=> PaidByLines(m)) /\ (OneMore(m)' <=> OneMore(m))
  BY <1>3, <1>4 DEF PaidByLines, OneMore
<1> QED
  BY <1>3, <1>4

\* A crash leaves the last record whole or torn, and no other.
LEMMA StopLines ==
  ASSUME RestoreRows, unended, unended' = TRUE, NEW status \in {Last(Last(sidecar)).status, "torn"},
         sidecar' = [sidecar EXCEPT ![Len(sidecar)][Len(sidecar[Len(sidecar)])].status = status]
  PROVE  /\ sidecar' \in Seq(Seq(RestoreStateRecord)) /\ sidecar' # <<>>
         /\ \A i \in DOMAIN sidecar' : sidecar'[i] # <<>>
         /\ Ended' = Ended /\ EndedStay
         /\ \A i \in DOMAIN sidecar' : \A x \in Range(sidecar'[i]) : x.status = "done" =>
              \E j \in DOMAIN sidecar : \E y \in Range(sidecar[j]) : y.status = "done" /\ y.message = x.message
<1> DEFINE n == Len(sidecar)
           line == sidecar[n]
           k == Len(line)
           entry == line[k]
           left == [entry EXCEPT !.status = status]
           cut == [line EXCEPT ![k] = left]
<1>1. n \in Nat /\ DOMAIN sidecar = 1..n /\ n # 0 /\ n \in 1..n
  BY LastOne DEF RestoreRows
<1>2. line \in Seq(RestoreStateRecord) /\ line # <<>>
  <2> DEFINE S == Seq(RestoreStateRecord)
  <2>1. sidecar \in Seq(S) /\ sidecar[n] # <<>>
    BY <1>1 DEF RestoreRows
  <2> HIDE DEF S, n
  <2>2. sidecar[n] \in S
    BY <1>1, <2>1
  <2> QED
    BY <2>1, <2>2 DEF S
<1> HIDE DEF line
<1>3. k \in 1..k /\ DOMAIN line = 1..k /\ entry \in RestoreStateRecord /\ entry \in Range(line)
  BY <1>2, LastOne
<1>4. status \in {entry.status, "torn"}
  BY DEF Last, line
<1>5. /\ left \in RestoreStateRecord /\ left.message = entry.message
      /\ left.status = "done" => entry.status = "done"
  <2> HIDE DEF entry
  <2> QED
    BY <1>3, <1>4 DEF RestoreStateRecord
<1>6. sidecar' = [sidecar EXCEPT ![n] = cut]
  BY DEF line
<1>7. /\ cut \in Seq(RestoreStateRecord) /\ Len(cut) = k /\ DOMAIN cut = 1..k
      /\ cut[k] = left /\ \A j \in 1..k : j # k => cut[j] = line[j]
  BY <1>2, <1>3, <1>5, OneReplaced
<1> HIDE DEF left, cut
<1>8. /\ sidecar' \in Seq(Seq(RestoreStateRecord)) /\ sidecar' # <<>>
      /\ DOMAIN sidecar' = DOMAIN sidecar
      /\ \A i \in DOMAIN sidecar : sidecar'[i] = IF i = Len(sidecar) THEN cut ELSE sidecar[i]
      /\ \A i \in DOMAIN sidecar' : sidecar'[i] # <<>>
      /\ Ended' = Ended /\ EndedStay
  <2>1. cut # <<>>
    BY <1>3, <1>7
  <2> QED
    BY <1>6, <1>7, <2>1, LastLineReplaced
<1>9. \A x \in Range(cut) : x = left \/ x \in Range(line)
  <2> HIDE DEF k
  <2> QED
    BY <1>3, <1>7 DEF Range
<1>10. ASSUME NEW i \in DOMAIN sidecar', NEW x \in Range(sidecar'[i]), x.status = "done"
       PROVE  \E j \in DOMAIN sidecar : \E y \in Range(sidecar[j]) : y.status = "done" /\ y.message = x.message
  <2>1. CASE i = Len(sidecar)
    <3>1. x \in Range(cut)
      BY <1>8, <1>10, <2>1
    <3>2. CASE x = left
      BY <1>1, <1>3, <1>5, <1>10, <3>2 DEF line
    <3>3. CASE x \in Range(line)
      BY <1>1, <1>10, <3>3 DEF line
    <3> QED
      BY <1>9, <3>1, <3>2, <3>3
  <2>2. CASE i # Len(sidecar)
    <3>1. i \in DOMAIN sidecar /\ x \in Range(sidecar[i])
      BY <1>8, <1>10, <2>2
    <3> QED
      BY <1>10, <3>1
  <2> QED
    BY <2>1, <2>2
<1>11. \A i \in DOMAIN sidecar' : \A x \in Range(sidecar'[i]) : x.status = "done" =>
         \E j \in DOMAIN sidecar : \E y \in Range(sidecar[j]) : y.status = "done" /\ y.message = x.message
  BY <1>10
<1> QED
  BY <1>8, <1>11

\* The newline makes the last line count: as malformed, or as one that can be read.
LEMMA NewlineLines ==
  ASSUME RestoreRows, RestoreRows', unended, sidecar' = sidecar, unended' = FALSE, appended' = appended,
         NEW m \in Archived, PaidByLines(m)
  PROVE  /\ EndedStay
         /\ m # Last(Last(sidecar)).message => (ReadBack(m)' <=> ReadBack(m))
         /\ m = Last(Last(sidecar)).message /\ ~ReadBack(m) => OneMore(m)'
<1> DEFINE n == Len(sidecar)
           line == sidecar[n]
           entry == line[Len(line)]
<1>1. sidecar \in Seq(Seq(RestoreStateRecord)) /\ n \in Nat /\ DOMAIN sidecar = 1..n /\ n # 0 /\ n \in 1..n
  BY DEF RestoreRows
<1>2. line \in Seq(RestoreStateRecord) /\ Len(line) \in Nat /\ Len(line) # 0 /\ DOMAIN line = 1..Len(line)
  BY <1>1 DEF RestoreRows
<1>3. Last(Last(sidecar)) = entry
  BY DEF Last
<1>4. entry \in Range(line)
  BY <1>2 DEF Range
<1>5. Ended = {i \in 1..n : i < n} /\ Ended' = 1..n
  BY <1>1 DEF Ended
<1>6. Ended' = Ended \cup {n} /\ n \notin Ended
  BY <1>1, <1>5
<1>7. EndedStay
  BY <1>6 DEF EndedStay
<1>8. Malformed' = Malformed /\ (n \in Malformed <=> BadLine(line))
  BY <1>1, MalformedLines
<1>9. n \notin Malformed => line[1] = entry
  BY <1>2, <1>8 DEF BadLine
<1>10. m # entry.message => (ReadBack(m)' <=> ReadBack(m))
  BY <1>6, <1>8, <1>9 DEF ReadBack
<1> DEFINE c == Cardinality(Charged(m))
           d == Cardinality(Charged(m)')
<1>11. /\ IsFiniteSet(Charged(m)) /\ IsFiniteSet(Charged(m)') /\ c \in Nat /\ d \in Nat
       /\ Charged(m) \subseteq Charged(m)' /\ appended[m] \in Nat
  BY <1>7, ChargesFinite, ChargesStay DEF RestoreRows
<1>12. c <= d
  BY <1>11, FS_Subset
<1>13. OneMore(m)' <=> appended[m] + 1 <= d + IF ReadBack(m)' THEN 1 ELSE 0
  BY DEF OneMore
<1>14. ~ReadBack(m) => appended[m] <= c
  <2>1. ~ReadBack(m) => appended[m] <= c + 0
    BY DEF PaidByLines
  <2> HIDE DEF c, d
  <2> QED
    BY <1>11, <2>1
<1>15. ASSUME m = entry.message, ~ReadBack(m) PROVE OneMore(m)'
  <2>1. CASE n \notin Malformed
    <3>1. ReadBack(m)'
      BY <1>6, <1>8, <1>9, <1>15, <2>1 DEF ReadBack
    <3>2. appended[m] + 1 <= d + 1
      <4> HIDE DEF c, d
      <4> QED
        BY <1>11, <1>12, <1>14, <1>15
    <3> QED
      BY <1>13, <3>1, <3>2
  <2>2. CASE n \in Malformed
    <3>1. Mentioned(n, m)'
      BY <1>4, <1>15 DEF Mentioned
    <3>2. Charged(m)' = Charged(m) \cup {n} /\ n \notin Charged(m)
      BY <1>6, <1>8, <2>2, <3>1 DEF Charged, Mentioned
    <3>3. d = c + 1
      BY <1>11, <3>2, FS_AddElement
    <3>4. appended[m] + 1 <= d /\ appended[m] + 1 <= d + 1
      <4> HIDE DEF c, d
      <4> QED
        BY <1>11, <1>14, <1>15, <3>3
    <3>5. appended[m] + 1 <= d + 0
      <4> HIDE DEF c, d
      <4> QED
        BY <1>11, <3>4
    <3> QED
      BY <1>13, <3>4, <3>5
  <2> QED
    BY <2>1, <2>2
<1> QED
  BY <1>3, <1>7, <1>10, <1>15

\* A message on a line that can be read is taken as restored.
LEMMA ReadBackNotPlanned ==
  ASSUME RestoreRows, NEW m, ReadBack(m)
  PROVE  m \in load_restore_state.records
<1>1. PICK i \in Ended \ Malformed : sidecar[i][1].message = m
  BY DEF ReadBack
<1>2. i \in DOMAIN sidecar /\ sidecar[i] \in Seq(RestoreStateRecord) /\ sidecar[i] # <<>>
  BY DEF RestoreRows, Ended
<1>3. sidecar[i][1] \in RestoreStateRecord
  BY <1>2
<1>4. sidecar[i][1].status \in {"pending", "done"}
  BY <1>1, <1>2, <1>3 DEF Malformed, RestoreStateRecord
<1>5. sidecar[i][1] \in Parsed
  BY <1>1, <1>2 DEF Parsed
<1> QED
  BY <1>1, <1>4, <1>5 DEF load_restore_state, Marked

LEMMA RecordsOfArchive ==
  ASSUME RestoreRows, NEW i \in DOMAIN sidecar, NEW e \in Range(sidecar[i])
  PROVE  e.message \in Archived
<1>1. sidecar[i] \in Seq(RestoreStateRecord)
  BY DEF RestoreRows
<1>2. e \in RestoreStateRecord
  BY <1>1 DEF Range
<1> QED
  BY <1>2 DEF RestoreStateRecord

LEMMA NoneLeftOutBacked == RestoreInv => NoneLeftOut
<1> SUFFICES ASSUME RestoreInv PROVE NoneLeftOut
  OBVIOUS
<1>1. AppendedOnce
  <2> SUFFICES ASSUME NEW m \in Archived
               PROVE appended[m] <= 1 + Cardinality({i \in Malformed : \E e \in Range(sidecar[i]) : e.message = m})
    BY DEF AppendedOnce
  <2> DEFINE Lines == {i \in Malformed : \E e \in Range(sidecar[i]) : e.message = m}
             c == Cardinality(Charged(m))
             d == Cardinality(Lines)
             u == IF ReadBack(m) THEN 1 ELSE 0
  <2>1. Charged(m) \subseteq Lines
    BY DEF Charged, Mentioned
  <2>2. Lines \in SUBSET (1..Len(sidecar)) /\ Len(sidecar) \in Nat
    BY DEF RestoreInv, RestoreRows, Malformed
  <2>3. IsFiniteSet(Lines)
    <3>1. IsFiniteSet(1..Len(sidecar))
      BY <2>2, FS_Interval
    <3> QED
      BY <2>2, <3>1, FS_Subset
  <2>4. d \in Nat /\ c \in Nat /\ c <= d
    BY <2>1, <2>3, FS_Subset, FS_CardinalityType
  <2>5. appended[m] <= c + u /\ appended[m] \in Nat
    BY DEF RestoreInv, PaidByLines, RestoreRows
  <2>6. u \in {0, 1}
    OBVIOUS
  <2> HIDE DEF c, d, u
  <2>7. appended[m] <= 1 + d
    BY <2>4, <2>5, <2>6
  <2> QED
    BY <2>7 DEF d
<1>2. ASSUME verify_archive.ok, NEW m \in Archived PROVE files[m] = "whole"
  BY <1>2 DEF RestoreInv, RestoreRows, verify_archive, read_manifest, validate_materialized_message_path
<1>3. ASSUME run = NoRun, NEW m \in read_manifest, appended[m] = 0
      PROVE  LET all == {Folder[x] : x \in Archived}
             IN m \in plan_restore(all) \/ \E row \in plan_restore_state_audit(all) : row.message = m
  <2> DEFINE all == {Folder[x] : x \in Archived}
  <2>1. m \in Archived /\ Folder[m] \in all
    BY DEF read_manifest
  <2>2. m \notin Marked("done")
    <3> SUFFICES ASSUME m \in Marked("done") PROVE FALSE
      OBVIOUS
    <3>1. PICK i \in DOMAIN sidecar : sidecar[i][1].message = m /\ sidecar[i][1].status = "done"
      BY DEF Marked, Parsed
    <3>2. sidecar[i] \in Seq(RestoreStateRecord) /\ sidecar[i] # <<>>
      BY DEF RestoreInv, RestoreRows
    <3>3. sidecar[i][1] \in Range(sidecar[i])
      BY <3>2 DEF Range
    <3> QED
      BY <1>3, <3>1, <3>3 DEF RestoreInv, DoneBacked
  <2>3. CASE m \in load_restore_state.records
    <3>1. m \in {x \in load_restore_state.warnings : Folder[x] \in all}
      BY <2>1, <2>2, <2>3 DEF load_restore_state
    <3> DEFINE row == [message |-> m, status |-> IF m \in Identified THEN "planned" ELSE "unknown_no_message_id"]
    <3>2. row \in plan_restore_state_audit(all) /\ row.message = m
      BY <3>1 DEF plan_restore_state_audit
    <3> QED
      BY <3>2
  <2>4. CASE m \notin load_restore_state.records
    BY <1>3, <2>1, <2>4 DEF plan_restore
  <2> QED
    BY <2>3, <2>4
<1> QED
  BY <1>1, <1>2, <1>3 DEF NoneLeftOut

\* A step that ends no line and appends no message.
LEMMA NoLineEnds ==
  ASSUME RestoreInv, RestoreRows', Ended' = Ended, EndedStay, appended' = appended, RestoreRunSound', DoneBacked'
  PROVE  RestoreInv'
BY EndedSame DEF RestoreInv

LEMMA SidecarSame ==
  ASSUME sidecar' = sidecar, unended' = unended
  PROVE  Ended' = Ended /\ EndedStay
BY DEF Ended, EndedStay

LEMMA NothingRuns == run' = NoRun => RestoreRunSound' /\ run' \in RestoreRun
BY DEF RestoreRunSound, NoRun, RestoreRun

\* The archive's files are of no account to a restore.
LEMMA Unmoved ==
  ASSUME RestoreInv, files' \in [Archived -> {"absent", "whole", "resized", "altered", "symlink"}],
         sidecar' = sidecar, unended' = unended, run' = run, appended' = appended
  PROVE  RestoreInv'
<1>1. RestoreRows'
  BY DEF RestoreInv, RestoreRows
<1>2. Ended' = Ended /\ EndedStay
  BY SidecarSame
<1>3. DoneBacked'
  BY DEF RestoreInv, DoneBacked
<1>4. \A m \in Archived : (ReadBack(m)' <=> ReadBack(m)) /\ (OneMore(m)' <=> OneMore(m))
  BY <1>2, EndedSame DEF RestoreInv
<1>5. run.plan \in SUBSET Archived /\ run.message \in SUBSET Archived
  BY DEF RestoreInv, RestoreRows, RestoreRun
<1>6. RestoreRunSound'
  BY <1>4, <1>5 DEF RestoreInv, RestoreRunSound
<1> QED
  BY <1>1, <1>2, <1>3, <1>6, NoLineEnds

LEMMA ArchiveSteps == RestoreInv /\ (Export \/ write_atomic \/ Damage) => RestoreInv'
<1> SUFFICES ASSUME RestoreInv, Export \/ write_atomic \/ Damage PROVE RestoreInv'
  OBVIOUS
<1>1. sidecar' = sidecar /\ unended' = unended /\ run' = run /\ appended' = appended
  BY DEF Export, write_atomic, Damage
<1>2. files' \in [Archived -> {"absent", "whole", "resized", "altered", "symlink"}]
  BY DEF RestoreInv, RestoreRows, Export, write_atomic, Damage
<1> QED
  BY <1>1, <1>2, Unmoved

LEMMA BeginAndEnd == RestoreInv /\ (Begin \/ RestoreDone) => RestoreInv'
<1> SUFFICES ASSUME RestoreInv, Begin \/ RestoreDone PROVE RestoreInv'
  OBVIOUS
<1>1. files' = files /\ sidecar' = sidecar /\ unended' = unended /\ appended' = appended
  BY DEF Begin, RestoreDone
<1>2. Ended' = Ended /\ EndedStay
  BY <1>1, SidecarSame
<1>3. DoneBacked'
  BY <1>1 DEF RestoreInv, DoneBacked
<1>4. run' \in RestoreRun /\ RestoreRunSound'
  <2>1. CASE RestoreDone
    BY <2>1, NothingRuns DEF RestoreDone
  <2>2. CASE Begin
    <3>1. PICK included \in SUBSET {Folder[m] : m \in Archived} :
            run' = [NoRun EXCEPT !.step = "next", !.plan = plan_restore(included)]
      BY <2>2 DEF Begin
    <3>2. run'.step = "next" /\ run'.plan = plan_restore(included) /\ run'.message = {}
      BY <3>1 DEF NoRun
    <3>3. plan_restore(included) \subseteq Archived
      BY DEF plan_restore, read_manifest
    <3>4. \A m \in plan_restore(included) : ~ReadBack(m)'
      <4> SUFFICES ASSUME NEW m \in plan_restore(included), ReadBack(m)' PROVE FALSE
        OBVIOUS
      <4>1. ReadBack(m)
        BY <1>2, EndedSame DEF RestoreInv
      <4> QED
        BY <4>1, ReadBackNotPlanned DEF RestoreInv, plan_restore
    <3>5. run' \in RestoreRun
      BY <3>1, <3>3 DEF NoRun, RestoreRun
    <3> QED
      BY <3>2, <3>4, <3>5 DEF RestoreRunSound
  <2> QED
    BY <2>1, <2>2
<1>5. RestoreRows'
  BY <1>1, <1>4 DEF RestoreInv, RestoreRows
<1> QED
  BY <1>1, <1>2, <1>3, <1>4, <1>5, NoLineEnds

LEMMA StopStep == RestoreInv /\ Stop => RestoreInv'
<1> SUFFICES ASSUME RestoreInv, Stop PROVE RestoreInv'
  OBVIOUS
<1>1. files' = files /\ unended' = unended /\ appended' = appended /\ run' = NoRun
  BY DEF Stop
<1>2. RestoreRunSound' /\ run' \in RestoreRun
  BY <1>1, NothingRuns
<1>3. CASE sidecar' = sidecar
  <2>1. Ended' = Ended /\ EndedStay
    BY <1>1, <1>3, SidecarSame
  <2>2. DoneBacked'
    BY <1>1, <1>3 DEF RestoreInv, DoneBacked
  <2>3. RestoreRows'
    BY <1>1, <1>2, <1>3 DEF RestoreInv, RestoreRows
  <2> QED
    BY <1>1, <1>2, <2>1, <2>2, <2>3, NoLineEnds
<1>4. CASE run.step \in {"newline before", "newline after"}
  <2>1. unended /\ RestoreRows
    BY <1>4 DEF RestoreInv, RestoreRunSound
  <2>2. PICK status \in {Last(Last(sidecar)).status, "torn"} :
          sidecar' = [sidecar EXCEPT ![Len(sidecar)][Len(sidecar[Len(sidecar)])].status = status]
    BY <1>4 DEF Stop
  <2>3. /\ sidecar' \in Seq(Seq(RestoreStateRecord)) /\ sidecar' # <<>>
        /\ \A i \in DOMAIN sidecar' : sidecar'[i] # <<>>
        /\ Ended' = Ended /\ EndedStay
        /\ \A i \in DOMAIN sidecar' : \A x \in Range(sidecar'[i]) : x.status = "done" =>
             \E j \in DOMAIN sidecar : \E y \in Range(sidecar[j]) : y.status = "done" /\ y.message = x.message
    BY <1>1, <2>1, <2>2, StopLines
  <2>4. DoneBacked'
    BY <1>1, <2>3 DEF RestoreInv, DoneBacked
  <2>5. RestoreRows'
    BY <1>1, <1>2, <2>3 DEF RestoreInv, RestoreRows
  <2> QED
    BY <1>1, <1>2, <2>3, <2>4, <2>5, NoLineEnds
<1> QED
  BY <1>3, <1>4 DEF Stop

LEMMA TextSteps ==
  RestoreInv /\ (WriteText("next", "pending", "newline before") \/ WriteText("done", "done", "newline after")) =>
    RestoreInv'
<1> SUFFICES ASSUME RestoreInv,
                    NEW step, NEW status, NEW then, WriteText(step, status, then),
                    \/ step = "next" /\ status = "pending" /\ then = "newline before"
                    \/ step = "done" /\ status = "done" /\ then = "newline after"
             PROVE  RestoreInv'
  OBVIOUS
<1>1. PICK m \in IF step = "next" THEN run.plan ELSE run.message :
        /\ sidecar' = Written(EntryFor(m, status))
        /\ run' = [run EXCEPT !.step = then, !.message = {m}, !.plan = @ \ {m}]
  BY DEF WriteText
<1>2. files' = files /\ unended' = TRUE /\ appended' = appended /\ run.step = step
  BY DEF WriteText
<1>3. run \in RestoreRun /\ m \in Archived
  BY <1>1 DEF RestoreInv, RestoreRows, RestoreRun
<1> DEFINE e == EntryFor(m, status)
<1>4. e \in RestoreStateRecord /\ e.message = m /\ e.status = status
  BY <1>3 DEF EntryFor, RestoreStateRecord
<1> HIDE DEF e
<1>5. /\ sidecar' \in Seq(Seq(RestoreStateRecord)) /\ sidecar' # <<>>
      /\ \A i \in DOMAIN sidecar' : sidecar'[i] # <<>>
      /\ Ended' = Ended /\ EndedStay /\ Last(Last(sidecar')) = e
      /\ \A i \in DOMAIN sidecar' : \A x \in Range(sidecar'[i]) :
           x = e \/ \E j \in DOMAIN sidecar : x \in Range(sidecar[j])
  <2>1. sidecar' = Written(e)
    BY <1>1 DEF e
  <2> QED
    BY <1>2, <1>4, <2>1, WrittenLines DEF RestoreInv
<1>6. run'.step = then /\ run'.message = {m} /\ run'.plan = run.plan \ {m} /\ run' \in RestoreRun
  BY <1>1, <1>3 DEF RestoreRun
<1>7. RestoreRows'
  BY <1>2, <1>5, <1>6 DEF RestoreInv, RestoreRows
<1>8. \A x \in Archived : ReadBack(x)' <=> ReadBack(x)
  BY <1>5, EndedSame DEF RestoreInv
<1>9. status = "done" => appended[m] # 0
  BY <1>1, <1>2 DEF RestoreInv, RestoreRunSound
<1>10. DoneBacked'
  BY <1>2, <1>4, <1>5, <1>9 DEF RestoreInv, DoneBacked
<1>11. then = "newline before" => m \in run.plan
  BY <1>1
<1>12. RestoreRunSound'
  <2>1. \A x \in run.plan : ~ReadBack(x)'
    BY <1>3, <1>8 DEF RestoreInv, RestoreRunSound, RestoreRun
  <2>2. run'.step \in {"newline before", "newline after"}
    BY <1>6
  <2>3. run'.message = {Last(Last(sidecar')).message}
    BY <1>4, <1>5, <1>6
  <2> QED
    BY <1>2, <1>6, <1>11, <2>1, <2>2, <2>3 DEF RestoreRunSound
<1> QED
  BY <1>2, <1>5, <1>7, <1>10, <1>12, NoLineEnds

LEMMA NewlineSteps ==
  RestoreInv /\ (WriteNewline("newline before", "append") \/ WriteNewline("newline after", "next")) => RestoreInv'
<1> SUFFICES ASSUME RestoreInv, NEW step, NEW then, WriteNewline(step, then),
                    \/ step = "newline before" /\ then = "append"
                    \/ step = "newline after" /\ then = "next"
             PROVE  RestoreInv'
  OBVIOUS
<1>1. /\ files' = files /\ sidecar' = sidecar /\ unended' = FALSE /\ appended' = appended
      /\ run.step = step /\ run' = [run EXCEPT !.step = then]
  BY DEF WriteNewline
<1>2. run \in RestoreRun /\ run' \in RestoreRun
      /\ run'.step = then /\ run'.plan = run.plan /\ run'.message = run.message
  BY <1>1 DEF RestoreInv, RestoreRows, RestoreRun
<1>3. RestoreRows'
  BY <1>1, <1>2 DEF RestoreInv, RestoreRows
<1>4. unended /\ run.message = {Last(Last(sidecar)).message}
  BY <1>1 DEF RestoreInv, RestoreRunSound
<1> DEFINE noted == Last(Last(sidecar)).message
<1>5. EndedStay
  <2>1. ASSUME NEW m \in Archived PROVE EndedStay
    BY <1>1, <1>3, <1>4, NewlineLines DEF RestoreInv
  <2>2. noted \in Archived
    BY <1>2, <1>4 DEF RestoreRun
  <2> QED
    BY <2>1, <2>2
<1>6. ASSUME NEW m \in Archived PROVE PaidByLines(m)'
  BY <1>1, <1>3, <1>5, PaidStays DEF RestoreInv
<1>7. ASSUME NEW m \in Archived
      PROVE  (m # noted => (ReadBack(m)' <=> ReadBack(m))) /\ (m = noted /\ ~ReadBack(m) => OneMore(m)')
  BY <1>1, <1>3, <1>4, NewlineLines DEF RestoreInv
<1>8. \A m \in run.plan : ~ReadBack(m)'
  BY <1>2, <1>4, <1>7 DEF RestoreInv, RestoreRunSound, RestoreRun
<1>9. then = "append" => \A m \in run.message : OneMore(m)'
  BY <1>1, <1>2, <1>4, <1>7 DEF RestoreInv, RestoreRunSound, RestoreRun
<1>10. RestoreRunSound'
  BY <1>1, <1>2, <1>8, <1>9 DEF RestoreInv, RestoreRunSound
<1>11. DoneBacked'
  BY <1>1 DEF RestoreInv, DoneBacked
<1> QED
  BY <1>3, <1>6, <1>10, <1>11 DEF RestoreInv

LEMMA AppendStep == RestoreInv /\ append_message => RestoreInv'
<1> SUFFICES ASSUME RestoreInv, append_message PROVE RestoreInv'
  OBVIOUS
<1>1. PICK m \in run.message : appended' = [appended EXCEPT ![m] = @ + 1]
  BY DEF append_message
<1>2. /\ files' = files /\ sidecar' = sidecar /\ unended' = unended
      /\ run.step = "append" /\ run' = [run EXCEPT !.step = "done"]
  BY DEF append_message
<1>3. run \in RestoreRun /\ run' \in RestoreRun
      /\ run'.step = "done" /\ run'.plan = run.plan /\ run'.message = run.message /\ m \in Archived
  BY <1>1, <1>2 DEF RestoreInv, RestoreRows, RestoreRun
<1>4. appended \in [Archived -> Nat] /\ appended' \in [Archived -> Nat]
  BY <1>1, <1>3 DEF RestoreInv, RestoreRows
<1>5. appended'[m] = appended[m] + 1 /\ appended'[m] # 0 /\ \A x \in Archived : x # m => appended'[x] = appended[x]
  BY <1>1, <1>3, <1>4
<1>6. RestoreRows'
  BY <1>2, <1>3, <1>4 DEF RestoreInv, RestoreRows
<1>7. Ended' = Ended /\ EndedStay
  BY <1>2, SidecarSame
<1>8. ASSUME NEW x \in Archived
      PROVE  Charged(x)' = Charged(x) /\ (ReadBack(x)' <=> ReadBack(x))
  BY <1>7, EndedSame DEF RestoreInv
<1>9. ASSUME NEW x \in Archived PROVE PaidByLines(x)'
  <2>1. CASE x = m
    <3>1. OneMore(m)
      BY <1>1, <1>2 DEF RestoreInv, RestoreRunSound
    <3> QED
      BY <1>3, <1>5, <1>8, <2>1, <3>1 DEF OneMore, PaidByLines
  <2>2. CASE x # m
    BY <1>5, <1>7, <2>2, EndedSame DEF RestoreInv
  <2> QED
    BY <2>1, <2>2
<1>10. DoneBacked'
  BY <1>2, <1>5, RecordsOfArchive DEF RestoreInv, DoneBacked
<1>11. RestoreRunSound'
  <2>1. run.plan \in SUBSET Archived
    BY <1>3 DEF RestoreRun
  <2>2. \A x \in run.plan : ~ReadBack(x)'
    BY <1>8, <2>1 DEF RestoreInv, RestoreRunSound
  <2>3. run.plan \cap run.message = {} /\ ~unended /\ \A a, b \in run.message : a = b
    BY <1>2 DEF RestoreInv, RestoreRunSound
  <2>4. \A x \in run.message : appended'[x] # 0
    <3>1. \A x \in run.message : x = m
      BY <1>1 DEF RestoreInv, RestoreRunSound
    <3> QED
      BY <1>5, <3>1
  <2> QED
    BY <1>2, <1>3, <2>2, <2>3, <2>4 DEF RestoreRunSound
<1> QED
  BY <1>6, <1>9, <1>10, <1>11 DEF RestoreInv

LEMMA RestoreInvHolds == RestoreSpec => []RestoreInv
<1>1. RestoreInit => RestoreInv
  <2> SUFFICES ASSUME RestoreInit PROVE RestoreInv
    OBVIOUS
  <2>1. sidecar = <<>> /\ sidecar \in Seq(Seq(RestoreStateRecord)) /\ DOMAIN sidecar = {}
    BY DEF RestoreInit
  <2>2. RestoreRows
    BY <2>1 DEF RestoreInit, RestoreRows, RestoreRun, NoRun
  <2>3. RestoreRunSound
    BY DEF RestoreInit, RestoreRunSound, NoRun
  <2>4. DoneBacked
    BY <2>1 DEF DoneBacked
  <2>5. ASSUME NEW m \in Archived PROVE PaidByLines(m)
    <3>1. Charged(m) = {}
      BY <2>1 DEF Charged, Ended
    <3>2. Cardinality(Charged(m)) = 0
      BY <3>1, FS_EmptySet
    <3> QED
      BY <3>2 DEF RestoreInit, PaidByLines
  <2> QED
    BY <2>2, <2>3, <2>4, <2>5 DEF RestoreInv
<1>2. RestoreInv /\ [RestoreNext]_restore_vars => RestoreInv'
  <2> SUFFICES ASSUME RestoreInv, [RestoreNext]_restore_vars PROVE RestoreInv'
    OBVIOUS
  <2>1. CASE Export \/ write_atomic \/ Damage
    BY <2>1, ArchiveSteps
  <2>2. CASE Begin \/ RestoreDone
    BY <2>2, BeginAndEnd
  <2>3. CASE append_restore_state_line
    BY <2>3, TextSteps, NewlineSteps DEF append_restore_state_line
  <2>4. CASE append_message
    BY <2>4, AppendStep
  <2>5. CASE Stop
    BY <2>5, StopStep
  <2>6. CASE UNCHANGED restore_vars
    <3>1. files' = files /\ sidecar' = sidecar /\ unended' = unended /\ run' = run /\ appended' = appended
      BY <2>6 DEF restore_vars
    <3>2. files' \in [Archived -> {"absent", "whole", "resized", "altered", "symlink"}]
      BY <3>1 DEF RestoreInv, RestoreRows
    <3> QED
      BY <3>1, <3>2, Unmoved
  <2> QED
    BY <2>1, <2>2, <2>3, <2>4, <2>5, <2>6 DEF RestoreNext
<1> QED
  BY <1>1, <1>2, PTL DEF RestoreSpec

\* RestoresLeaveNoneOut: a message is appended once, and once more at most for
\* each malformed line that holds it; between restores, one that is not in the
\* destination is planned or listed; an archive that verifies is as it was
\* exported (backup.rs load_restore_state, plan_restore, verify_archive).
THEOREM RestoresLeaveNoneOut == RestoreSpec => []NoneLeftOut
BY RestoreInvHolds, NoneLeftOutBacked, PTL

-----------------------------------------------------------------------------
(* Reading a folder.  The batches are of bounded size, do not overlap, and *)
(* cover what is to be read; what stayed is in what was answered or in a   *)
(* batch that is still to come.                                            *)

\* The least of some numbers.
LEMMA FirstNumber ==
  ASSUME NEW S \in SUBSET Nat, S # {}
  PROVE  \E n \in S : \A m \in S : ~(m < n)
<1>1. Min(S) \in S /\ \A m \in S : Min(S) <= m
  BY SmallestUid
<1> DEFINE least_one == Min(S)
<1>2. least_one \in S /\ \A m \in S : least_one <= m
  BY <1>1
<1> HIDE DEF least_one
<1>3. \A m \in S : ~(m < least_one)
  BY <1>2
<1> QED
  BY <1>2, <1>3

\* Numbers in increasing order.
Increasing(list) == \A i, j \in DOMAIN list : i < j => list[i] < list[j]
Lists(S, n) == {list \in [1..n -> S] : Increasing(list)}

\* The greatest of some numbers up to a bound.
LEMMA LastNumber ==
  ASSUME NEW S \in SUBSET Nat, S # {}, NEW bound \in Nat, \A m \in S : m <= bound
  PROVE  \E n \in S : \A m \in S : m <= n
<1> DEFINE T == {k \in Nat : \A m \in S : m <= k}
<1>1. bound \in T
  OBVIOUS
<1>2. T \in SUBSET Nat /\ \A k \in T, m \in S : m <= k
  OBVIOUS
<1>3. \A k \in Nat : (\A m \in S : m <= k) => k \in T
  OBVIOUS
<1> HIDE DEF T
<1>4. PICK k \in T : \A m \in T : ~(m < k)
  BY <1>1, <1>2, FirstNumber
<1>5. k \in S
  <2>1. SUFFICES ASSUME k \notin S PROVE FALSE
    OBVIOUS
  <2>2. k \in Nat /\ \A m \in S : m \in Nat /\ m < k
    BY <1>2, <2>1
  <2>3. PICK m \in S : m \in Nat /\ m < k
    BY <2>2
  <2>4. k - 1 \in Nat /\ k - 1 < k /\ \A o \in S : o <= k - 1
    BY <2>2, <2>3
  <2> QED
    BY <1>3, <1>4, <2>4
<1>6. \A m \in S : m <= k
  BY <1>2
<1> QED
  BY <1>5, <1>6

\* Any finite set of numbers can be listed in order.
LEMMA CanBeListed ==
  ASSUME NEW bound \in Nat
  PROVE  \A n \in Nat : \A S \in SUBSET (0..bound) : Cardinality(S) = n => Lists(S, n) # {}
<1> DEFINE Fails0 == {n \in Nat : \E S \in SUBSET (0..bound) : Cardinality(S) = n /\ Lists(S, n) = {}}
<1>0. ASSUME NEW S \in SUBSET (0..bound)
      PROVE  /\ IsFiniteSet(S) /\ Cardinality(S) \in Nat /\ S \in SUBSET Nat
             /\ \A m \in S : m <= bound
  <2>1. IsFiniteSet(0..bound)
    BY FS_Interval
  <2>2. IsFiniteSet(S) /\ Cardinality(S) \in Nat
    BY <2>1, FS_Subset, FS_CardinalityType
  <2> QED
    BY <2>2
<1>1. CASE Fails0 = {}
  BY <1>1
<1>2. CASE Fails0 # {}
  <2>1. PICK n \in Fails0 : \A m \in Fails0 : ~(m < n)
    <3>1. Fails0 \in SUBSET Nat
      OBVIOUS
    <3> HIDE DEF Fails0
    <3> QED
      BY <1>2, <3>1, FirstNumber
  <2>2. PICK S \in SUBSET (0..bound) : Cardinality(S) = n /\ Lists(S, n) = {}
    BY <2>1
  <2>3. n \in Nat
    BY <2>1
  <2>4. CASE n = 0
    <3> DEFINE nothing == [i \in 1..0 |-> 0]
    <3>1. 1..0 = {}
      OBVIOUS
    <3>2. nothing \in [1..0 -> S] /\ DOMAIN nothing = {}
      BY <3>1
    <3> HIDE DEF nothing
    <3>3. nothing \in Lists(S, 0)
      BY <3>2 DEF Lists, Increasing
    <3> QED
      BY <2>2, <2>4, <3>3
  <2>5. CASE n # 0
    <3>1. S # {}
      BY <2>2, <2>5, FS_EmptySet
    <3>2. PICK x \in S : \A m \in S : m <= x
      BY <1>0, <3>1, LastNumber
    <3> DEFINE T == S \ {x}
    <3>3. Cardinality(T) = n - 1 /\ T \in SUBSET (0..bound) /\ n - 1 \in Nat /\ n - 1 < n
      BY <1>0, <2>2, <2>3, <2>5, FS_RemoveElement
    <3>4. Lists(T, n - 1) # {}
      BY <2>1, <3>3
    <3>5. PICK list \in [1..(n - 1) -> T] : Increasing(list)
      BY <3>4 DEF Lists
    <3> DEFINE longer == [i \in 1..n |-> IF i = n THEN x ELSE list[i]]
    <3>6. ASSUME NEW i \in 1..n
          PROVE  i = n \/ i \in 1..(n - 1)
      BY <2>3
    <3>7. ASSUME NEW i \in 1..n PROVE longer[i] \in S /\ (i # n => longer[i] = list[i] /\ list[i] \in T)
      BY <3>5, <3>6
    <3>8. longer \in [1..n -> S]
      BY <3>7
    <3>9. ASSUME NEW i \in 1..n, NEW j \in 1..n, i < j PROVE longer[i] < longer[j]
      <4>1. i \in 1..(n - 1) /\ longer[i] = list[i] /\ list[i] \in T
        BY <3>5, <3>6, <3>9, <2>3
      <4>2. CASE j = n
        <5>1. list[i] \in Nat /\ x \in Nat /\ list[i] <= x /\ list[i] # x
          BY <1>0, <3>2, <4>1
        <5> QED
          BY <4>1, <4>2, <5>1
      <4>3. CASE j # n
        BY <3>5, <3>6, <3>7, <3>9, <4>1, <4>3 DEF Increasing
      <4> QED
        BY <4>2, <4>3
    <3> HIDE DEF longer
    <3>10. longer \in Lists(S, n)
      BY <3>8, <3>9 DEF Lists, Increasing
    <3> QED
      BY <2>2, <3>10
  <2> QED
    BY <2>4, <2>5
<1> QED
  BY <1>1, <1>2

\* What a list in order is.
LEMMA ListedInOrder ==
  ASSUME NEW bound \in Nat, NEW S \in SUBSET (0..bound)
  PROVE  LET list == Ascending(S) n == Cardinality(S)
         IN /\ n \in Nat /\ IsFiniteSet(S)
            /\ list \in [1..n -> S] /\ list \in Seq(Nat) /\ Len(list) = n
            /\ \A i, j \in 1..n : i < j => list[i] < list[j]
            /\ \A i, j \in 1..n : list[i] = list[j] => i = j
            /\ \A u \in S : \E i \in 1..n : list[i] = u
            /\ Range(list) = S
<1> DEFINE list == Ascending(S)
           n == Cardinality(S)
<1>0. S \in SUBSET Nat /\ IsFiniteSet(0..bound)
  BY FS_Interval
<1>1. n \in Nat /\ IsFiniteSet(S) /\ S \in SUBSET Nat
  BY <1>0, FS_Subset, FS_CardinalityType
<1>2. \E l \in [1..n -> S] : \A i, j \in DOMAIN l : i < j => l[i] < l[j]
  <2>1. Lists(S, n) # {}
    BY <1>1, CanBeListed
  <2> QED
    BY <2>1 DEF Lists, Increasing
<1>3. list \in [1..n -> S] /\ \A i, j \in DOMAIN list : i < j => list[i] < list[j]
  BY <1>2 DEF Ascending
<1> HIDE DEF list
<1>4. \A i, j \in 1..n : i < j => list[i] < list[j]
  BY <1>3
<1>5. ASSUME NEW i \in 1..n, NEW j \in 1..n, list[i] = list[j] PROVE i = j
  <2>1. list[i] \in Nat /\ list[j] \in Nat
    BY <1>1, <1>3
  <2>2. ~(list[i] < list[j]) /\ ~(list[j] < list[i])
    BY <1>5, <2>1
  <2>3. ~(i < j) /\ ~(j < i)
    BY <1>4, <2>2
  <2> QED
    BY <1>1, <2>3
<1>6. list \in Injection(1..n, S)
  BY <1>3, <1>5 DEF Injection, IsInjective
<1>7. Cardinality(1..n) = n
  BY <1>1, FS_Interval
<1>8. list \in Surjection(1..n, S)
  BY <1>1, <1>6, <1>7, FS_Injection
<1>9. \A u \in S : \E i \in 1..n : list[i] = u
  BY <1>8 DEF Surjection
<1>10. Range(list) = S
  BY <1>3, <1>9 DEF Range
<1>11. list \in Seq(Nat) /\ Len(list) = n
  <2>1. list \in [1..n -> Nat]
    BY <1>1, <1>3
  <2>2. list \in Seq(Nat)
    BY <1>1, <2>1, SeqDef
  <2> QED
    BY <1>1, <2>1, <2>2, LenProperties
<1> QED
  BY <1>1, <1>3, <1>4, <1>5, <1>9, <1>10, <1>11 DEF list

\* A list without doubles is as long as the set of what is in it.
LEMMA CountedByList ==
  ASSUME NEW T, NEW list \in Seq(T), \A i, j \in DOMAIN list : list[i] = list[j] => i = j
  PROVE  Cardinality(Range(list)) = Len(list) /\ IsFiniteSet(Range(list))
<1> DEFINE n == Len(list)
<1>1. n \in Nat /\ list \in [1..n -> T] /\ DOMAIN list = 1..n
  BY LenProperties
<1>2. list \in Bijection(1..n, Range(list))
  BY <1>1 DEF Bijection, Injection, Surjection, IsInjective, Range
<1>3. ExistsBijection(1..n, Range(list))
  BY <1>2 DEF ExistsBijection
<1> HIDE DEF n
<1>4. Cardinality(Range(list)) = n
  BY <1>1, <1>3, FS_CountingElements
<1>5. IsFiniteSet(Range(list))
  BY <1>1, <1>3, FS_NatBijection
<1> QED
  BY <1>4, <1>5 DEF n

\* What a list holds at some positions.
Chunk(list, lo, hi) == {list[i] : i \in lo..hi}

\* What is listed without doubles at some positions is as many as they are.
LEMMA PositionsCounted ==
  ASSUME NEW list, NEW lo \in Nat, NEW hi \in Nat, lo <= hi,
         \A i, j \in lo..hi : list[i] = list[j] => i = j
  PROVE  IsFiniteSet(Chunk(list, lo, hi)) /\ Cardinality(Chunk(list, lo, hi)) = hi - lo + 1
<1> DEFINE part == {list[i] : i \in lo..hi}
           f == [i \in lo..hi |-> list[i]]
<1>2. f \in Bijection(lo..hi, part)
  BY DEF Bijection, Injection, Surjection, IsInjective
<1>3. IsFiniteSet(lo..hi) /\ Cardinality(lo..hi) = hi - lo + 1
  BY FS_Interval
<1>4. ExistsBijection(lo..hi, part)
  BY <1>2 DEF ExistsBijection
<1> HIDE DEF part, f
<1>5. IsFiniteSet(part) /\ Cardinality(part) = Cardinality(lo..hi)
  BY <1>3, <1>4, FS_Bijection
<1> QED
  BY <1>3, <1>5 DEF part, Chunk

\* The maximal runs of some UIDs denote those UIDs.
LEMMA CompactDenotes ==
  ASSUME NEW S \in SUBSET (1..GreatestUid)
  PROVE  Denotes(compact_uid_sequence_set(S)) = S
<1>0. GreatestUid \in Nat \ {0}
  BY ReadsAssumption
<1>00. \A u \in S : u \in Nat /\ u <= GreatestUid
  BY <1>0
<1>1. ASSUME NEW u \in Denotes(compact_uid_sequence_set(S)) PROVE u \in S
  BY <1>1 DEF Denotes, compact_uid_sequence_set
<1>2. ASSUME NEW u \in S PROVE u \in Denotes(compact_uid_sequence_set(S))
  <2> DEFINE Low == {a \in S : a <= u /\ a..u \subseteq S}
             High == {b \in S : u <= b /\ u..b \subseteq S}
  <2>1. u \in Low /\ u \in High
    <3>1. u..u = {u}
      BY <1>00
    <3> QED
      BY <1>00, <1>2, <3>1
  <2>2. Low \in SUBSET Nat /\ High \in SUBSET Nat /\ \A b \in High : b <= GreatestUid
    BY <1>00
  <2>3. \A a \in S : a <= u /\ a..u \subseteq S <=> a \in Low
    OBVIOUS
  <2>4. \A b \in S : u <= b /\ u..b \subseteq S <=> b \in High
    OBVIOUS
  <2>5. Low \subseteq S /\ High \subseteq S
    OBVIOUS
  <2> HIDE DEF Low, High
  <2>6. PICK a \in Low : \A m \in Low : ~(m < a)
    BY <2>1, <2>2, FirstNumber
  <2>7. PICK b \in High : \A m \in High : m <= b
    BY <1>0, <2>1, <2>2, LastNumber
  <2>8. /\ a \in S /\ a \in Nat /\ a <= u /\ a..u \subseteq S
        /\ b \in S /\ b \in Nat /\ u <= b /\ u..b \subseteq S /\ u \in Nat
    BY <1>00, <2>3, <2>4, <2>5
  <2>9. a..b \subseteq S
    <3> SUFFICES ASSUME NEW x \in a..b PROVE x \in S
      OBVIOUS
    <3>1. x \in a..u \/ x \in u..b
      BY <2>8
    <3> QED
      BY <2>8, <3>1
  <2>10. ASSUME NEW v \in S, v < a PROVE a # saturating_add(v, 1)
    <3>1. v \in Nat /\ v + 1 <= GreatestUid
      BY <1>0, <1>00, <2>8, <2>10
    <3>2. saturating_add(v, 1) = v + 1
      BY <1>0, <3>1 DEF saturating_add, least
    <3>3. SUFFICES ASSUME a = v + 1 PROVE FALSE
      BY <3>2
    <3>4. v..u \subseteq S
      <4> SUFFICES ASSUME NEW x \in v..u PROVE x \in S
        OBVIOUS
      <4>1. x = v \/ x \in a..u
        BY <2>8, <3>1, <3>3
      <4> QED
        BY <2>8, <2>10, <4>1
    <3>5. v <= u
      BY <2>8, <2>10, <3>1
    <3> QED
      BY <2>3, <2>6, <2>10, <3>4, <3>5
  <2>11. ASSUME NEW v \in S, v > b PROVE v # saturating_add(b, 1)
    <3>1. v \in Nat /\ b + 1 <= GreatestUid
      BY <1>0, <1>00, <2>8, <2>11
    <3>2. saturating_add(b, 1) = b + 1
      BY <1>0, <2>8, <3>1 DEF saturating_add, least
    <3>3. SUFFICES ASSUME v = b + 1 PROVE FALSE
      BY <3>2
    <3>4. u..v \subseteq S
      <4> SUFFICES ASSUME NEW x \in u..v PROVE x \in S
        OBVIOUS
      <4>1. x = v \/ x \in u..b
        BY <2>8, <3>1, <3>3
      <4> QED
        BY <2>8, <2>11, <4>1
    <3>5. u <= v /\ ~(v <= b)
      BY <2>8, <2>11, <3>1
    <3> QED
      BY <2>4, <2>7, <2>11, <3>4, <3>5
  <2>12. <<a, b>> \in compact_uid_sequence_set(S)
    <3>1. a <= b
      BY <2>8
    <3> QED
      BY <2>8, <2>9, <2>10, <2>11, <3>1 DEF compact_uid_sequence_set
  <2>13. u \in a..b
    BY <2>8
  <2> QED
    BY <2>12, <2>13 DEF Denotes
<1> QED
  BY <1>1, <1>2

\* The pieces lie within, one after the other, none longer than a batch,
\* and leave nothing out.
LEMMA PiecesPartition ==
  ASSUME NEW last \in 0..GreatestUid, NEW batch_size \in Nat \ {0}
  PROVE  LET pieces == Pieces(1, last, batch_size)
         IN \E n \in Nat :
              /\ DOMAIN pieces = 1..n
              /\ \A i \in 1..n : /\ pieces[i] = <<pieces[i][1], pieces[i][2]>> /\ pieces[i][1] \in Nat /\ pieces[i][2] \in Nat
                                 /\ pieces[i][1] \in 1..last /\ pieces[i][2] \in pieces[i][1]..last
                                 /\ pieces[i][2] - pieces[i][1] < batch_size
              /\ \A i, j \in 1..n : i < j => pieces[i][2] < pieces[j][1]
              /\ \A u \in 1..last : \E i \in 1..n : u \in pieces[i][1]..pieces[i][2]
<1> DEFINE pieces == Pieces(1, last, batch_size)
           start(i) == 1 + (i - 1) * batch_size
           end(i) == least(saturating_add(start(i), batch_size - 1), last)
           Begins == {k \in 1..last : start(k) <= last}
<1>0. GreatestUid \in Nat \ {0} /\ last \in Nat /\ last <= GreatestUid
  BY ReadsAssumption
<1>1. pieces = [i \in Begins |-> <<start(i), end(i)>>]
  BY DEF Pieces
<1>2. ASSUME NEW i \in Nat \ {0} PROVE start(i) \in Nat /\ i <= start(i) /\ start(i + 1) = start(i) + batch_size
  <2>1. (i - 1) * batch_size >= i - 1 /\ (i - 1) * batch_size \in Nat
    OBVIOUS
  <2>2. ((i + 1) - 1) * batch_size = (i - 1) * batch_size + batch_size
    OBVIOUS
  <2> QED
    BY <2>1, <2>2
<1>3. ASSUME NEW i \in Nat \ {0}, NEW j \in Nat \ {0}, i < j PROVE start(i) + batch_size <= start(j)
  <2>1. (j - 1) * batch_size = (i - 1) * batch_size + (j - i) * batch_size
    OBVIOUS
  <2>2. (j - i) * batch_size >= batch_size
    BY <1>3
  <2>3. {(j - 1) * batch_size, (i - 1) * batch_size, (j - i) * batch_size} \subseteq Int
    OBVIOUS
  <2> QED
    BY <2>1, <2>2, <2>3
<1>4. start(1) = 1
  OBVIOUS
<1>5. Begins \in SUBSET Nat /\ \A k \in Begins : k \in Nat \ {0} /\ k <= last /\ start(k) <= last
  OBVIOUS
<1>6. \A k \in 1..last : start(k) <= last => k \in Begins
  OBVIOUS
<1> HIDE DEF Begins, start
<1>7. ASSUME NEW i \in Nat \ {0}, start(i) <= last
      PROVE  end(i) \in start(i)..last /\ end(i) - start(i) < batch_size
  BY <1>0, <1>2, <1>7 DEF least, saturating_add
<1>15. ASSUME NEW i \in Nat \ {0}, NEW u \in 1..last, u < start(i) + batch_size PROVE u <= end(i)
  BY <1>0, <1>2, <1>15 DEF least, saturating_add
<1> HIDE DEF end
<1>8. \E n \in Nat : Begins = 1..n
  <2>1. CASE Begins = {}
    <3>1. 1..0 = {}
      OBVIOUS
    <3> QED
      BY <2>1, <3>1
  <2>2. CASE Begins # {}
    <3>1. PICK n \in Begins : \A k \in Begins : k <= n
      BY <1>0, <1>5, <2>2, LastNumber
    <3>2. ASSUME NEW k \in 1..n PROVE k \in Begins
      <4>1. k \in Nat \ {0} /\ n \in Nat \ {0} /\ n <= last /\ start(n) <= last /\ k \in 1..last
        BY <1>0, <1>5
      <4>2. k = n \/ start(k) + batch_size <= start(n)
        BY <1>3, <4>1
      <4>3. start(k) \in Nat /\ start(n) \in Nat
        BY <1>2, <4>1
      <4>4. start(k) <= last
        BY <1>0, <4>1, <4>2, <4>3
      <4> QED
        BY <1>6, <4>1, <4>4
    <3>3. \A k \in Begins : k \in 1..n
      BY <1>5, <3>1
    <3> QED
      BY <1>5, <3>2, <3>3
  <2> QED
    BY <2>1, <2>2
<1>9. PICK n \in Nat : Begins = 1..n
  BY <1>8
<1> HIDE DEF pieces
<1>10. DOMAIN pieces = 1..n /\ \A i \in 1..n : pieces[i] = <<start(i), end(i)>>
  BY <1>1, <1>9
<1>11. \A i \in 1..n : i \in Nat \ {0} /\ start(i) \in 1..last /\ end(i) \in start(i)..last /\ end(i) - start(i) < batch_size
  <2> SUFFICES ASSUME NEW i \in 1..n
               PROVE  i \in Nat \ {0} /\ start(i) \in 1..last /\ end(i) \in start(i)..last /\ end(i) - start(i) < batch_size
    OBVIOUS
  <2>1. i \in Nat \ {0} /\ start(i) <= last
    BY <1>5, <1>9
  <2>2. start(i) \in Nat /\ i <= start(i)
    BY <1>2, <2>1
  <2> QED
    BY <1>0, <1>7, <2>1, <2>2
<1>12. ASSUME NEW i \in 1..n, NEW j \in 1..n, i < j PROVE end(i) < start(j)
  <2>1. start(i) + batch_size <= start(j)
    BY <1>3, <1>11, <1>12
  <2>2. start(i) \in Nat /\ start(j) \in Nat /\ end(i) \in Nat /\ end(i) - start(i) < batch_size
    BY <1>0, <1>11
  <2> QED
    BY <2>1, <2>2
<1>13. ASSUME NEW u \in 1..last PROVE \E i \in 1..n : u \in start(i)..end(i)
  <2> DEFINE T == {i \in 1..last : start(i) <= u}
  <2>1. T \in SUBSET Nat /\ \A i \in T : i <= last /\ i \in Nat \ {0} /\ start(i) <= u
    OBVIOUS
  <2>2. 1 \in T
    BY <1>0, <1>4
  <2>3. \A i \in 1..last : start(i) <= u => i \in T
    OBVIOUS
  <2> HIDE DEF T
  <2>4. PICK i \in T : \A k \in T : k <= i
    BY <1>0, <2>1, <2>2, LastNumber
  <2>5. i \in Nat \ {0} /\ i <= last /\ start(i) <= u /\ start(i) \in Nat /\ i <= start(i)
    BY <1>2, <2>1
  <2>6. start(i + 1) = start(i) + batch_size
    BY <1>2, <2>5
  <2>7. i \in 1..last /\ start(i) <= last
    BY <1>0, <2>5
  <2>8. i \in 1..n
    BY <1>6, <1>9, <2>7
  <2>9. u < start(i) + batch_size
    <3>1. CASE i = last
      BY <1>0, <2>5, <3>1
    <3>2. CASE i # last
      <4>1. i + 1 \in 1..last /\ ~(i + 1 <= i)
        BY <1>0, <2>5, <3>2
      <4>2. ~(start(i + 1) <= u)
        BY <2>3, <2>4, <4>1
      <4> QED
        BY <1>0, <2>5, <2>6, <4>2
    <3> QED
      BY <3>1, <3>2
  <2>10. u <= end(i)
    BY <1>15, <2>5, <2>9
  <2> QED
    BY <1>0, <1>11, <2>5, <2>8, <2>10
<1>14. \A i \in 1..n : /\ pieces[i] = <<pieces[i][1], pieces[i][2]>>
                       /\ pieces[i][1] = start(i) /\ pieces[i][2] = end(i)
  BY <1>10
<1>20. \A i \in 1..n : start(i) \in Nat /\ end(i) \in Nat
  BY <1>0, <1>11
<1>16. \A i \in 1..n : /\ pieces[i] = <<pieces[i][1], pieces[i][2]>> /\ pieces[i][1] \in Nat /\ pieces[i][2] \in Nat
                       /\ pieces[i][1] \in 1..last /\ pieces[i][2] \in pieces[i][1]..last
                       /\ pieces[i][2] - pieces[i][1] < batch_size
  BY <1>11, <1>14, <1>20
<1>17. \A i, j \in 1..n : i < j => pieces[i][2] < pieces[j][1]
  BY <1>12, <1>14
<1>18. \A u \in 1..last : \E i \in 1..n : u \in pieces[i][1]..pieces[i][2]
  BY <1>13, <1>14
<1>19. DOMAIN pieces = 1..n
  BY <1>10
<1> QED
  BY <1>16, <1>17, <1>18, <1>19, Zenon DEF pieces

\* What batches that are still to be asked for, and what they are to cover,
\* have in common: none is empty or too large, no two overlap.
BatchesSound(sets, all) ==
  /\ sets \in Seq(SUBSET (Nat \X Nat))
  /\ \A i \in 1..Len(sets) : /\ Denotes(sets[i]) \subseteq 1..GreatestUid
                             /\ IsFiniteSet(Denotes(sets[i]))
                             /\ Cardinality(Denotes(sets[i])) \in 1..DEFAULT_BATCH_SIZE
  /\ \A i, j \in 1..Len(sets) : i # j => Denotes(sets[i]) \cap Denotes(sets[j]) = {}
  /\ \A u \in all : \E i \in 1..Len(sets) : u \in Denotes(sets[i])

LEMMA RangeBatchesSound ==
  ASSUME NEW last \in 1..GreatestUid
  PROVE  BatchesSound(uid_range_batches(1, last, DEFAULT_BATCH_SIZE), 1..last)
<1> DEFINE pieces == Pieces(1, last, DEFAULT_BATCH_SIZE)
           sets == uid_range_batches(1, last, DEFAULT_BATCH_SIZE)
<1>0. /\ GreatestUid \in Nat \ {0} /\ DEFAULT_BATCH_SIZE \in Nat \ {0}
      /\ last \in 0..GreatestUid /\ last \in Nat /\ last <= GreatestUid /\ last >= 1
  BY ReadsAssumption
<1>1. PICK n \in Nat :
        /\ DOMAIN pieces = 1..n
        /\ \A i \in 1..n : /\ pieces[i] = <<pieces[i][1], pieces[i][2]>> /\ pieces[i][1] \in Nat /\ pieces[i][2] \in Nat
                           /\ pieces[i][1] \in 1..last /\ pieces[i][2] \in pieces[i][1]..last
                           /\ pieces[i][2] - pieces[i][1] < DEFAULT_BATCH_SIZE
        /\ \A i, j \in 1..n : i < j => pieces[i][2] < pieces[j][1]
        /\ \A u \in 1..last : \E i \in 1..n : u \in pieces[i][1]..pieces[i][2]
  BY <1>0, PiecesPartition
<1>2. sets = [i \in 1..n |-> {pieces[i]}]
  <2>1. ~(1 = 0 \/ 1 > last)
    BY <1>0
  <2>2. sets = [i \in DOMAIN pieces |-> {pieces[i]}]
    BY <2>1, Zenon DEF uid_range_batches
  <2> QED
    BY <1>1, <2>2, Zenon
<1> HIDE DEF pieces, sets
<1>3. \A i \in 1..n : pieces[i] \in Nat \X Nat
  <2> SUFFICES ASSUME NEW i \in 1..n PROVE pieces[i] \in Nat \X Nat
    OBVIOUS
  <2>1. pieces[i] = <<pieces[i][1], pieces[i][2]>> /\ pieces[i][1] \in Nat /\ pieces[i][2] \in Nat
    BY <1>0, <1>1
  <2> QED
    BY <2>1
<1>4. sets \in [1..n -> SUBSET (Nat \X Nat)]
  BY <1>2, <1>3
<1>5. sets \in Seq(SUBSET (Nat \X Nat)) /\ Len(sets) = n
  <2>1. sets \in Seq(SUBSET (Nat \X Nat))
    BY <1>4, SeqDef
  <2> QED
    BY <1>4, <2>1, LenProperties
<1>6. ASSUME NEW i \in 1..n PROVE Denotes(sets[i]) = pieces[i][1]..pieces[i][2]
  BY <1>2 DEF Denotes
<1>7. ASSUME NEW i \in 1..n
      PROVE  /\ Denotes(sets[i]) \subseteq 1..GreatestUid
             /\ IsFiniteSet(Denotes(sets[i]))
             /\ Cardinality(Denotes(sets[i])) \in 1..DEFAULT_BATCH_SIZE
  <2> DEFINE lo == pieces[i][1]
             hi == pieces[i][2]
  <2>1. lo \in 1..last /\ hi \in lo..last /\ hi - lo < DEFAULT_BATCH_SIZE
    BY <1>1
  <2>2. Denotes(sets[i]) = lo..hi
    BY <1>6
  <2> HIDE DEF lo, hi
  <2>3. lo..hi \subseteq 1..GreatestUid
    BY <1>0, <2>1
  <2>4. lo \in Int /\ hi \in Int /\ lo <= hi
    BY <1>0, <2>1
  <2>5. IsFiniteSet(lo..hi) /\ Cardinality(lo..hi) = hi - lo + 1
    BY <2>4, FS_Interval
  <2>6. hi - lo + 1 \in 1..DEFAULT_BATCH_SIZE
    BY <1>0, <2>1, <2>4
  <2> QED
    BY <2>2, <2>3, <2>5, <2>6
<1>8. ASSUME NEW i \in 1..n, NEW j \in 1..n, i < j PROVE Denotes(sets[i]) \cap Denotes(sets[j]) = {}
  <2>1. pieces[i][2] < pieces[j][1] /\ pieces[i][2] \in Nat /\ pieces[j][1] \in Nat
    BY <1>0, <1>1, <1>8
  <2>2. Denotes(sets[i]) = pieces[i][1]..pieces[i][2] /\ Denotes(sets[j]) = pieces[j][1]..pieces[j][2]
    BY <1>6
  <2> QED
    BY <2>1, <2>2
<1>9. \A i, j \in 1..n : i # j => Denotes(sets[i]) \cap Denotes(sets[j]) = {}
  <2> SUFFICES ASSUME NEW i \in 1..n, NEW j \in 1..n, i # j PROVE Denotes(sets[i]) \cap Denotes(sets[j]) = {}
    OBVIOUS
  <2>1. i < j \/ j < i
    OBVIOUS
  <2> QED
    BY <1>8, <2>1
<1>10. \A u \in 1..last : \E i \in 1..n : u \in Denotes(sets[i])
  BY <1>1, <1>6
<1> QED
  BY <1>5, <1>7, <1>9, <1>10 DEF BatchesSound, sets

LEMMA SequenceBatchesSound ==
  ASSUME NEW S \in SUBSET (1..GreatestUid)
  PROVE  BatchesSound(uid_sequence_set_batches(Ascending(S), DEFAULT_BATCH_SIZE), S)
<1> DEFINE uids == Ascending(S)
           last == Cardinality(S)
           pieces == Pieces(1, last, DEFAULT_BATCH_SIZE)
           chunk(i) == {uids[j] : j \in pieces[i][1]..pieces[i][2]}
           sets == uid_sequence_set_batches(uids, DEFAULT_BATCH_SIZE)
<1>0. GreatestUid \in Nat \ {0} /\ DEFAULT_BATCH_SIZE \in Nat \ {0} /\ S \in SUBSET (0..GreatestUid)
  BY ReadsAssumption
<1>1. /\ last \in Nat /\ IsFiniteSet(S) /\ uids \in [1..last -> S] /\ uids \in Seq(Nat) /\ Len(uids) = last
      /\ \A i, j \in 1..last : uids[i] = uids[j] => i = j
      /\ \A u \in S : \E i \in 1..last : uids[i] = u
  BY <1>0, ListedInOrder, Zenon
<1>2. last \in 0..GreatestUid
  <2>1. IsFiniteSet(1..GreatestUid) /\ Cardinality(1..GreatestUid) = GreatestUid
    BY <1>0, FS_Interval
  <2>2. last <= Cardinality(1..GreatestUid)
    BY <2>1, FS_Subset
  <2> QED
    BY <1>0, <1>1, <2>1, <2>2
<1> HIDE DEF uids, last
<1>3. PICK n \in Nat :
        /\ DOMAIN pieces = 1..n
        /\ \A i \in 1..n : /\ pieces[i] = <<pieces[i][1], pieces[i][2]>> /\ pieces[i][1] \in Nat /\ pieces[i][2] \in Nat
                           /\ pieces[i][1] \in 1..last /\ pieces[i][2] \in pieces[i][1]..last
                           /\ pieces[i][2] - pieces[i][1] < DEFAULT_BATCH_SIZE
        /\ \A i, j \in 1..n : i < j => pieces[i][2] < pieces[j][1]
        /\ \A u \in 1..last : \E i \in 1..n : u \in pieces[i][1]..pieces[i][2]
  BY <1>0, <1>2, PiecesPartition
<1>4. sets = [i \in 1..n |-> compact_uid_sequence_set(chunk(i))]
  BY <1>1, <1>3 DEF uid_sequence_set_batches
<1>13. \A i \in 1..n : chunk(i) = {uids[j] : j \in pieces[i][1]..pieces[i][2]}
  OBVIOUS
<1> HIDE DEF pieces, sets, chunk
<1>5. ASSUME NEW i \in 1..n
      PROVE  /\ chunk(i) \in SUBSET S /\ IsFiniteSet(chunk(i))
             /\ Cardinality(chunk(i)) \in 1..DEFAULT_BATCH_SIZE
             /\ pieces[i][1]..pieces[i][2] \in SUBSET (1..last)
  <2> DEFINE lo == pieces[i][1]
             hi == pieces[i][2]
  <2>1. lo \in 1..last /\ hi \in lo..last /\ hi - lo < DEFAULT_BATCH_SIZE
    BY <1>3
  <2>2. chunk(i) = {uids[j] : j \in lo..hi}
    BY <1>13
  <2> HIDE DEF lo, hi
  <2>7. lo \in Nat /\ hi \in Nat /\ lo >= 1 /\ lo <= hi /\ hi <= last
    BY <1>1, <2>1
  <2>3. IsFiniteSet(chunk(i)) /\ Cardinality(chunk(i)) = hi - lo + 1
    <3>1. IsFiniteSet(Chunk(uids, lo, hi)) /\ Cardinality(Chunk(uids, lo, hi)) = hi - lo + 1
      <4>1. \A j, k \in lo..hi : uids[j] = uids[k] => j = k
        BY <1>1, <2>7
      <4> QED
        BY <2>7, <4>1, PositionsCounted
    <3> QED
      BY <2>2, <3>1, Zenon DEF Chunk
  <2>4. hi - lo + 1 \in 1..DEFAULT_BATCH_SIZE
    BY <1>0, <1>1, <2>1
  <2>5. lo..hi \in SUBSET (1..last)
    BY <1>1, <2>7
  <2>6. chunk(i) \in SUBSET S
    <3>1. \A j \in lo..hi : uids[j] \in S
      BY <1>1, <2>5
    <3> QED
      BY <2>2, <3>1
  <2> QED
    BY <2>3, <2>4, <2>5, <2>6 DEF lo, hi
<1>6. ASSUME NEW i \in 1..n PROVE Denotes(sets[i]) = chunk(i) /\ sets[i] \in SUBSET (Nat \X Nat)
  <2>1. chunk(i) \in SUBSET (1..GreatestUid) /\ chunk(i) \in SUBSET Nat
    <3>1. chunk(i) \subseteq S
      BY <1>5
    <3>2. S \subseteq 1..GreatestUid /\ S \subseteq Nat
      BY <1>0
    <3> QED
      BY <3>1, <3>2, Zenon
  <2>2. sets[i] = compact_uid_sequence_set(chunk(i))
    BY <1>4
  <2>3. sets[i] \in SUBSET (Nat \X Nat)
    BY <2>1, <2>2 DEF compact_uid_sequence_set
  <2> QED
    BY <2>1, <2>2, <2>3, CompactDenotes
<1>7. sets \in [1..n -> SUBSET (Nat \X Nat)]
  BY <1>4, <1>6
<1>8. sets \in Seq(SUBSET (Nat \X Nat)) /\ Len(sets) = n
  <2>1. sets \in Seq(SUBSET (Nat \X Nat))
    BY <1>7, SeqDef
  <2> QED
    BY <1>7, <2>1, LenProperties
<1>9. ASSUME NEW i \in 1..n, NEW j \in 1..n, i < j PROVE chunk(i) \cap chunk(j) = {}
  <2>1. pieces[i][2] < pieces[j][1]
    BY <1>3, <1>9
  <2>2. SUFFICES ASSUME NEW a \in pieces[i][1]..pieces[i][2], NEW b \in pieces[j][1]..pieces[j][2], uids[a] = uids[b]
                 PROVE  FALSE
    BY <1>13
  <2>3. a \in 1..last /\ b \in 1..last
    BY <1>5
  <2>4. a = b
    BY <1>1, <2>2, <2>3
  <2>5. pieces[i][1] \in Nat /\ pieces[i][2] \in Nat /\ pieces[j][1] \in Nat /\ pieces[j][2] \in Nat
    BY <1>3
  <2> QED
    BY <2>1, <2>4, <2>5
<1>10. \A i, j \in 1..n : i # j => chunk(i) \cap chunk(j) = {}
  <2> SUFFICES ASSUME NEW i \in 1..n, NEW j \in 1..n, i # j PROVE chunk(i) \cap chunk(j) = {}
    OBVIOUS
  <2>1. i < j \/ j < i
    OBVIOUS
  <2> QED
    BY <1>9, <2>1
<1>11. ASSUME NEW u \in S PROVE \E i \in 1..n : u \in chunk(i)
  <2>1. PICK p \in 1..last : uids[p] = u
    BY <1>1
  <2>2. PICK i \in 1..n : p \in pieces[i][1]..pieces[i][2]
    BY <1>3
  <2> QED
    BY <1>13, <2>1, <2>2
<1>12. \A i \in 1..n : chunk(i) \subseteq 1..GreatestUid
  BY <1>5
<1>14. BatchesSound(sets, S)
  <2>1. \A i \in 1..n : /\ Denotes(sets[i]) \subseteq 1..GreatestUid
                         /\ IsFiniteSet(Denotes(sets[i]))
                         /\ Cardinality(Denotes(sets[i])) \in 1..DEFAULT_BATCH_SIZE
    <3> SUFFICES ASSUME NEW i \in 1..n
                 PROVE  /\ Denotes(sets[i]) \subseteq 1..GreatestUid
                        /\ IsFiniteSet(Denotes(sets[i]))
                        /\ Cardinality(Denotes(sets[i])) \in 1..DEFAULT_BATCH_SIZE
      OBVIOUS
    <3>1. Denotes(sets[i]) = chunk(i)
      BY <1>6
    <3>2. chunk(i) \subseteq 1..GreatestUid /\ IsFiniteSet(chunk(i)) /\ Cardinality(chunk(i)) \in 1..DEFAULT_BATCH_SIZE
      BY <1>5, <1>12
    <3> QED
      BY <3>1, <3>2, Zenon
  <2>2. \A i, j \in 1..n : i # j => Denotes(sets[i]) \cap Denotes(sets[j]) = {}
    <3> SUFFICES ASSUME NEW i \in 1..n, NEW j \in 1..n, i # j PROVE Denotes(sets[i]) \cap Denotes(sets[j]) = {}
      OBVIOUS
    <3>1. Denotes(sets[i]) = chunk(i) /\ Denotes(sets[j]) = chunk(j)
      BY <1>6
    <3>2. chunk(i) \cap chunk(j) = {}
      BY <1>10
    <3> QED
      BY <3>1, <3>2, Zenon
  <2>3. \A u \in S : \E i \in 1..n : u \in Denotes(sets[i])
    BY <1>6, <1>11, Zenon
  <2> QED
    BY <1>8, <2>1, <2>2, <2>3, Zenon DEF BatchesSound
<1> QED
  BY <1>14 DEF sets, uids

\* What has been answered: UIDs, none twice.
Answered(out) == out \in Seq(1..GreatestUid) /\ \A i, j \in 1..Len(out) : out[i] = out[j] => i = j

\* The state of a read under way.
BatchRead(r, stayed) ==
  \E sets, out :
    /\ r = Batches(sets, out)
    /\ Answered(out) /\ BatchesSound(sets, stayed \ Range(out))
    /\ \A i \in 1..Len(sets) : Denotes(sets[i]) \cap Range(out) = {}

WindowRead(r, stayed) ==
  \E step \in {"summaries", "peek"}, limit \in Nat, asked \in SUBSET (1..GreatestUid) :
    /\ r = [step |-> step, limit |-> limit, asked |-> asked]
    /\ limit # None /\ Cardinality(asked) <= limit
    /\ \A u \in stayed \ asked, v \in asked : u < v

FetchedWhole(f, stayed) ==
  LET got == Range(f.uids)
  IN /\ got \subseteq 1..GreatestUid /\ Cardinality(got) = Len(f.uids)
     /\ IF f.limit = None THEN stayed \subseteq got
        ELSE Cardinality(got) <= f.limit /\ \A u \in stayed \ got, v \in got : u < v

ReadInv ==
  /\ folder \subseteq 1..GreatestUid /\ next \in 1..(GreatestUid + 1) /\ \A u \in folder : u < next
  /\ announces \in BOOLEAN /\ kept \subseteq folder
  /\ read # None => read = Listing \/ BatchRead(read, kept) \/ WindowRead(read, kept)
  /\ fetched # None => FetchedWhole(fetched, kept)

\* A message that goes takes nothing from what the read still promises.
LEMMA FewerStay ==
  ASSUME NEW stayed, NEW fewer, fewer \subseteq stayed, NEW r
  PROVE  /\ BatchRead(r, stayed) => BatchRead(r, fewer)
         /\ WindowRead(r, stayed) => WindowRead(r, fewer)
         /\ FetchedWhole(r, stayed) => FetchedWhole(r, fewer)
<1>1. ASSUME BatchRead(r, stayed) PROVE BatchRead(r, fewer)
  <2>1. PICK sets, out :
          /\ r = Batches(sets, out)
          /\ Answered(out) /\ BatchesSound(sets, stayed \ Range(out))
          /\ \A i \in 1..Len(sets) : Denotes(sets[i]) \cap Range(out) = {}
    BY <1>1 DEF BatchRead
  <2>2. BatchesSound(sets, fewer \ Range(out))
    BY <2>1, Zenon DEF BatchesSound
  <2> QED
    BY <2>1, <2>2, Zenon DEF BatchRead
<1>2. ASSUME WindowRead(r, stayed) PROVE WindowRead(r, fewer)
  BY <1>2, Zenon DEF WindowRead
<1>3. ASSUME FetchedWhole(r, stayed) PROVE FetchedWhole(r, fewer)
  BY <1>3, Zenon DEF FetchedWhole
<1> QED
  BY <1>1, <1>2, <1>3

\* What is asked for first is answered: what stayed is in the answer or is
\* still to be asked for.
LEMMA BatchAnswered ==
  ASSUME ReadInv, BatchRead(read, kept), read.sets # <<>>
  PROVE  BatchRead(Batches(Tail(read.sets), read.out \o Ascending(folder \cap Denotes(Head(read.sets)))), kept)
<1>1. PICK sets, out :
        /\ read = Batches(sets, out)
        /\ Answered(out) /\ BatchesSound(sets, kept \ Range(out))
        /\ \A i \in 1..Len(sets) : Denotes(sets[i]) \cap Range(out) = {}
  BY Zenon DEF BatchRead
<1> DEFINE asked == Denotes(sets[1])
           S == folder \cap asked
           list == Ascending(S)
           n == Cardinality(S)
           rest == Tail(sets)
           more == out \o list
<1>2. sets \in Seq(SUBSET (Nat \X Nat)) /\ sets # <<>>
  BY <1>1 DEF BatchesSound, Batches
<1>3. Len(sets) \in Nat \ {0} /\ Head(sets) = sets[1]
  BY <1>2
<1>4. /\ rest \in Seq(SUBSET (Nat \X Nat)) /\ Len(rest) = Len(sets) - 1
      /\ \A i \in 1..Len(rest) : rest[i] = sets[i + 1]
  BY <1>2
<1>5. GreatestUid \in Nat \ {0} /\ S \in SUBSET (0..GreatestUid) /\ S \subseteq 1..GreatestUid
  <2>1. folder \subseteq 1..GreatestUid
    BY DEF ReadInv
  <2>2. GreatestUid \in Nat \ {0}
    BY ReadsAssumption
  <2>3. S \subseteq 1..GreatestUid
    BY <2>1
  <2> HIDE DEF S
  <2> QED
    BY <2>2, <2>3
<1> HIDE DEF S
<1>6. /\ n \in Nat /\ list \in [1..n -> S] /\ list \in Seq(Nat) /\ Len(list) = n
      /\ \A i, j \in 1..n : list[i] = list[j] => i = j
      /\ Range(list) = S
  BY <1>5, ListedInOrder, Zenon
<1> HIDE DEF list, n
<1>7. list \in Seq(1..GreatestUid) /\ DOMAIN list = 1..n
  <2>1. list \in [1..n -> 1..GreatestUid]
    <3>1. \A i \in 1..n : list[i] \in 1..GreatestUid
      BY <1>5, <1>6
    <3> QED
      BY <1>6, <3>1
  <2>2. n \in Nat
    BY <1>6
  <2>3. list \in Seq(1..GreatestUid)
    BY <2>1, <2>2, SeqDef
  <2> QED
    BY <2>1, <2>3
<1>8. out \in Seq(1..GreatestUid) /\ Len(out) \in Nat /\ DOMAIN out = 1..Len(out)
  BY <1>1 DEF Answered
<1>9. /\ more \in Seq(1..GreatestUid) /\ Len(more) = Len(out) + n
      /\ \A i \in 1..Len(more) : more[i] = IF i <= Len(out) THEN out[i] ELSE list[i - Len(out)]
  <2>1. list \in Seq(1..GreatestUid) /\ Len(list) = n
    BY <1>6, <1>7
  <2> QED
    BY <1>8, <2>1, ConcatProperties
<1> HIDE DEF more, rest
<1>10. \A i \in 1..Len(out) : out[i] \in Range(out)
  BY <1>8 DEF Range
<1>11. asked \cap Range(out) = {}
  BY <1>1, <1>3
<1>12. Range(more) = Range(out) \cup S
  <2>1. DOMAIN more = 1..Len(more)
    BY <1>9
  <2>2. ASSUME NEW u \in Range(more) PROVE u \in Range(out) \cup S
    <3>1. PICK i \in 1..Len(more) : more[i] = u
      BY <2>1, <2>2 DEF Range
    <3>2. CASE i <= Len(out)
      BY <1>8, <1>9, <1>10, <3>1, <3>2
    <3>3. CASE ~(i <= Len(out))
      <4>1. i - Len(out) \in 1..n /\ u = list[i - Len(out)]
        BY <1>6, <1>8, <1>9, <3>1, <3>3
      <4> QED
        BY <1>6, <4>1
    <3> QED
      BY <3>2, <3>3
  <2>3. ASSUME NEW u \in Range(out) PROVE u \in Range(more)
    <3>1. PICK i \in 1..Len(out) : out[i] = u
      BY <1>8, <2>3 DEF Range
    <3>2. i \in 1..Len(more) /\ more[i] = u
      BY <1>6, <1>8, <1>9, <3>1
    <3> QED
      BY <2>1, <3>2 DEF Range
  <2>4. ASSUME NEW u \in S PROVE u \in Range(more)
    <3>1. PICK i \in 1..n : list[i] = u
      BY <1>6, <1>7, <2>4 DEF Range
    <3>2. i + Len(out) \in 1..Len(more) /\ ~(i + Len(out) <= Len(out)) /\ (i + Len(out)) - Len(out) = i
      BY <1>6, <1>8, <1>9
    <3>3. more[i + Len(out)] = u
      BY <1>9, <3>1, <3>2
    <3> QED
      BY <2>1, <3>2, <3>3 DEF Range
  <2> QED
    BY <2>2, <2>3, <2>4
<1>13. Answered(more)
  <2> SUFFICES ASSUME NEW i \in 1..Len(more), NEW j \in 1..Len(more), more[i] = more[j] PROVE i = j
    BY <1>9 DEF Answered
  <2>1. \A k \in 1..Len(more) : k \in Nat
                                /\ \/ k <= Len(out) /\ k \in 1..Len(out) /\ more[k] = out[k]
                                   \/ ~(k <= Len(out)) /\ k - Len(out) \in 1..n /\ more[k] = list[k - Len(out)]
    BY <1>6, <1>8, <1>9
  <2>2. \A k \in 1..n : list[k] \in S /\ list[k] \in asked
    BY <1>6 DEF S
  <2>3. CASE i <= Len(out) /\ j <= Len(out)
    BY <1>1, <2>1, <2>3 DEF Answered
  <2>4. CASE ~(i <= Len(out)) /\ ~(j <= Len(out))
    <3>1. i - Len(out) = j - Len(out)
      BY <1>6, <2>1, <2>4
    <3> QED
      BY <1>8, <2>1, <3>1
  <2>5. ASSUME NEW a \in 1..Len(more), NEW b \in 1..Len(more), a <= Len(out), ~(b <= Len(out)) PROVE more[a] # more[b]
    <3>1. more[a] \in Range(out) /\ more[b] \in asked
      BY <1>10, <2>1, <2>2, <2>5
    <3> QED
      BY <1>11, <3>1
  <2> QED
    BY <2>3, <2>4, <2>5
<1>14. \A i \in 1..Len(rest) : i \in 1..Len(sets) /\ i + 1 \in 1..Len(sets) /\ i + 1 # 1 /\ rest[i] = sets[i + 1]
  BY <1>3, <1>4
<1>15. BatchesSound(rest, kept \ Range(more))
  <2>1. ASSUME NEW i \in 1..Len(rest)
        PROVE  /\ Denotes(rest[i]) \subseteq 1..GreatestUid
               /\ IsFiniteSet(Denotes(rest[i]))
               /\ Cardinality(Denotes(rest[i])) \in 1..DEFAULT_BATCH_SIZE
    BY <1>1, <1>14, Zenon DEF BatchesSound
  <2>2. ASSUME NEW i \in 1..Len(rest), NEW j \in 1..Len(rest), i # j
        PROVE  Denotes(rest[i]) \cap Denotes(rest[j]) = {}
    <3>1. i + 1 # j + 1
      BY <2>2
    <3> QED
      BY <1>1, <1>14, <3>1, Zenon DEF BatchesSound
  <2>3. ASSUME NEW u \in kept \ Range(more) PROVE \E i \in 1..Len(rest) : u \in Denotes(rest[i])
    <3>1. u \in kept \ Range(out) /\ u \notin S /\ u \in folder
      BY <1>12 DEF ReadInv
    <3>2. PICK i \in 1..Len(sets) : u \in Denotes(sets[i])
      BY <1>1, <3>1, Zenon DEF BatchesSound
    <3>3. i # 1
      BY <3>1, <3>2 DEF S
    <3>4. i - 1 \in 1..Len(rest) /\ (i - 1) + 1 = i
      BY <1>3, <1>4, <3>3
    <3>5. rest[i - 1] = sets[i]
      BY <1>4, <3>4
    <3> QED
      BY <3>2, <3>4, <3>5, Zenon
  <2> QED
    BY <1>4, <2>1, <2>2, <2>3, Zenon DEF BatchesSound
<1>16. \A i \in 1..Len(rest) : Denotes(rest[i]) \cap Range(more) = {}
  <2> SUFFICES ASSUME NEW i \in 1..Len(rest) PROVE Denotes(rest[i]) \cap Range(more) = {}
    OBVIOUS
  <2>1. Denotes(sets[i + 1]) \cap Range(out) = {} /\ rest[i] = sets[i + 1]
    BY <1>1, <1>14, Zenon
  <2>2. 1 \in 1..Len(sets)
    BY <1>3
  <2>3. Denotes(sets[i + 1]) \cap asked = {}
    BY <1>1, <1>14, <2>2, Zenon DEF BatchesSound
  <2> QED
    BY <1>12, <2>1, <2>3 DEF S
<1>17. Batches(Tail(read.sets), read.out \o Ascending(folder \cap Denotes(Head(read.sets)))) = Batches(rest, more)
  <2>1. read.sets = sets /\ read.out = out
    BY <1>1 DEF Batches
  <2>2. Head(read.sets) = sets[1]
    BY <1>3, <2>1
  <2> QED
    BY <2>1, <2>2, Zenon DEF rest, more, list, S
<1> QED
  BY <1>13, <1>15, <1>16, <1>17, Zenon DEF BatchRead

\* The newest of some messages: no more than asked for, and none of the
\* others is newer.
LEMMA NewestAsked ==
  ASSUME NEW uids \in SUBSET (1..GreatestUid), uids # {}, NEW limit \in Nat \ {0}
  PROVE  LET exists == Cardinality(uids)
             start == IF exists > limit THEN exists - limit + 1 ELSE 1
             asked == {Ascending(uids)[i] : i \in start..exists}
         IN /\ asked \in SUBSET uids /\ Cardinality(asked) <= limit
            /\ \A u \in uids \ asked, v \in asked : u < v
<1> DEFINE exists == Cardinality(uids)
           start == IF exists > limit THEN exists - limit + 1 ELSE 1
           list == Ascending(uids)
           asked == {list[i] : i \in start..exists}
<1>0. GreatestUid \in Nat \ {0} /\ uids \in SUBSET (0..GreatestUid)
  BY ReadsAssumption
<1>1. /\ exists \in Nat /\ IsFiniteSet(uids) /\ list \in [1..exists -> uids]
      /\ \A i, j \in 1..exists : i < j => list[i] < list[j]
      /\ \A i, j \in 1..exists : list[i] = list[j] => i = j
      /\ \A u \in uids : \E i \in 1..exists : list[i] = u
  BY <1>0, ListedInOrder, Zenon
<1>2. exists # 0
  BY <1>1, FS_EmptySet
<1> HIDE DEF exists, list
<1>3. start \in 1..exists /\ exists - start + 1 <= limit /\ start \in Nat /\ start <= exists
  BY <1>1, <1>2
<1>4. asked = Chunk(list, start, exists)
  BY Zenon DEF Chunk
<1> HIDE DEF start
<1>5. \A i, j \in start..exists : list[i] = list[j] => i = j
  BY <1>1, <1>3
<1>6. Cardinality(asked) = exists - start + 1
  <2>1. start \in Nat /\ exists \in Nat /\ start <= exists
    BY <1>1, <1>3
  <2>2. Cardinality(Chunk(list, start, exists)) = exists - start + 1
    BY <1>5, <2>1, PositionsCounted
  <2> QED
    BY <1>4, <2>2, Zenon
<1>7. asked \in SUBSET uids
  <2>1. \A i \in start..exists : list[i] \in uids
    BY <1>1, <1>3
  <2> QED
    BY <2>1
<1>8. ASSUME NEW u \in uids \ asked, NEW v \in asked PROVE u < v
  <2>1. PICK i \in 1..exists : list[i] = u
    BY <1>1
  <2>2. PICK j \in start..exists : list[j] = v
    BY <1>8
  <2>3. i \notin start..exists
    BY <1>8, <2>1
  <2>4. i < j /\ j \in 1..exists
    BY <1>1, <1>3, <2>3
  <2> QED
    BY <1>1, <2>1, <2>2, <2>4
<1> HIDE DEF asked
<1>9. Cardinality(asked) <= limit
  BY <1>3, <1>6
<1> QED
  BY <1>7, <1>8, <1>9, Zenon DEF asked, start, exists, list

\* Of what is asked for, what is still there is returned, in either order.
LEMMA WindowReturned ==
  ASSUME ReadInv, WindowRead(read, kept), NEW uids, uids \in {Still, NewestFirst(Still)}
  PROVE  FetchedWhole([limit |-> read.limit, uids |-> uids], kept)
<1>1. PICK step \in {"summaries", "peek"}, limit \in Nat, asked \in SUBSET (1..GreatestUid) :
        /\ read = [step |-> step, limit |-> limit, asked |-> asked]
        /\ limit # None /\ Cardinality(asked) <= limit
        /\ \A u \in kept \ asked, v \in asked : u < v
  BY DEF WindowRead
<1> DEFINE S == asked \cap folder
           n == Cardinality(S)
           list == Ascending(S)
<1>2. read.asked = asked /\ read.limit = limit
  BY <1>1
<1>3. Still = list
  BY <1>2, Zenon DEF Still
<1>0. GreatestUid \in Nat \ {0} /\ S \in SUBSET (0..GreatestUid) /\ S \subseteq 1..GreatestUid
  <2>1. GreatestUid \in Nat \ {0}
    BY ReadsAssumption
  <2>2. S \subseteq 1..GreatestUid
    OBVIOUS
  <2> HIDE DEF S
  <2> QED
    BY <2>1, <2>2
<1>4. n <= limit /\ n \in Nat
  <2>1. IsFiniteSet(1..GreatestUid)
    BY <1>0, FS_Interval
  <2>2. IsFiniteSet(asked)
    BY <2>1, FS_Subset
  <2>3. n <= Cardinality(asked) /\ IsFiniteSet(S)
    BY <2>2, FS_Subset
  <2>4. Cardinality(asked) \in Nat /\ n \in Nat
    BY <2>2, <2>3, FS_CardinalityType
  <2> QED
    BY <1>1, <2>3, <2>4
<1>5. list \in [1..n -> S] /\ Len(list) = n /\ Range(list) = S
  BY <1>0, ListedInOrder, Zenon
<1> HIDE DEF n, list
<1>6. Range(uids) = S /\ Len(uids) = n
  <2>1. CASE uids = Still
    BY <1>3, <1>5, <2>1
  <2>2. CASE uids = NewestFirst(Still)
    <3>1. uids = [i \in 1..n |-> list[n - i + 1]]
      <4>1. DOMAIN list = 1..n
        BY <1>5
      <4>2. uids = [i \in DOMAIN list |-> list[Len(list) - i + 1]]
        BY <1>3, <2>2, Zenon DEF NewestFirst
      <4> QED
        BY <1>5, <4>1, <4>2
    <3>2. \A i \in 1..n : n - i + 1 \in 1..n /\ n - (n - i + 1) + 1 = i
      BY <1>4
    <3>3. uids \in [1..n -> S]
      BY <1>5, <3>1, <3>2
    <3>4. uids \in Seq(S)
      BY <1>4, <3>3, SeqDef
    <3>5. Len(uids) = n
      BY <1>4, <3>3, <3>4, LenProperties
    <3>6. \A u \in S : \E i \in 1..n : uids[i] = u
      <4> SUFFICES ASSUME NEW u \in S PROVE \E i \in 1..n : uids[i] = u
        OBVIOUS
      <4>1. PICK j \in 1..n : list[j] = u
        BY <1>5 DEF Range
      <4>2. uids[n - j + 1] = list[n - (n - j + 1) + 1] /\ n - j + 1 \in 1..n
        BY <3>1, <3>2
      <4>3. uids[n - j + 1] = u
        BY <3>2, <4>1, <4>2
      <4> QED
        BY <4>2, <4>3
    <3> QED
      BY <3>3, <3>5, <3>6 DEF Range
  <2> QED
    BY <2>1, <2>2
<1>7. ASSUME NEW u \in kept \ S, NEW v \in S PROVE u < v
  <2>1. kept \subseteq folder
    BY DEF ReadInv
  <2>2. u \in kept \ asked /\ v \in asked
    BY <2>1
  <2> QED
    BY <1>1, <2>2
<1> DEFINE f == [limit |-> read.limit, uids |-> uids]
<1>8. f.limit = limit /\ Range(f.uids) = S /\ Len(f.uids) = n
  BY <1>2, <1>6
<1>9. Cardinality(S) = n
  BY DEF n
<1> HIDE DEF S, f
<1>10. FetchedWhole(f, kept)
  BY <1>0, <1>1, <1>4, <1>7, <1>8, <1>9 DEF FetchedWhole
<1> QED
  BY <1>10 DEF f

\* A read that has its last answer returns all that stayed.
LEMMA BatchesReturned ==
  ASSUME BatchRead(read, kept), read.sets = <<>>
  PROVE  FetchedWhole([limit |-> None, uids |-> read.out], kept)
<1>1. PICK sets, out :
        /\ read = Batches(sets, out)
        /\ Answered(out) /\ BatchesSound(sets, kept \ Range(out))
  BY Zenon DEF BatchRead
<1>2. sets = <<>> /\ read.out = out
  BY <1>1 DEF Batches
<1>3. 1..Len(sets) = {}
  BY <1>2
<1>4. kept \subseteq Range(out)
  BY <1>1, <1>3 DEF BatchesSound
<1>5. out \in Seq(1..GreatestUid) /\ \A i, j \in DOMAIN out : out[i] = out[j] => i = j
  BY <1>1 DEF Answered
<1>6. Range(out) \subseteq 1..GreatestUid
  <2>1. \A i \in DOMAIN out : out[i] \in 1..GreatestUid
    BY <1>5, LenProperties
  <2> QED
    BY <2>1 DEF Range
<1>7. Cardinality(Range(out)) = Len(out)
  BY <1>5, CountedByList
<1> DEFINE f == [limit |-> None, uids |-> out]
<1>8. f.limit = None /\ f.uids = out
  OBVIOUS
<1> HIDE DEF f
<1>9. FetchedWhole(f, kept)
  BY <1>4, <1>6, <1>7, <1>8, Zenon DEF FetchedWhole
<1> QED
  BY <1>2, <1>9 DEF f

LEMMA NothingReturned ==
  ASSUME NEW limit, NEW stayed, limit = None => stayed = {}, limit # None => limit \in Nat
  PROVE  FetchedWhole([limit |-> limit, uids |-> <<>>], stayed)
<1> DEFINE f == [limit |-> limit, uids |-> <<>>]
<1>1. f.limit = limit /\ f.uids = <<>>
  OBVIOUS
<1>2. Range(<<>>) = {} /\ Len(<<>>) = 0
  BY DEF Range
<1>3. Cardinality({}) = 0
  BY FS_EmptySet
<1> HIDE DEF f
<1>4. Range(f.uids) = {} /\ Cardinality({}) = Len(f.uids) /\ Len(f.uids) = 0
  BY <1>1, <1>2, <1>3
<1>5. FetchedWhole(f, stayed)
  <2>1. CASE limit = None
    BY <1>1, <1>4, <2>1 DEF FetchedWhole
  <2>2. CASE limit # None
    <3>0. Cardinality(Range(f.uids)) = 0
      BY <1>3, <1>4, Zenon
    <3>1. f.limit # None /\ f.limit \in Nat /\ Cardinality(Range(f.uids)) <= f.limit
      BY <1>1, <2>2, <3>0
    <3>2. Range(f.uids) \subseteq 1..GreatestUid /\ \A u \in stayed \ Range(f.uids), v \in Range(f.uids) : u < v
      BY <1>4
    <3> QED
      BY <1>4, <3>1, <3>2, Zenon DEF FetchedWhole
  <2> QED
    BY <2>1, <2>2
<1> QED
  BY <1>5 DEF f

LEMMA ReadBegins == ReadsInit => ReadInv
<1> SUFFICES ASSUME ReadsInit PROVE ReadInv
  OBVIOUS
<1>1. /\ folder = {} /\ next = 1 /\ announces \in BOOLEAN
      /\ read = None /\ kept = {} /\ fetched = None
  BY DEF ReadsInit
<1>2. 1 \in 1..(GreatestUid + 1)
  BY ReadsAssumption
<1> QED
  BY <1>1, <1>2, Zenon DEF ReadInv

\* What other sessions do to the folder.
LEMMA OthersKeepRead ==
  ASSUME ReadInv, Delivered \/ ExpungedElsewhere
  PROVE  ReadInv'
<1>0. GreatestUid \in Nat \ {0}
  BY ReadsAssumption
<1>1. /\ folder \subseteq 1..GreatestUid /\ next \in 1..(GreatestUid + 1) /\ \A u \in folder : u < next
      /\ announces \in BOOLEAN /\ kept \subseteq folder
  BY DEF ReadInv
<1>2. /\ read # None => read = Listing \/ BatchRead(read, kept) \/ WindowRead(read, kept)
      /\ fetched # None => FetchedWhole(fetched, kept)
  BY Zenon DEF ReadInv
<1>3. kept' \subseteq kept /\ read' = read /\ fetched' = fetched /\ announces' = announces
  BY DEF Delivered, ExpungedElsewhere
<1>4. /\ read' # None => read' = Listing \/ BatchRead(read', kept') \/ WindowRead(read', kept')
      /\ fetched' # None => FetchedWhole(fetched', kept')
  BY <1>2, <1>3, FewerStay, Zenon
<1>5. /\ folder' \subseteq 1..GreatestUid /\ next' \in 1..(GreatestUid + 1) /\ \A u \in folder' : u < next'
      /\ kept' \subseteq folder'
  <2>1. CASE Delivered
    <3>1. next <= GreatestUid /\ folder' = folder \cup {next} /\ next' = next + 1 /\ kept' = kept
      BY <2>1 DEF Delivered
    <3>2. \A u \in folder' : u \in 1..GreatestUid /\ u < next'
      BY <1>0, <1>1, <3>1
    <3>3. next' \in 1..(GreatestUid + 1)
      BY <1>0, <1>1, <3>1
    <3> QED
      BY <1>1, <3>1, <3>2, <3>3
  <2>2. CASE ExpungedElsewhere
    BY <1>1, <2>2 DEF ExpungedElsewhere
  <2> QED
    BY <2>1, <2>2
<1> QED
  BY <1>1, <1>3, <1>4, <1>5, Zenon DEF ReadInv

\* A step that leaves the folder and what stayed as they are.
LEMMA SameFolder ==
  ASSUME ReadInv, UNCHANGED <<folder, next, announces>>, kept' \subseteq folder,
         read' # None => read' = Listing \/ BatchRead(read', kept') \/ WindowRead(read', kept'),
         fetched' # None => FetchedWhole(fetched', kept')
  PROVE  ReadInv'
<1>1. folder' = folder /\ next' = next /\ announces' = announces
  OBVIOUS
<1> QED
  BY <1>1, Zenon DEF ReadInv

\* Batches are asked for from the first on.
LEMMA BatchesBegin ==
  ASSUME NEW sets, NEW stayed, NEW all, stayed \subseteq all, BatchesSound(sets, all)
  PROVE  BatchRead(Batches(sets, <<>>), stayed)
<1>1. Range(<<>>) = {} /\ Answered(<<>>)
  BY DEF Range, Answered
<1>2. BatchesSound(sets, stayed \ Range(<<>>))
  BY Zenon DEF BatchesSound
<1> QED
  BY <1>1, <1>2, Zenon DEF BatchRead

LEMMA FolderKeepsRead ==
  ASSUME ReadInv, fetch_raw_messages \/ list_selected_uids
  PROVE  ReadInv'
<1>0. GreatestUid \in Nat \ {0}
  BY ReadsAssumption
<1>1. /\ folder \subseteq 1..GreatestUid /\ next \in 1..(GreatestUid + 1) /\ \A u \in folder : u < next
      /\ kept \subseteq folder
  BY DEF ReadInv
<1>2. CASE fetch_raw_messages /\ folder = {}
  <2>1. /\ read = None /\ kept' = {} /\ fetched' = [limit |-> None, uids |-> <<>>] /\ read' = read
        /\ UNCHANGED <<folder, next, announces>>
    BY <1>2 DEF fetch_raw_messages
  <2>2. FetchedWhole(fetched', kept')
    BY <2>1, NothingReturned
  <2> QED
    BY <2>1, <2>2, SameFolder
<1>3. CASE fetch_raw_messages /\ folder # {} /\ last_uid # None
  <2>1. /\ kept' = folder /\ fetched = None /\ fetched' = fetched
        /\ read' = Batches(uid_range_batches(1, last_uid, DEFAULT_BATCH_SIZE), <<>>)
        /\ UNCHANGED <<folder, next, announces>>
    BY <1>3 DEF fetch_raw_messages
  <2>2. last_uid = next - 1 /\ next <= GreatestUid
    BY <1>3 DEF last_uid
  <2>3. last_uid \in 1..GreatestUid /\ folder \subseteq 1..last_uid
    <3>1. next \in Nat /\ next <= GreatestUid /\ \A u \in folder : u \in 1..(next - 1)
      BY <1>0, <1>1, <2>2
    <3>2. next - 1 \in 1..GreatestUid
      BY <1>0, <1>3, <3>1
    <3> QED
      BY <2>2, <3>1, <3>2
  <2>4. BatchesSound(uid_range_batches(1, last_uid, DEFAULT_BATCH_SIZE), 1..last_uid)
    BY <2>3, RangeBatchesSound
  <2>5. BatchRead(read', kept')
    BY <2>1, <2>3, <2>4, BatchesBegin, Zenon
  <2> QED
    BY <2>1, <2>5, SameFolder, Zenon
<1>4. CASE fetch_raw_messages /\ folder # {} /\ last_uid = None
  <2>1. /\ kept' = folder /\ fetched = None /\ fetched' = fetched /\ read' = Listing
        /\ UNCHANGED <<folder, next, announces>>
    BY <1>4 DEF fetch_raw_messages
  <2> QED
    BY <2>1, SameFolder, Zenon
<1>5. CASE list_selected_uids
  <2>1. /\ kept' = kept /\ fetched' = fetched
        /\ read' = Batches(uid_sequence_set_batches(Ascending(folder), DEFAULT_BATCH_SIZE), <<>>)
        /\ UNCHANGED <<folder, next, announces>>
    BY <1>5 DEF list_selected_uids
  <2>2. BatchesSound(uid_sequence_set_batches(Ascending(folder), DEFAULT_BATCH_SIZE), folder)
    BY <1>1, SequenceBatchesSound
  <2>3. BatchRead(read', kept')
    BY <1>1, <2>1, <2>2, BatchesBegin, Zenon
  <2>4. fetched' # None => FetchedWhole(fetched', kept')
    BY <2>1, Zenon DEF ReadInv
  <2> QED
    BY <1>1, <2>1, <2>3, <2>4, SameFolder, Zenon
<1> QED
  BY <1>2, <1>3, <1>4, <1>5 DEF fetch_raw_messages

\* Which state of a read goes with which step.
LEMMA StepsOfReads ==
  ASSUME ReadInv
  PROVE  /\ Reading("batches") => BatchRead(read, kept)
         /\ Reading("summaries") \/ Reading("peek") => WindowRead(read, kept)
<1>1. read # None => read = Listing \/ BatchRead(read, kept) \/ WindowRead(read, kept)
  BY Zenon DEF ReadInv
<1>2. read = Listing => read.step = "list"
  BY DEF Listing
<1>3. BatchRead(read, kept) => read.step = "batches"
  BY DEF BatchRead, Batches
<1>4. WindowRead(read, kept) => read.step \in {"summaries", "peek"}
  BY DEF WindowRead
<1> QED
  BY <1>1, <1>2, <1>3, <1>4 DEF Reading

LEMMA AnswersKeepRead ==
  ASSUME ReadInv, fetch_raw_messages_selected_uid_set \/ Return \/ FetchWindow \/ Fails
  PROVE  ReadInv'
<1>1. kept \subseteq folder /\ (fetched # None => FetchedWhole(fetched, kept))
  BY Zenon DEF ReadInv
<1>2. CASE fetch_raw_messages_selected_uid_set
  <2>1. /\ Reading("batches") /\ read.sets # <<>>
        /\ read' = Batches(Tail(read.sets), read.out \o Ascending(folder \cap Denotes(Head(read.sets))))
        /\ UNCHANGED <<folder, next, announces>> /\ kept' = kept /\ fetched' = fetched
    BY <1>2 DEF fetch_raw_messages_selected_uid_set
  <2>2. BatchRead(read', kept')
    BY <2>1, StepsOfReads, BatchAnswered, Zenon
  <2> QED
    BY <1>1, <2>1, <2>2, SameFolder, Zenon
<1>3. CASE Return
  <2>1. /\ Reading("batches") /\ read.sets = <<>>
        /\ read' = None /\ fetched' = [limit |-> None, uids |-> read.out]
        /\ UNCHANGED <<folder, next, announces>> /\ kept' = kept
    BY <1>3 DEF Return
  <2>2. FetchedWhole(fetched', kept')
    BY <2>1, StepsOfReads, BatchesReturned, Zenon
  <2> QED
    BY <1>1, <2>1, <2>2, SameFolder, Zenon
<1>4. CASE FetchWindow
  <2>1. /\ Reading("summaries") \/ Reading("peek")
        /\ read' = None /\ UNCHANGED <<folder, next, announces>> /\ kept' = kept
    BY <1>4 DEF FetchWindow
  <2>2. PICK uids \in {Still, NewestFirst(Still)} : fetched' = [limit |-> read.limit, uids |-> uids]
    BY <1>4, Zenon DEF FetchWindow
  <2>3. FetchedWhole(fetched', kept')
    BY <2>1, <2>2, StepsOfReads, WindowReturned, Zenon
  <2> QED
    BY <1>1, <2>1, <2>3, SameFolder, Zenon
<1>5. CASE Fails
  <2>1. read' = None /\ UNCHANGED <<folder, next, announces>> /\ kept' = kept /\ fetched' = fetched
    BY <1>5 DEF Fails
  <2> QED
    BY <1>1, <2>1, SameFolder, Zenon
<1> QED
  BY <1>2, <1>3, <1>4, <1>5

LEMMA OpenKeepsRead ==
  ASSUME ReadInv, NEW uids \in SUBSET folder, NEW limit \in Nat, limit # None,
         NEW step \in {"summaries", "peek"}, OpenWindow(uids, limit, step)
  PROVE  ReadInv'
<1> DEFINE exists == Cardinality(uids)
           start == IF exists > limit THEN exists - limit + 1 ELSE 1
           asked == {Ascending(uids)[i] : i \in start..exists}
<1>1. /\ read = None /\ fetched = None /\ kept' = uids
      /\ IF uids = {} \/ limit = 0
           THEN fetched' = [limit |-> limit, uids |-> <<>>] /\ read' = read
           ELSE read' = [step |-> step, limit |-> limit, asked |-> asked] /\ fetched' = fetched
      /\ UNCHANGED <<folder, next, announces>>
  BY Zenon DEF OpenWindow
<1>2. folder \subseteq 1..GreatestUid
  BY DEF ReadInv
<1>3. CASE uids = {} \/ limit = 0
  <2>1. fetched' = [limit |-> limit, uids |-> <<>>] /\ read' = None
    BY <1>1, <1>3, Zenon
  <2>2. FetchedWhole(fetched', kept')
    BY <2>1, NothingReturned, Zenon
  <2> QED
    BY <1>1, <2>1, <2>2, SameFolder, Zenon
<1>4. CASE ~(uids = {} \/ limit = 0)
  <2>1. read' = [step |-> step, limit |-> limit, asked |-> asked] /\ fetched' = None
    BY <1>1, <1>4, Zenon
  <2>2. uids \in SUBSET (1..GreatestUid) /\ uids # {} /\ limit \in Nat \ {0}
    BY <1>2, <1>4
  <2>3. asked \in SUBSET uids /\ Cardinality(asked) <= limit /\ \A u \in uids \ asked, v \in asked : u < v
    BY <2>2, NewestAsked, Zenon
  <2> HIDE DEF asked
  <2>4. asked \in SUBSET (1..GreatestUid)
    BY <2>2, <2>3
  <2>5. WindowRead(read', kept')
    BY <1>1, <2>1, <2>3, <2>4, Zenon DEF WindowRead
  <2> QED
    BY <1>1, <2>1, <2>5, SameFolder, Zenon
<1> QED
  BY <1>3, <1>4

LEMMA WindowsKeepRead ==
  ASSUME ReadInv, fetch_inbox \/ fetch_folder_summaries_read_only \/ peek_folder_headers_read_only \/ search
  PROVE  ReadInv'
<1>1. \A limit \in Limits : /\ limit \in Nat /\ limit # None
                            /\ least(limit, PEEK_LIMIT) \in Nat /\ least(limit, PEEK_LIMIT) # None
  BY ReadsAssumption DEF least
<1>2. CASE fetch_inbox \/ fetch_folder_summaries_read_only
  <2>1. PICK limit \in Limits : OpenWindow(folder, limit, "summaries")
    BY <1>2 DEF fetch_inbox, fetch_folder_summaries_read_only
  <2> QED
    BY <1>1, <2>1, OpenKeepsRead
<1>3. CASE peek_folder_headers_read_only
  <2>1. PICK limit \in Limits : OpenWindow(folder, least(limit, PEEK_LIMIT), "peek")
    BY <1>3 DEF peek_folder_headers_read_only
  <2> QED
    BY <1>1, <2>1, OpenKeepsRead
<1>4. CASE search
  <2>1. PICK limit \in Limits, hits \in SUBSET folder : OpenWindow(hits, limit, "summaries")
    BY <1>4 DEF search
  <2> QED
    BY <1>1, <2>1, OpenKeepsRead
<1> QED
  BY <1>2, <1>3, <1>4

LEMMA ReadStays == ReadInv /\ [ReadsNext]_reads_vars => ReadInv'
<1> SUFFICES ASSUME ReadInv, [ReadsNext]_reads_vars PROVE ReadInv'
  OBVIOUS
<1>1. CASE UNCHANGED reads_vars
  BY <1>1, Zenon DEF reads_vars, ReadInv
<1>2. CASE ReadsNext
  BY <1>2, OthersKeepRead, FolderKeepsRead, AnswersKeepRead, WindowsKeepRead, Zenon DEF ReadsNext
<1> QED
  BY <1>1, <1>2

LEMMA ReadInvWhole == ReadInv => ReadsTypeOK /\ FolderReadWhole
<1> SUFFICES ASSUME ReadInv PROVE ReadsTypeOK /\ FolderReadWhole
  OBVIOUS
<1>1. /\ folder \subseteq 1..GreatestUid /\ next \in 1..(GreatestUid + 1)
      /\ announces \in BOOLEAN /\ kept \subseteq folder
      /\ fetched # None => FetchedWhole(fetched, kept)
  BY Zenon DEF ReadInv
<1>2. read # None => read.step \in {"list", "batches", "summaries", "peek"}
  <2>1. read # None => read = Listing \/ BatchRead(read, kept) \/ WindowRead(read, kept)
    BY Zenon DEF ReadInv
  <2>2. read = Listing => read.step = "list"
    BY DEF Listing
  <2>3. BatchRead(read, kept) => read.step = "batches"
    BY DEF BatchRead, Batches
  <2>4. WindowRead(read, kept) => read.step \in {"summaries", "peek"}
    BY DEF WindowRead
  <2> QED
    BY <2>1, <2>2, <2>3, <2>4
<1>3. fetched # None => Range(fetched.uids) \subseteq 1..GreatestUid
  BY <1>1, Zenon DEF FetchedWhole
<1>4. ReadsTypeOK
  BY <1>1, <1>2, <1>3, Zenon DEF ReadsTypeOK
<1>5. ASSUME Reading("batches"), NEW i \in DOMAIN read.sets
      PROVE  Cardinality(Denotes(read.sets[i])) \in 1..DEFAULT_BATCH_SIZE
  <2>1. BatchRead(read, kept)
    BY <1>5, StepsOfReads
  <2>2. PICK sets, out : read = Batches(sets, out) /\ BatchesSound(sets, kept \ Range(out))
    BY <2>1, Zenon DEF BatchRead
  <2>3. read.sets = sets
    BY <2>2 DEF Batches
  <2>4. DOMAIN sets = 1..Len(sets)
    BY <2>2, LenProperties DEF BatchesSound
  <2> QED
    BY <1>5, <2>2, <2>3, <2>4, Zenon DEF BatchesSound
<1>6. FolderReadWhole
  BY <1>1, <1>5, Zenon DEF FolderReadWhole, FetchedWhole
<1> QED
  BY <1>4, <1>6

\* Whatever others deliver and expunge meanwhile, a read of a folder returns
\* every message that stayed, each once, a read of the newest returns no older
\* one in place of one that stayed, and no batch is empty or too large: for
\* any batch size, limits and greatest UID (imap.rs fetch_raw_messages,
\* search, migrate.rs uid_range_batches, uid_sequence_set_batches).
THEOREM FoldersAreReadWhole == ReadsSpec => [](ReadsTypeOK /\ FolderReadWhole)
<1>1. ReadsSpec => []ReadInv
  BY ReadBegins, ReadStays, PTL DEF ReadsSpec
<1> QED
  BY <1>1, ReadInvWhole, PTL

\* What is copied out of a mailbox or a data directory and back is complete:
\* the folders read, the archive restored, the backup of the service.
THEOREM BackupsRestored == ReadsSpec /\ RestoreSpec /\ SnapshotsSpec => []BackupsRestore
<1>1. FolderReadWhole /\ NoneLeftOut /\ BackupsHold => BackupsRestore
  BY DEF BackupsRestore
<1> QED
  BY <1>1, FoldersAreReadWhole, RestoresLeaveNoneOut, BackupsAreWhole, PTL
=============================================================================
