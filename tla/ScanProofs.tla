----------------------------- MODULE ScanProofs -----------------------------
(***************************************************************************)
(* Proofs about the scan of a library, for any files, folders, contents    *)
(* and changes of the owner, and any number of scans.                      *)
(***************************************************************************)
EXTENDS LibraryScan, SequenceTheorems, TLAPS

-----------------------------------------------------------------------------
(* What a scan has in hand.                                                *)

\* The points at which the session has loaded the rows.
Scanning == scan.at \in {"next", "hash", "extract"}

Unique(s) == \A i, j \in DOMAIN s : s[i].path = s[j].path => i = j

\* The paths of the entries a scan has yet to do.
Pending == {entry[2] : entry \in scan.todo}

\* Between scans the session has no rows; a scan drops none of those it
\* loaded, and has yet to do only what it has seen, all of it at first.
SessionRows ==
  /\ ~Scanning => work = <<>> /\ flushed = <<>>
  /\ Scanning => Len(files) <= Len(work) /\ scan.walk = {}
  /\ Pending \subseteq scan.seen
  /\ scan.at = "walk" => scan.seen \subseteq Pending

\* The entry a scan looks at is one of those it has yet to do, and its path has
\* no row once its metadata are being read.
InHand ==
  /\ scan.at \in {"hash", "extract"} => Current \in scan.todo /\ scan.look \in Looks
  /\ scan.at = "extract" => scan.hash \in Hashes /\ RowsAt(scan.path) = {}

SafeInv ==
  /\ ScanTypeOK
  /\ SessionRows
  /\ InHand
  /\ Unique(files) /\ Unique(work)

-----------------------------------------------------------------------------
(* Lemmas on the operators of the scan.                                    *)

\* What a list of rows is after one of them is replaced.
LEMMA ReplaceRow ==
  ASSUME NEW s \in Seq(Rows), NEW i \in DOMAIN s, NEW r \in Rows, NEW t, t = [s EXCEPT ![i] = r]
  PROVE  /\ t \in Seq(Rows) /\ Len(t) = Len(s) /\ DOMAIN t = DOMAIN s
         /\ t[i] = r
         /\ \A k \in DOMAIN s : k # i => t[k] = s[k]
<1>1. DOMAIN s = 1 .. Len(s) /\ \A k \in DOMAIN s : s[k] \in Rows
  BY LenProperties, ElementOfSeq
<1>2. t \in Seq(Rows) /\ Len(t) = Len(s)
  BY <1>1, ExceptSeq
<1> QED
  BY <1>1, <1>2

\* The scan goes on to the next entry.
LEMMA DoneRecord ==
  ASSUME ScanTypeOK, NEW entry, NEW failed \in SUBSET Paths, Done(entry, failed)
  PROVE  /\ scan' \in ScanRecord
         /\ scan'.at = "next" /\ scan'.walk = scan.walk /\ scan'.seen = scan.seen
         /\ scan'.todo = scan.todo \ {entry} /\ scan'.unread = scan.unread \cup failed
         /\ Pending' \subseteq Pending /\ Pending \subseteq Pending' \cup {entry[2]}
<1>1. /\ scan' \in ScanRecord
      /\ scan'.at = "next" /\ scan'.walk = scan.walk /\ scan'.seen = scan.seen
      /\ scan'.todo = scan.todo \ {entry} /\ scan'.unread = scan.unread \cup failed
  BY DEF Done, ScanTypeOK, ScanRecord
<1> QED
  BY <1>1 DEF Pending

\* The path of the entry in hand is one the scan has seen.
LEMMA InHandSeen ==
  ASSUME SafeInv, scan.at \in {"hash", "extract"}
  PROVE  /\ scan.path \in Paths \cap scan.seen /\ scan.path \in Pending
         /\ Current[2] = scan.path /\ scan.look \in Looks
<1>1. Current \in scan.todo /\ scan.todo \in SUBSET (Folders \X Paths) /\ scan.look \in Looks
  BY DEF SafeInv, InHand, ScanTypeOK, ScanRecord
<1>2. Current[2] = scan.path
  BY DEF Current
<1>3. scan.path \in Paths
  BY <1>1 DEF Current
<1> QED
  BY <1>1, <1>2, <1>3 DEF SafeInv, SessionRows, Pending

\* Between scans nothing is in hand.
LEMMA IdleRecord == Idle \in ScanRecord /\ Idle.at = "idle"
  BY DEF Idle, ScanRecord

\* A file's row is brought up to date where it is.
LEMMA UpdateEffect ==
  ASSUME SafeInv, NEW i \in DOMAIN work, Update(i)
  PROVE  /\ scan.path \in OnDisk \cap scan.seen /\ work[i].path = scan.path
         /\ work' \in Seq(Rows) /\ Len(work') = Len(work) /\ DOMAIN work' = DOMAIN work
         /\ work'[i].path = scan.path /\ work'[i].look = scan.look
         /\ work'[i].hash = HashOf[disk[scan.path]] /\ ~work'[i].missing
         /\ \A k \in DOMAIN work : k # i => work'[k] = work[k]
<1> USE LibraryAssumption DEF SafeInv, ScanTypeOK
<1> DEFINE r == [work[i] EXCEPT !.look = scan.look, !.hash = HashOf[disk[scan.path]], !.missing = FALSE]
<1>1. work[i] \in Rows
  BY LenProperties, ElementOfSeq
<1>2. scan.path \in OnDisk \cap scan.seen /\ work[i].path = scan.path /\ scan.look \in Looks
  BY InHandSeen DEF Update, RowsAt
<1>3. HashOf[disk[scan.path]] \in Hashes
  BY <1>2 DEF OnDisk
<1>4. work' = [work EXCEPT ![i] = r]
  BY DEF Update
<1>5. /\ r \in Rows /\ r.path = work[i].path /\ r.look = scan.look
      /\ r.hash = HashOf[disk[scan.path]] /\ ~r.missing
  BY <1>1, <1>2, <1>3 DEF Rows
<1> HIDE DEF r
<1> QED
  BY <1>2, <1>4, <1>5, ReplaceRow

\* A row moves to where its file is now.
LEMMA MoveEffect ==
  ASSUME SafeInv, NEW i \in DOMAIN work, Move(i)
  PROVE  /\ scan.path \in OnDisk \cap scan.seen /\ RowsAt(scan.path) = {}
         /\ work' \in Seq(Rows) /\ Len(work') = Len(work) /\ DOMAIN work' = DOMAIN work
         /\ work'[i].path = scan.path /\ work'[i].look = scan.look
         /\ work'[i].hash = work[i].hash /\ ~work'[i].missing
         /\ \A k \in DOMAIN work : k # i => work'[k] = work[k]
<1> USE LibraryAssumption DEF SafeInv, ScanTypeOK
<1> DEFINE r == [work[i] EXCEPT !.path = scan.path, !.look = scan.look, !.missing = FALSE]
<1>1. work[i] \in Rows
  BY LenProperties, ElementOfSeq
<1>2. scan.path \in OnDisk \cap scan.seen /\ RowsAt(scan.path) = {} /\ scan.look \in Looks
  BY InHandSeen DEF Move
<1>3. work' = [work EXCEPT ![i] = r]
  BY DEF Move
<1>4. /\ r \in Rows /\ r.path = scan.path /\ r.look = scan.look
      /\ r.hash = work[i].hash /\ ~r.missing
  BY <1>1, <1>2 DEF Rows, OnDisk
<1> HIDE DEF r
<1> QED
  BY <1>2, <1>3, <1>4, ReplaceRow

\* A new file gets a row after the others.
LEMMA AddEffect ==
  ASSUME SafeInv, NEW book \in 1 .. Len(work) + 1, Add(book)
  PROVE  /\ Readable(scan.path) /\ scan.path \in scan.seen /\ RowsAt(scan.path) = {}
         /\ work' \in Seq(Rows) /\ Len(work') = Len(work) + 1
         /\ DOMAIN work' = DOMAIN work \cup {Len(work) + 1} /\ Len(work) + 1 \notin DOMAIN work
         /\ work'[Len(work) + 1].path = scan.path /\ work'[Len(work) + 1].look = scan.look
         /\ work'[Len(work) + 1].hash = scan.hash /\ ~work'[Len(work) + 1].missing
         /\ \A k \in DOMAIN work : work'[k] = work[k]
<1> USE LibraryAssumption DEF SafeInv, ScanTypeOK
<1> DEFINE r == [path |-> scan.path, look |-> scan.look, hash |-> scan.hash,
                 missing |-> FALSE, book |-> book, title |-> TitleOf[HashOf[disk[scan.path]]]]
<1>1. /\ Readable(scan.path) /\ scan.path \in scan.seen /\ RowsAt(scan.path) = {}
      /\ scan.look \in Looks /\ scan.hash \in Hashes
  BY InHandSeen DEF Add, InHand
<1>2. scan.path \in Paths /\ TitleOf[HashOf[disk[scan.path]]] \in Titles
  BY <1>1 DEF Readable, OnDisk
<1>3. Len(work) \in Nat /\ DOMAIN work = 1 .. Len(work)
  BY LenProperties
<1>4. r \in Rows
  BY <1>1, <1>2, <1>3 DEF Rows
<1>5. work' = Append(work, r)
  BY DEF Add
<1>6. /\ r.path = scan.path /\ r.look = scan.look /\ r.hash = scan.hash /\ ~r.missing
  OBVIOUS
<1> HIDE DEF r
<1>7. /\ work' \in Seq(Rows) /\ Len(work') = Len(work) + 1 /\ work'[Len(work) + 1] = r
      /\ \A k \in 1 .. Len(work) : work'[k] = work[k]
  BY <1>4, <1>5, AppendProperties
<1>8. DOMAIN work' = 1 .. Len(work) + 1
  BY <1>7, LenProperties
<1> QED
  BY <1>1, <1>3, <1>6, <1>7, <1>8

\* The rows as they are committed.
LEMMA FinishEffect ==
  ASSUME SafeInv, Finish
  PROVE  /\ files' \in Seq(Rows) /\ Len(files') = Len(work) /\ DOMAIN files' = DOMAIN work
         /\ \A k \in DOMAIN work :
              /\ files'[k].path = work[k].path /\ files'[k].hash = work[k].hash
              /\ files'[k].look = work[k].look
              /\ files'[k].missing = (work[k].path \notin scan.seen \/ work[k].missing)
<1> USE DEF SafeInv, ScanTypeOK
<1> DEFINE r(k) == IF work[k].path \in scan.seen THEN work[k] ELSE [work[k] EXCEPT !.missing = TRUE]
<1>1. Len(work) \in Nat /\ DOMAIN work = 1 .. Len(work)
  BY LenProperties
<1>2. ASSUME NEW k \in DOMAIN work
      PROVE  /\ r(k) \in Rows /\ r(k).path = work[k].path /\ r(k).hash = work[k].hash
             /\ r(k).look = work[k].look
             /\ r(k).missing = (work[k].path \notin scan.seen \/ work[k].missing)
  <2>1. work[k] \in Rows
    BY <1>1, ElementOfSeq
  <2> QED
    BY <2>1 DEF Rows
<1>3. files' = [k \in 1 .. Len(work) |-> r(k)]
  BY <1>1 DEF Finish
<1> HIDE DEF r, SafeInv, ScanTypeOK
<1>4. files' \in Seq(Rows)
  BY <1>1, <1>2, <1>3, SeqDef
<1>5. DOMAIN files' = DOMAIN work /\ \A k \in DOMAIN work : files'[k] = r(k)
  BY <1>1, <1>3
<1>6. Len(files') = Len(work)
  BY <1>1, <1>4, <1>5, LenProperties
<1> QED
  BY <1>2, <1>4, <1>5, <1>6

\* The rows' paths stay unique where a row stays where it is, or goes where
\* there is none.
LEMMA UniqueKept ==
  ASSUME Unique(work), NEW i, NEW p, work'[i].path = p,
         DOMAIN work' \subseteq DOMAIN work \cup {i},
         \A k \in DOMAIN work : k # i => work'[k] = work[k],
         (i \in DOMAIN work /\ work[i].path = p) \/ RowsAt(p) = {}
  PROVE  Unique(work')
  BY DEF Unique, RowsAt

-----------------------------------------------------------------------------
(* Types, and one row for a path.                                          *)

\* Before the first scan there are no rows.
LEMMA SafeInit == ScanInit => SafeInv
<1> SUFFICES ASSUME ScanInit PROVE SafeInv
  OBVIOUS
<1>1. ScanTypeOK
  BY LibraryAssumption, IdleRecord DEF ScanInit, ScanTypeOK
<1>2. Pending = {}
  BY DEF ScanInit, Idle, Pending
<1> QED
  BY <1>1, <1>2, IdleRecord DEF ScanInit, SafeInv, SessionRows, Scanning, InHand, Unique

\* A look at the disk that fails is counted.
LEMMA FailsCounted ==
  ASSUME ScanTypeOK, NEW must, Fails(must)
  PROVE  mishaps' \in 0 .. MaxMishaps
<1>1. MaxMishaps \in Nat /\ mishaps \in 0 .. MaxMishaps
  BY LibraryAssumption DEF ScanTypeOK
<1> QED
  BY <1>1 DEF Fails

\* The owner changes the disk, not the rows.
LEMMA SafeOwner ==
  ASSUME SafeInv,
         \/ \E p \in Paths : \E v \in Versions \cup {Nothing} : Put(p, v)
         \/ \E p, q \in Paths : Rename(p, q)
         \/ UNCHANGED scanVars
  PROVE  SafeInv'
<1> USE DEF SafeInv, ScanTypeOK
<1>1. UNCHANGED <<files, work, flushed, scan>>
  BY DEF Put, Rename, Change, scanVars
<1>2. /\ disk' \in [Paths -> Versions \cup {Nothing}] /\ mishaps' \in 0 .. MaxMishaps
      /\ undisturbed' \in BOOLEAN
  <2>1. Change => mishaps' \in 0 .. MaxMishaps /\ undisturbed' \in BOOLEAN
    <3>1. MaxMishaps \in Nat /\ mishaps \in 0 .. MaxMishaps
      BY LibraryAssumption
    <3>2. Change => mishaps' \in 0 .. MaxMishaps
      BY <3>1 DEF Change
    <3>3. Change => undisturbed' \in BOOLEAN
      BY DEF Change
    <3> QED
      BY <3>2, <3>3
  <2>2. ASSUME NEW p \in Paths, NEW v \in Versions \cup {Nothing}, Put(p, v)
        PROVE  disk' \in [Paths -> Versions \cup {Nothing}] /\ Change
    BY <2>2 DEF Put
  <2>3. ASSUME NEW p \in Paths, NEW q \in Paths, Rename(p, q)
        PROVE  disk' \in [Paths -> Versions \cup {Nothing}] /\ Change
    BY <2>3 DEF Rename
  <2>4. CASE UNCHANGED scanVars
    BY <2>4 DEF scanVars
  <2> QED
    BY <2>1, <2>2, <2>3, <2>4
<1> QED
  BY <1>1, <1>2 DEF SessionRows, Scanning, InHand, Current, Pending, RowsAt, Unique

\* The walk gathers the entries to do.
LEMMA SafeWalk ==
  ASSUME SafeInv, Begin \/ (\E f \in Folders : Walk(f) \/ PassOver(f)) \/ Load
  PROVE  SafeInv'
<1> USE LibraryAssumption DEF SafeInv, ScanTypeOK
<1>0. /\ Len(work) \in Nat /\ Len(files) \in Nat /\ scan \in ScanRecord
  BY LenProperties
<1>1. CASE Begin
  <2>1. /\ scan' \in ScanRecord /\ scan'.at = "walk" /\ scan'.todo = {} /\ scan'.seen = {}
        /\ UNCHANGED <<disk, mishaps, files, work, flushed>> /\ undisturbed' \in BOOLEAN
    BY <1>1 DEF Begin, Idle, ScanRecord
  <2>2. Pending' = {}
    BY <2>1 DEF Pending
  <2> QED
    BY <1>1, <2>1, <2>2 DEF Begin, SessionRows, Scanning, InHand, Unique
<1>2. ASSUME NEW f \in Folders, Walk(f) PROVE SafeInv'
  <2>1. Entries(f) \in SUBSET (Folders \X Paths)
    BY DEF Entries, OnDisk
  <2>2. {entry[2] : entry \in Entries(f)} \in SUBSET Paths
    BY <2>1
  <2>3. /\ scan' \in ScanRecord /\ scan.at = "walk" /\ scan'.at = "walk"
        /\ scan'.seen = scan.seen \cup {entry[2] : entry \in Entries(f)}
        /\ scan'.todo = scan.todo \cup Entries(f)
        /\ UNCHANGED <<disks, mishaps, files, work, flushed>>
    BY <1>0, <1>2, <2>1, <2>2 DEF Walk, ScanRecord
  <2>4. Pending' = Pending \cup {entry[2] : entry \in Entries(f)}
    BY <2>3 DEF Pending
  <2> QED
    BY <2>3, <2>4 DEF SessionRows, Scanning, InHand, Unique, disks
<1>3. ASSUME NEW f \in Folders, PassOver(f) PROVE SafeInv'
  <2>1. /\ scan' \in ScanRecord /\ scan.at = "walk" /\ scan'.at = "walk"
        /\ scan'.seen = scan.seen /\ scan'.todo = scan.todo
        /\ UNCHANGED <<disks, files, work, flushed>> /\ mishaps' \in 0 .. MaxMishaps
    BY <1>0, <1>3, FailsCounted DEF PassOver, ScanRecord
  <2> QED
    BY <2>1 DEF SessionRows, Scanning, InHand, Pending, Unique, disks
<1>4. CASE Load
  <2>1. /\ scan' \in ScanRecord /\ scan'.at = "next" /\ scan'.walk = {}
        /\ scan'.todo = scan.todo /\ scan'.seen = scan.seen
        /\ UNCHANGED <<disks, mishaps, files>> /\ work' = files /\ flushed' = files
    BY <1>0, <1>4 DEF Load, ScanRecord
  <2> QED
    BY <1>0, <2>1 DEF SessionRows, Scanning, InHand, Pending, Unique, disks
<1> QED
  BY <1>1, <1>2, <1>3, <1>4

\* A step that is done with an entry and leaves the rows alone.
LEMMA SafeDone ==
  ASSUME SafeInv, Scanning, NEW entry, NEW failed \in SUBSET Paths, Done(entry, failed),
         UNCHANGED <<disks, files, work, flushed>>, mishaps' \in 0 .. MaxMishaps
  PROVE  SafeInv'
  BY DoneRecord DEF SafeInv, ScanTypeOK, SessionRows, Scanning, InHand, Unique, disks

\* A look at an entry, and the steps that give it up.
LEMMA SafeLook ==
  ASSUME SafeInv,
         \/ \E entry \in Folders \X Paths : Skip(entry) \/ Stat(entry) \/ StatFails(entry)
         \/ Unread \/ Hash
  PROVE  SafeInv'
<1> USE LibraryAssumption DEF SafeInv, ScanTypeOK
<1>0. scan \in ScanRecord
  OBVIOUS
<1>1. ASSUME NEW entry \in Folders \X Paths, Skip(entry) PROVE SafeInv'
  <2>1. Scanning /\ Done(entry, {}) /\ UNCHANGED <<disks, files, work, flushed>>
        /\ mishaps' \in 0 .. MaxMishaps
    BY <1>1 DEF Skip, Scanning
  <2> QED
    BY <2>1, SafeDone
<1>2. ASSUME NEW entry \in Folders \X Paths, StatFails(entry) PROVE SafeInv'
  <2>1. Scanning /\ Done(entry, {entry[2]}) /\ UNCHANGED <<disks, files, work, flushed>>
        /\ mishaps' \in 0 .. MaxMishaps
    BY <1>2, FailsCounted DEF StatFails, Scanning
  <2>2. {entry[2]} \in SUBSET Paths
    OBVIOUS
  <2> QED
    BY <2>1, <2>2, SafeDone
<1>3. CASE Unread
  <2>1. Scanning /\ Done(Current, {scan.path}) /\ UNCHANGED <<disks, files, work, flushed>>
        /\ mishaps' \in 0 .. MaxMishaps
    BY <1>3, FailsCounted DEF Unread, Scanning
  <2>2. {scan.path} \in SUBSET Paths
    BY <1>3, InHandSeen DEF Unread
  <2> QED
    BY <2>1, <2>2, SafeDone
<1>4. ASSUME NEW entry \in Folders \X Paths, Stat(entry) PROVE SafeInv'
  <2>1. LookOf[disk[entry[2]]] \in Looks
    BY <1>4 DEF Stat, OnDisk
  <2>2. /\ scan' \in ScanRecord /\ scan'.at = "hash" /\ scan'.look \in Looks
        /\ scan'.from = entry[1] /\ scan'.path = entry[2]
        /\ scan'.walk = scan.walk /\ scan'.todo = scan.todo /\ scan'.seen = scan.seen
        /\ entry \in scan.todo /\ scan.at = "next"
        /\ UNCHANGED <<disks, mishaps, files, work, flushed>>
    BY <1>0, <1>4, <2>1 DEF Stat, ScanRecord
  <2>3. Current' = entry
    BY <2>2 DEF Current
  <2> QED
    BY <2>2, <2>3 DEF SessionRows, Scanning, InHand, Pending, Unique, disks
<1>5. CASE Hash
  <2>1. HashOf[disk[scan.path]] \in Hashes
    BY <1>5 DEF Hash, OnDisk
  <2>2. /\ scan' \in ScanRecord /\ scan'.at = "extract" /\ scan'.hash \in Hashes
        /\ scan'.from = scan.from /\ scan'.path = scan.path /\ scan'.look = scan.look
        /\ scan'.walk = scan.walk /\ scan'.todo = scan.todo /\ scan'.seen = scan.seen
        /\ scan.at = "hash" /\ RowsAt(scan.path) = {}
        /\ UNCHANGED <<disks, mishaps, files, work, flushed>>
    BY <1>0, <1>5, <2>1 DEF Hash, ScanRecord
  <2> QED
    BY <2>2 DEF SessionRows, Scanning, InHand, Current, Pending, Unique, disks, RowsAt
<1> QED
  BY <1>1, <1>2, <1>3, <1>4, <1>5

\* No step of a scan gives a path a second row.
LEMMA SafeWrite ==
  ASSUME SafeInv,
         \/ \E i \in DOMAIN work : Update(i) \/ Move(i)
         \/ \E book \in 1 .. Len(work) + 1 : Add(book)
  PROVE  SafeInv'
<1> USE LibraryAssumption DEF SafeInv, ScanTypeOK
<1>0. Len(work) \in Nat /\ Len(files) \in Nat
  BY LenProperties
<1>1. ASSUME NEW i \in DOMAIN work, Update(i) PROVE SafeInv'
  <2>1. Scanning /\ Done(Current, {}) /\ UNCHANGED <<disks, mishaps, files, flushed>>
    BY <1>1 DEF Update, Scanning
  <2>2. Unique(work')
    BY <1>1, UpdateEffect, UniqueKept
  <2> QED
    BY <1>1, <2>1, <2>2, DoneRecord, UpdateEffect
       DEF SessionRows, Scanning, InHand, Unique, disks
<1>2. ASSUME NEW i \in DOMAIN work, Move(i) PROVE SafeInv'
  <2>1. Scanning /\ Done(Current, {}) /\ UNCHANGED <<disks, files, flushed>>
        /\ mishaps' \in 0 .. MaxMishaps
    BY <1>2, FailsCounted DEF Move, Scanning
  <2>2. Unique(work')
    BY <1>2, MoveEffect, UniqueKept
  <2> QED
    BY <1>2, <2>1, <2>2, DoneRecord, MoveEffect
       DEF SessionRows, Scanning, InHand, Unique, disks
<1>3. ASSUME NEW book \in 1 .. Len(work) + 1, Add(book) PROVE SafeInv'
  <2>1. Scanning /\ Done(Current, {}) /\ UNCHANGED <<disks, mishaps, files>> /\ flushed' = work'
    BY <1>3 DEF Add, Scanning
  <2>2. Unique(work')
    BY <1>3, AddEffect, UniqueKept
  <2>3. work' \in Seq(Rows) /\ Len(files) <= Len(work')
    BY <1>0, <1>3, <2>1, AddEffect DEF SessionRows
  <2> QED
    BY <2>1, <2>2, <2>3, DoneRecord DEF SessionRows, Scanning, InHand, Unique, disks
<1> QED
  BY <1>1, <1>2, <1>3

\* However a scan ends, its session is empty.
LEMMA SafeEnd ==
  ASSUME SafeInv, Finish \/ Abort
  PROVE  SafeInv'
<1> USE DEF SafeInv, ScanTypeOK
<1>1. /\ work' = <<>> /\ flushed' = <<>> /\ UNCHANGED <<disks, mishaps>>
      /\ scan' = Idle
  BY DEF Finish, Abort
<1>2. scan' \in ScanRecord /\ scan'.at = "idle" /\ Pending' = {}
  BY <1>1, IdleRecord DEF Pending, Idle
<1>3. files' \in Seq(Rows) /\ Unique(files')
  BY FinishEffect DEF Abort, Unique
<1> QED
  BY <1>1, <1>2, <1>3 DEF SessionRows, Scanning, InHand, Unique, disks

\* Whatever the owner and the scans do, types and unique paths are kept.
LEMMA SafeHolds == ScanSpec => []SafeInv
<1>1. SafeInv /\ [ScanNext]_scanVars => SafeInv'
  BY SafeOwner, SafeWalk, SafeLook, SafeWrite, SafeEnd DEF ScanNext, ScanStep
<1> QED
  BY <1>1, SafeInit, PTL DEF ScanSpec

\* Every variable of the scan keeps its type in every behaviour.
THEOREM ScanTypeCorrect == ScanSpec => []ScanTypeOK
  BY SafeHolds, PTL DEF SafeInv

\* No path ever has two rows, in a session or committed, whatever the owner
\* moves under the scan: the unique constraint never aborts one.
THEOREM PathsUnique == ScanSpec => []OnePerPath
<1>1. SafeInv => OnePerPath
  BY DEF SafeInv, Unique, OnePerPath
<1> QED
  BY <1>1, SafeHolds, PTL

-----------------------------------------------------------------------------
(* A scan during which nothing changes on disk.                            *)

\* In the folders it has listed it has seen what is there, and nothing but
\* that and where links lead.
SeenAll ==
  /\ \A p \in OnDisk \ (scan.seen \cup scan.unread) : FolderOf[p] \in scan.walk
  /\ scan.seen \subseteq OnDisk \cup Linked

\* Its looks at the file in hand were all of one version.
SawVersion ==
  scan.at \in {"hash", "extract"} =>
    /\ scan.look = LookOf[disk[scan.path]]
    /\ scan.at = "extract" => scan.hash = HashOf[disk[scan.path]]

\* What the rows say of a path that has been taken up: there is one if the file
\* can be read, and it has the file's look.
TakenUp(p) ==
  /\ Readable(p) => RowsAt(p) # {}
  /\ \A i \in RowsAt(p) : ~work[i].missing /\ work[i].look = LookOf[disk[p]]

\* A row that the scan has written is that of a file it has seen, and says of it
\* what it is; one that it has not is as it was loaded.
AsLoaded(i) == i \in DOMAIN files /\ work[i] = files[i]
Describes(i) ==
  LET p == work[i].path IN
  /\ p \in OnDisk \cap scan.seen
  /\ ~work[i].missing /\ work[i].look = LookOf[disk[p]] /\ work[i].hash = HashOf[disk[p]]

\* The content h has not vanished from where a row knows it.
NotMoved(h) ==
  \A j \in DOMAIN files : work[j].path \notin scan.seen \cup OnDisk => files[j].hash # h

QuietRows ==
  /\ \A p \in (OnDisk \cap scan.seen) \ (Pending \cup scan.unread) : TakenUp(p)
  /\ \A i \in DOMAIN work : AsLoaded(i) \/ Describes(i)
  /\ \A i \in DOMAIN work \ DOMAIN files : NotMoved(work[i].hash)
  /\ scan.at = "extract" => NotMoved(scan.hash)

QuietInv ==
  undisturbed /\ scan.at # "idle" =>
    /\ SeenAll
    /\ SawVersion
    /\ Scanning => QuietRows

\* The facts about the lists of rows that all the steps need.
LEMMA RowLists ==
  ASSUME SafeInv
  PROVE  /\ Len(work) \in Nat /\ Len(files) \in Nat
         /\ DOMAIN work = 1 .. Len(work) /\ DOMAIN files = 1 .. Len(files)
         /\ Scanning => DOMAIN files \subseteq DOMAIN work
<1>1. /\ Len(work) \in Nat /\ Len(files) \in Nat
      /\ DOMAIN work = 1 .. Len(work) /\ DOMAIN files = 1 .. Len(files)
  BY LenProperties DEF SafeInv, ScanTypeOK
<1> QED
  BY <1>1 DEF SafeInv, SessionRows

\* The beginning of a scan, and its walk through the folders.
LEMMA QuietWalk ==
  ASSUME SafeInv, QuietInv, Begin \/ (\E f \in Folders : Walk(f) \/ PassOver(f)) \/ Load
  PROVE  QuietInv'
<1> USE LibraryAssumption
<1>1. CASE Begin
  <2>1. /\ scan'.at = "walk" /\ scan'.seen = {} /\ scan'.walk = Folders /\ disk' = disk
    BY <1>1 DEF Begin, Idle
  <2> QED
    BY <2>1 DEF QuietInv, SeenAll, SawVersion, Scanning, OnDisk
<1>2. ASSUME NEW f \in Folders, Walk(f) PROVE QuietInv'
  <2>1. /\ scan.at = "walk" /\ scan'.at = "walk" /\ scan'.walk = scan.walk \ {f}
        /\ scan'.seen = scan.seen \cup {entry[2] : entry \in Entries(f)}
        /\ scan'.unread = scan.unread /\ UNCHANGED disks
    BY <1>2 DEF Walk, SafeInv, ScanTypeOK, ScanRecord
  <2>2. \A p \in OnDisk : FolderOf[p] = f => p \in {entry[2] : entry \in Entries(f)}
    <3> SUFFICES ASSUME NEW p \in OnDisk, FolderOf[p] = f
                 PROVE  p \in {entry[2] : entry \in Entries(f)}
      OBVIOUS
    <3>1. <<f, p>> \in Entries(f) /\ <<f, p>>[2] = p
      BY DEF Entries
    <3> QED
      BY <3>1
  <2>3. {entry[2] : entry \in Entries(f)} \subseteq OnDisk \cup Linked
    BY DEF Entries, Linked
  <2> QED
    BY <2>1, <2>2, <2>3 DEF QuietInv, SeenAll, SawVersion, Scanning, OnDisk, disks
<1>3. ASSUME NEW f \in Folders, PassOver(f) PROVE QuietInv'
  <2>1. /\ scan.at = "walk" /\ scan'.at = "walk" /\ scan'.walk = scan.walk \ {f}
        /\ scan'.seen = scan.seen
        /\ scan'.unread = scan.unread \cup {p \in Paths : FolderOf[p] = f}
        /\ UNCHANGED disks
    BY <1>3 DEF PassOver, SafeInv, ScanTypeOK, ScanRecord
  <2> QED
    BY <2>1 DEF QuietInv, SeenAll, SawVersion, Scanning, OnDisk, disks
<1>4. CASE Load
  <2>1. /\ scan.at = "walk" /\ scan.walk = {} /\ scan'.at = "next" /\ scan'.walk = {}
        /\ scan'.seen = scan.seen /\ scan'.unread = scan.unread /\ scan'.todo = scan.todo
        /\ work' = files /\ UNCHANGED <<disks, files>>
    BY <1>4 DEF Load, SafeInv, ScanTypeOK, ScanRecord
  <2>2. Pending' = Pending /\ scan.seen \subseteq Pending
    BY <2>1 DEF Pending, SafeInv, SessionRows
  <2>3. undisturbed => SeenAll' /\ SawVersion'
    BY <2>1 DEF QuietInv, SeenAll, SawVersion, OnDisk, disks
  <2>4. QuietRows'
    BY <2>1, <2>2 DEF QuietRows, AsLoaded
  <2> QED
    BY <2>1, <2>3, <2>4 DEF QuietInv, disks
<1> QED
  BY <1>1, <1>2, <1>3, <1>4

\* The steps that are done with an entry: it is enough to show that its path is
\* taken up or given up, that rows written describe their files, and that those
\* of the paths seen and of the vanished files are what they were.
LEMMA QuietDone ==
  ASSUME SafeInv, QuietInv, undisturbed, Scanning, UNCHANGED <<disks, files>>,
         NEW entry, NEW failed \in SUBSET Paths, Done(entry, failed),
         entry[2] \in OnDisk \ failed => TakenUp(entry[2])',
         \A q \in OnDisk \cap scan.seen : q # entry[2] /\ TakenUp(q) => TakenUp(q)',
         \A i \in DOMAIN work' : (i \in DOMAIN work /\ work'[i] = work[i]) \/ Describes(i)',
         \A j \in DOMAIN files : work'[j].path = work[j].path \/ work'[j].path \in scan.seen,
         \A i \in DOMAIN work' \ DOMAIN files :
           (i \in DOMAIN work /\ work'[i].hash = work[i].hash) \/ NotMoved(work'[i].hash)
  PROVE  QuietInv'
<1>1. /\ scan'.at = "next" /\ scan'.seen = scan.seen /\ scan'.walk = scan.walk
      /\ scan'.unread = scan.unread \cup failed
      /\ OnDisk' = OnDisk /\ Pending \subseteq Pending' \cup {entry[2]}
  BY DoneRecord DEF SafeInv, disks, OnDisk
<1>2. SeenAll /\ QuietRows
  BY DEF QuietInv, Scanning
<1>3. SeenAll' /\ SawVersion'
  BY <1>1, <1>2 DEF SeenAll, SawVersion
<1>4. \A q \in (OnDisk \cap scan.seen) \ (Pending' \cup scan'.unread) : TakenUp(q)'
  BY <1>1, <1>2 DEF QuietRows
<1>5. \A i \in DOMAIN work' : AsLoaded(i)' \/ Describes(i)'
  <2> SUFFICES ASSUME NEW i \in DOMAIN work', ~Describes(i)' PROVE AsLoaded(i)'
    OBVIOUS
  <2>1. i \in DOMAIN work /\ work'[i] = work[i]
    OBVIOUS
  <2>2. ~Describes(i)
    BY <1>1, <2>1 DEF Describes, disks
  <2> QED
    BY <1>2, <2>1, <2>2 DEF QuietRows, AsLoaded
<1>6. ASSUME NEW i \in DOMAIN work' \ DOMAIN files
      PROVE  NotMoved(work[i].hash)'
  <2>1. NotMoved(work'[i].hash)
    BY <1>2 DEF QuietRows
  <2>2. \A j \in DOMAIN files :
          work'[j].path \notin scan.seen \cup OnDisk => files[j].hash # work'[i].hash
    BY <2>1 DEF NotMoved
  <2> QED
    BY <1>1, <2>2 DEF NotMoved
<1> QED
  BY <1>1, <1>3, <1>4, <1>5, <1>6 DEF QuietInv, QuietRows

\* A path stays taken up while its rows stay as they are.
LEMMA TakenKept ==
  ASSUME NEW q, TakenUp(q), UNCHANGED disk,
         \A k : k \in RowsAt(q)' <=> k \in RowsAt(q),
         \A k \in RowsAt(q) : work'[k] = work[k]
  PROVE  TakenUp(q)'
  BY DEF TakenUp, Readable, OnDisk

\* The steps that are done with an entry and leave the rows alone.
LEMMA QuietGivenUp ==
  ASSUME SafeInv, QuietInv, undisturbed, Scanning, UNCHANGED <<disks, files, work>>,
         NEW entry, NEW failed \in SUBSET Paths, Done(entry, failed),
         entry[2] \in OnDisk \ failed => TakenUp(entry[2])
  PROVE  QuietInv'
<1>1. \A q : TakenUp(q) => TakenUp(q)'
  BY TakenKept DEF RowsAt, disks
<1> QED
  BY <1>1, QuietDone

\* The looks at an entry, and the steps that give it up.
LEMMA QuietLook ==
  ASSUME SafeInv, QuietInv,
         \/ \E entry \in Folders \X Paths : Skip(entry) \/ Stat(entry) \/ StatFails(entry)
         \/ Unread \/ Hash
  PROVE  QuietInv'
<1> SUFFICES ASSUME undisturbed PROVE QuietInv'
  BY DEF Skip, Stat, StatFails, Unread, Hash, disks, QuietInv
<1>0. /\ Scanning /\ QuietRows /\ SeenAll /\ SawVersion
      /\ UNCHANGED <<disks, files, work, flushed>>
  BY DEF QuietInv, Scanning, Skip, Stat, StatFails, Unread, Hash
<1>1. ASSUME NEW entry \in Folders \X Paths, Skip(entry) PROVE QuietInv'
  <2>1. PICK i \in RowsAt(entry[2]) : ~work[i].missing /\ work[i].look = LookOf[disk[entry[2]]]
    BY <1>1 DEF Skip, Unchanged
  <2>2. RowsAt(entry[2]) = {i}
    BY <2>1 DEF RowsAt, Unique, SafeInv
  <2>3. TakenUp(entry[2])
    BY <2>1, <2>2 DEF TakenUp
  <2> QED
    BY <1>0, <1>1, <2>3, QuietGivenUp DEF Skip
<1>2. ASSUME NEW entry \in Folders \X Paths, StatFails(entry) PROVE QuietInv'
  BY <1>0, <1>2, QuietGivenUp DEF StatFails
<1>3. CASE Unread
  <2>1. scan.path \in Paths /\ Current[2] = scan.path
    BY <1>3, InHandSeen DEF Unread
  <2> QED
    BY <1>0, <1>3, <2>1, QuietGivenUp DEF Unread
<1>4. ASSUME NEW entry \in Folders \X Paths, Stat(entry) PROVE QuietInv'
  <2>1. /\ scan'.at = "hash" /\ scan'.path = entry[2] /\ scan'.look = LookOf[disk[entry[2]]]
        /\ scan'.todo = scan.todo /\ scan'.seen = scan.seen
        /\ scan'.walk = scan.walk /\ scan'.unread = scan.unread
    BY <1>4 DEF Stat, SafeInv, ScanTypeOK, ScanRecord
  <2>2. SeenAll' /\ SawVersion'
    BY <1>0, <2>1 DEF SeenAll, SawVersion, OnDisk, disks
  <2>3. QuietRows'
    BY <1>0, <2>1
       DEF QuietRows, TakenUp, Readable, RowsAt, OnDisk, AsLoaded, Describes, NotMoved, disks, Pending
  <2> QED
    BY <2>1, <2>2, <2>3 DEF QuietInv
<1>5. CASE Hash
  <2>1. /\ scan.at = "hash" /\ scan'.at = "extract" /\ scan'.hash = HashOf[disk[scan.path]]
        /\ scan'.path = scan.path /\ scan'.look = scan.look
        /\ scan'.todo = scan.todo /\ scan'.seen = scan.seen
        /\ scan'.walk = scan.walk /\ scan'.unread = scan.unread
        /\ MovedFrom(HashOf[disk[scan.path]]) = {}
    BY <1>5 DEF Hash, SafeInv, ScanTypeOK, ScanRecord
  <2>2. SeenAll' /\ SawVersion'
    BY <1>0, <2>1 DEF SeenAll, SawVersion, OnDisk, disks
  <2>3. NotMoved(scan'.hash)
    BY <2>1 DEF NotMoved, MovedFrom, Unseen
  <2>4. QuietRows'
    BY <1>0, <2>1, <2>3
       DEF QuietRows, TakenUp, Readable, RowsAt, OnDisk, AsLoaded, Describes, NotMoved, disks, Pending
  <2> QED
    BY <2>1, <2>2, <2>4 DEF QuietInv
<1> QED
  BY <1>1, <1>2, <1>3, <1>4, <1>5

\* The steps that write a row.
LEMMA QuietWrite ==
  ASSUME SafeInv, QuietInv,
         \/ \E i \in DOMAIN work : Update(i) \/ Move(i)
         \/ \E book \in 1 .. Len(work) + 1 : Add(book)
  PROVE  QuietInv'
<1> SUFFICES ASSUME undisturbed PROVE QuietInv'
  BY DEF Update, Move, Add, disks, QuietInv
<1>p. PICK p : p = scan.path
  OBVIOUS
<1>0. /\ Scanning /\ QuietRows /\ SawVersion /\ UNCHANGED <<disks, files>>
      /\ Done(Current, {}) /\ Current[2] = p /\ scan.look = LookOf[disk[p]]
      /\ p \in OnDisk \cap scan.seen
  BY <1>p, InHandSeen, UpdateEffect, MoveEffect, AddEffect
     DEF QuietInv, SawVersion, Scanning, Update, Move, Add, Readable
<1>1. OnDisk' = OnDisk /\ disk' = disk /\ scan'.seen = scan.seen
  BY <1>0, DoneRecord DEF disks, OnDisk, SafeInv
<1>2. DOMAIN files \subseteq DOMAIN work
  BY <1>0, RowLists
<1>3. ASSUME NEW i \in DOMAIN work, Update(i) PROVE QuietInv'
  <2>1. /\ work[i].path = p /\ DOMAIN work' = DOMAIN work
        /\ work'[i].path = p /\ work'[i].look = LookOf[disk[p]]
        /\ work'[i].hash = HashOf[disk[p]] /\ ~work'[i].missing
        /\ \A k \in DOMAIN work : k # i => work'[k] = work[k]
    BY <1>p, <1>0, <1>3, UpdateEffect
  <2>2. RowsAt(p) = {i}
    BY <2>1 DEF RowsAt, Unique, SafeInv
  <2>3. \A q, k : k \in RowsAt(q)' <=> k \in RowsAt(q)
    BY <2>1 DEF RowsAt
  <2>4. TakenUp(p)'
    BY <1>1, <2>1, <2>2, <2>3 DEF TakenUp
  <2>5. ASSUME NEW q, q # p, TakenUp(q) PROVE TakenUp(q)'
    <3>1. \A k \in RowsAt(q) : work'[k] = work[k]
      BY <2>1, <2>5 DEF RowsAt
    <3> QED
      BY <1>1, <2>3, <2>5, <3>1, TakenKept
  <2>6. Describes(i)'
    BY <1>0, <1>1, <2>1 DEF Describes
  <2>7. i \in DOMAIN files \/ work'[i].hash = work[i].hash
    BY <1>0, <2>1 DEF QuietRows, AsLoaded, Describes
  <2> QED
    BY <1>0, <1>2, <2>1, <2>4, <2>5, <2>6, <2>7, QuietDone
<1>4. ASSUME NEW i \in DOMAIN work, Move(i) PROVE QuietInv'
  <2>1. /\ i \in DOMAIN files /\ files[i].hash = HashOf[disk[p]] /\ work[i].path \notin scan.seen
        /\ RowsAt(p) = {} /\ DOMAIN work' = DOMAIN work
        /\ work'[i].path = p /\ work'[i].look = LookOf[disk[p]]
        /\ work'[i].hash = work[i].hash /\ ~work'[i].missing
        /\ \A k \in DOMAIN work : k # i => work'[k] = work[k]
    BY <1>p, <1>0, <1>4, MoveEffect DEF Move, Unseen
  <2>2. work[i] = files[i]
    BY <1>0, <2>1 DEF QuietRows, AsLoaded, Describes
  <2>3. \A k : k \in RowsAt(p)' <=> k = i
    BY <2>1 DEF RowsAt
  <2>4. TakenUp(p)'
    BY <1>1, <2>1, <2>3 DEF TakenUp
  <2>5. ASSUME NEW q \in scan.seen, q # p, TakenUp(q) PROVE TakenUp(q)'
    <3>1. \A k : k \in RowsAt(q)' <=> k \in RowsAt(q)
      BY <2>1, <2>5 DEF RowsAt
    <3>2. \A k \in RowsAt(q) : work'[k] = work[k]
      BY <2>1, <2>5 DEF RowsAt
    <3> QED
      BY <1>1, <2>5, <3>1, <3>2, TakenKept
  <2>6. Describes(i)'
    BY <1>0, <1>1, <2>1, <2>2 DEF Describes
  <2> QED
    BY <1>0, <1>2, <2>1, <2>4, <2>5, <2>6, QuietDone
<1>5. ASSUME NEW book \in 1 .. Len(work) + 1, Add(book) PROVE QuietInv'
  <2>n. PICK n : n = Len(work) + 1
    OBVIOUS
  <2>1. /\ DOMAIN work' = DOMAIN work \cup {n} /\ n \notin DOMAIN work /\ RowsAt(p) = {}
        /\ work'[n].path = p /\ work'[n].look = LookOf[disk[p]]
        /\ work'[n].hash = scan.hash /\ ~work'[n].missing
        /\ \A k \in DOMAIN work : work'[k] = work[k]
    BY <1>p, <1>0, <1>5, <2>n, AddEffect
  <2>2. scan.hash = HashOf[disk[p]] /\ NotMoved(scan.hash)
    BY <1>p, <1>0, <1>5 DEF Add, SawVersion, QuietRows
  <2>3. /\ \A k : k \in RowsAt(p)' <=> k = n
        /\ \A q, k : q # p => (k \in RowsAt(q)' <=> k \in RowsAt(q))
    BY <2>1 DEF RowsAt
  <2>4. TakenUp(p)'
    BY <1>1, <2>1, <2>3 DEF TakenUp
  <2>5. ASSUME NEW q, q # p, TakenUp(q) PROVE TakenUp(q)'
    <3>1. \A k \in RowsAt(q) : work'[k] = work[k]
      BY <2>1 DEF RowsAt
    <3> QED
      BY <1>1, <2>3, <2>5, <3>1, TakenKept
  <2>6. Describes(n)'
    BY <1>0, <1>1, <2>1, <2>2 DEF Describes
  <2> QED
    BY <1>0, <1>2, <2>1, <2>2, <2>4, <2>5, <2>6, QuietDone
<1> QED
  BY <1>3, <1>4, <1>5

\* No scan has begun.
LEMMA QuietInit == ScanInit => QuietInv
  BY IdleRecord DEF ScanInit, QuietInv

\* No step of a scan breaks it, and any step of the owner ends it.
LEMMA QuietStep == SafeInv /\ QuietInv /\ [ScanNext]_scanVars => QuietInv'
<1> SUFFICES ASSUME SafeInv, QuietInv, [ScanNext]_scanVars PROVE QuietInv'
  OBVIOUS
<1>1. CASE \/ \E p \in Paths : \E v \in Versions \cup {Nothing} : Put(p, v)
           \/ \E p, q \in Paths : Rename(p, q)
  BY <1>1 DEF Put, Rename, Change, QuietInv
<1>2. CASE Finish \/ Abort
  BY <1>2, IdleRecord DEF Finish, Abort, QuietInv
<1>3. CASE UNCHANGED scanVars
  BY <1>3 DEF scanVars, QuietInv, SeenAll, SawVersion, Scanning, QuietRows, Pending, TakenUp, Readable,
              RowsAt, OnDisk, AsLoaded, Describes, NotMoved
<1> QED
  BY <1>1, <1>2, <1>3, QuietWalk, QuietLook, QuietWrite DEF ScanNext, ScanStep

\* Whenever a scan has been undisturbed so far, its rows are as far as it is.
LEMMA QuietHolds == ScanSpec => [](SafeInv /\ QuietInv)
  BY SafeHolds, QuietInit, QuietStep, PTL DEF ScanSpec

\* What holds when an undisturbed scan commits.
LEMMA QuietFinish ==
  ASSUME SafeInv, QuietInv, Finish, undisturbed
  PROVE  /\ QuietRows /\ Pending = {} /\ scan.seen \subseteq OnDisk \cup Linked
         /\ OnDisk \ scan.unread \subseteq scan.seen
         /\ DOMAIN files \subseteq DOMAIN work
<1>1. Scanning /\ QuietRows /\ SeenAll /\ scan.todo = {}
  BY DEF Finish, QuietInv, Scanning
<1>2. scan.walk = {} /\ Pending = {}
  BY <1>1 DEF SafeInv, SessionRows, Pending
<1> QED
  BY <1>1, <1>2, RowLists DEF SeenAll

\* A scan during which nothing changes leaves the rows as the disk is,
\* whatever earlier scans were disturbed or aborted, and however the files
\* were moved before; but for the paths it could not look at, the hashes of
\* rows whose look it found unchanged, and the paths of broken links.
THEOREM QuietScansSync == ScanSpec => QuietScanSyncs
<1> DEFINE AllSynced ==
             /\ \A p \in Paths \ scan.unread : Readable(p) => \E i \in DOMAIN work : work[i].path = p
             /\ \A i \in DOMAIN work : Synced(i)
<1>1. ASSUME SafeInv, QuietInv, Finish, undisturbed PROVE AllSynced
  <2>1. ASSUME NEW p \in Paths \ scan.unread, Readable(p) PROVE \E i \in DOMAIN work : work[i].path = p
    <3>1. p \in OnDisk
      BY <2>1 DEF Readable
    <3>2. RowsAt(p) # {}
      BY <1>1, <2>1, <3>1, QuietFinish DEF QuietRows, TakenUp
    <3> QED
      BY <3>2 DEF RowsAt
  <2>2. ASSUME NEW i \in DOMAIN work, files'[i].path \in OnDisk \ scan.unread
        PROVE  /\ ~files'[i].missing /\ files'[i].look = LookOf[disk[files'[i].path]]
               /\ \/ files'[i].hash = HashOf[disk[files'[i].path]]
                  \/ i \in DOMAIN files /\ files'[i] = files[i]
    <3>1. files'[i].path = work[i].path /\ work[i].path \in scan.seen
      BY <1>1, <2>2, FinishEffect, QuietFinish
    <3>2. files'[i] = work[i]
      BY <1>1, <3>1, RowLists DEF Finish
    <3>3. ~work[i].missing /\ work[i].look = LookOf[disk[work[i].path]]
      BY <1>1, <2>2, <3>1, QuietFinish DEF QuietRows, TakenUp, RowsAt
    <3>4. AsLoaded(i) \/ Describes(i)
      BY <1>1, QuietFinish DEF QuietRows
    <3> QED
      BY <3>1, <3>2, <3>3, <3>4 DEF AsLoaded, Describes
  <2>3. ASSUME NEW i \in DOMAIN work, files'[i].path \notin OnDisk \cup Linked
        PROVE  files'[i].missing
    BY <1>1, <2>3, FinishEffect, QuietFinish
  <2> QED
    BY <2>1, <2>2, <2>3 DEF Synced
<1>2. SafeInv /\ QuietInv /\ [ScanNext]_scanVars => [Finish /\ undisturbed => AllSynced]_scanVars
  BY <1>1
<1> QED
  BY <1>2, QuietHolds, PTL DEF ScanSpec, QuietScanSyncs

\* ... and gives no new row to content that a row knows from a file that has
\* vanished: that row moves, with its book and the readers' progress.
THEOREM MovesKeepRows == ScanSpec => MovedKeepsRow
<1> DEFINE Kept == \A i \in DOMAIN work \ DOMAIN files, j \in DOMAIN files :
                     files'[j].path \notin scan.seen \cup OnDisk =>
                       files'[j].hash # files'[i].hash
<1>1. ASSUME SafeInv, QuietInv, Finish, undisturbed,
             NEW i \in DOMAIN work \ DOMAIN files, NEW j \in DOMAIN files,
             files'[j].path \notin scan.seen \cup OnDisk
      PROVE  files'[j].hash # files'[i].hash
  <2>1. j \in DOMAIN work /\ work[j].path \notin scan.seen \cup OnDisk
    BY <1>1, QuietFinish, FinishEffect
  <2>2. work[j] = files[j]
    BY <1>1, <2>1, QuietFinish DEF QuietRows, AsLoaded, Describes
  <2>3. files[j].hash # work[i].hash
    BY <1>1, <2>1, QuietFinish DEF QuietRows, NotMoved
  <2> QED
    BY <1>1, <2>1, <2>2, <2>3, FinishEffect
<1>2. SafeInv /\ QuietInv /\ [ScanNext]_scanVars => [Finish /\ undisturbed => Kept]_scanVars
  BY <1>1
<1> QED
  BY <1>2, QuietHolds, PTL DEF ScanSpec, MovedKeepsRow
=============================================================================
