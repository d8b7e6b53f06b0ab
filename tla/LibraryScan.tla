----------------------------- MODULE LibraryScan -----------------------------
(***************************************************************************)
(* scan_library of scanner/scanner.py over one library, while the owner of *)
(* the library goes on changing its files.                                 *)
(*                                                                         *)
(* A scan lists the folders one after the other, loads its rows, and then  *)
(* takes the files it has seen one by one: stat, hash, read the metadata,  *)
(* each a look at the disk of its own.  All it writes is one transaction;  *)
(* "work" are the rows as its session has them, "flushed" as the database  *)
(* would show them to its own queries, "files" as they are committed.      *)
(*                                                                         *)
(* What lies on disk is a version of a file: it has a look (its size, and  *)
(* its mtime to the second), a hash, and the title its metadata give.      *)
(*                                                                         *)
(* Any look at the disk may fail.  A folder that cannot be listed is       *)
(* passed over, with what lies below it; a file of which stat, hash or     *)
(* metadata fail is reported and passed over; one whose existence cannot   *)
(* be told does not exist.                                                 *)
(***************************************************************************)
EXTENDS Naturals, Sequences

CONSTANTS
  Paths,        \* where files of a known format may be
  Folders,      \* the folders of the library
  FolderOf,     \* the folder of a path
  Under,        \* the paths whose string begins with that of a folder
  Links,        \* the folder a symbolic link lies in, with the path it leads to
  Versions, Looks, Hashes, Titles,
  LookOf, HashOf,
  TitleOf,      \* the title the metadata of a hash give, or Unreadable
  Nothing, Unreadable,
  MaxMishaps    \* bound: how often the owner changes the library, or a look at
                \* what is there fails

ASSUME LibraryAssumption ==
  /\ FolderOf \in [Paths -> Folders]
  /\ Under \in [Folders -> SUBSET Paths]
  /\ \A p \in Paths : p \in Under[FolderOf[p]]
  /\ Links \subseteq Folders \X Paths
  /\ LookOf \in [Versions -> Looks] /\ HashOf \in [Versions -> Hashes]
  /\ TitleOf \in [Hashes -> Titles \cup {Unreadable}] /\ Unreadable \notin Titles
  /\ Nothing \notin Versions \cup Paths \cup Looks \cup Hashes \cup Folders
  /\ MaxMishaps \in Nat

VARIABLES
  disk,         \* the version at each path, or Nothing
  mishaps,      \* how often it was changed, or a look at it failed
  files,        \* book_files, as committed, in the order of their ids
  work,         \* book_files in the scan's session
  flushed,      \* book_files in its transaction
  scan,         \* where the scan is
  undisturbed   \* whether nothing has changed on disk since the scan began

scanVars == <<disk, mishaps, files, work, flushed, scan, undisturbed>>

\* A book is named by the first row it got; its title is the one it was
\* created with.
Rows == [path : Paths, look : Looks, hash : Hashes, missing : BOOLEAN,
         book : Nat, title : Titles]

\* The folders to walk; the paths seen; those it could not get at; the entries
\* to do, each with the folder it was found in; and the entry in hand.
ScanRecord ==
  [at : {"idle", "walk", "next", "hash", "extract"},
   walk : SUBSET Folders, seen : SUBSET Paths, unread : SUBSET Paths,
   todo : SUBSET (Folders \X Paths),
   from : Folders \cup {Nothing}, path : Paths \cup {Nothing},
   look : Looks \cup {Nothing}, hash : Hashes \cup {Nothing}]

Idle == [at |-> "idle", walk |-> {}, seen |-> {}, unread |-> {}, todo |-> {},
         from |-> Nothing, path |-> Nothing, look |-> Nothing, hash |-> Nothing]

ScanTypeOK ==
  /\ disk \in [Paths -> Versions \cup {Nothing}]
  /\ mishaps \in 0 .. MaxMishaps
  /\ files \in Seq(Rows) /\ work \in Seq(Rows) /\ flushed \in Seq(Rows)
  /\ scan \in ScanRecord
  /\ undisturbed \in BOOLEAN

ScanInit ==
  /\ disk \in [Paths -> Versions \cup {Nothing}]
  /\ mishaps = 0
  /\ files = <<>> /\ work = <<>> /\ flushed = <<>>
  /\ scan = Idle
  /\ undisturbed = TRUE

OnDisk == {p \in Paths : disk[p] # Nothing}
Linked == {link[2] : link \in Links}

-----------------------------------------------------------------------------
(* The owner of the library.                                               *)

Change ==
  /\ mishaps < MaxMishaps
  /\ mishaps' = mishaps + 1
  /\ undisturbed' = FALSE
  /\ UNCHANGED <<files, work, flushed, scan>>

Put(p, v) ==
  /\ disk[p] # v
  /\ disk' = [disk EXCEPT ![p] = v]
  /\ Change

Rename(p, q) ==
  /\ p # q /\ p \in OnDisk
  /\ disk' = [disk EXCEPT ![p] = Nothing, ![q] = disk[p]]
  /\ Change

-----------------------------------------------------------------------------
(* The scan.                                                               *)

disks == <<disk, undisturbed>>

\* A look at the disk fails, as it must or as it happens to.
Fails(must) ==
  /\ must \/ mishaps < MaxMishaps
  /\ mishaps' = IF must THEN mishaps ELSE mishaps + 1

Begin ==
  /\ scan.at = "idle"
  /\ scan' = [Idle EXCEPT !.at = "walk", !.walk = Folders]
  /\ undisturbed' = TRUE
  /\ UNCHANGED <<disk, mishaps, files, work, flushed>>

\* The entries of a folder: its files, and the links, broken or not, that lie
\* in it.
Entries(f) ==
  {<<f, p>> : p \in {q \in OnDisk : FolderOf[q] = f}} \cup {link \in Links : link[1] = f}

\* A folder is listed: its entries are seen by the paths they lead to.
Walk(f) ==
  /\ scan.at = "walk"
  /\ f \in scan.walk
  /\ scan' = [scan EXCEPT !.walk = @ \ {f},
                          !.seen = @ \cup {entry[2] : entry \in Entries(f)},
                          !.todo = @ \cup Entries(f)]
  /\ UNCHANGED <<disks, mishaps, files, work, flushed>>

\* It cannot be listed to its end: os.walk passes over it, and over those below
\* it, each by a step of its own here.
PassOver(f) ==
  /\ scan.at = "walk"
  /\ f \in scan.walk
  /\ scan' = [scan EXCEPT !.walk = @ \ {f},
                          !.unread = @ \cup {p \in Paths : FolderOf[p] = f}]
  /\ Fails(FALSE)
  /\ UNCHANGED <<disks, files, work, flushed>>

Load ==
  /\ scan.at = "walk"
  /\ scan.walk = {}
  /\ work' = files /\ flushed' = files
  /\ scan' = [scan EXCEPT !.at = "next"]
  /\ UNCHANGED <<disks, mishaps, files>>

RowsAt(p) == {i \in DOMAIN work : work[i].path = p}

\* The entry in hand.
Current == <<scan.from, scan.path>>

\* The scan has done with an entry, having failed to look at some paths.
Done(entry, failed) ==
  scan' = [scan EXCEPT !.at = "next", !.todo = @ \ {entry}, !.unread = @ \cup failed,
                       !.from = Nothing, !.path = Nothing, !.look = Nothing, !.hash = Nothing]

\* Mutant of Unchanged: a file that has come back is passed over.
UnchangedMissing(p) == \E i \in RowsAt(p) : work[i].look = LookOf[disk[p]]

\* A row that is not missing looks like the file.
Unchanged(p) ==
  \E i \in RowsAt(p) : ~work[i].missing /\ work[i].look = LookOf[disk[p]]

\* stat: the file is unchanged,
Skip(entry) ==
  /\ scan.at = "next"
  /\ entry \in scan.todo
  /\ entry[2] \in OnDisk /\ Unchanged(entry[2])
  /\ Done(entry, {})
  /\ UNCHANGED <<disks, mishaps, files, work, flushed>>

\* new or changed,
Stat(entry) ==
  /\ scan.at = "next"
  /\ entry \in scan.todo
  /\ entry[2] \in OnDisk /\ ~Unchanged(entry[2])
  /\ scan' = [scan EXCEPT !.at = "hash", !.from = entry[1], !.path = entry[2],
                          !.look = LookOf[disk[entry[2]]]]
  /\ UNCHANGED <<disks, mishaps, files, work, flushed>>

\* or gone, or out of reach.
StatFails(entry) ==
  /\ scan.at = "next"
  /\ entry \in scan.todo
  /\ Done(entry, {entry[2]})
  /\ Fails(entry[2] \notin OnDisk)
  /\ UNCHANGED <<disks, files, work, flushed>>

ReadableAny(p) == p \in OnDisk   \* mutant of Readable: an error gives no title

Readable(p) == p \in OnDisk /\ TitleOf[HashOf[disk[p]]] # Unreadable

\* The hash, or next the metadata, cannot be read: the file is gone, cannot be
\* opened or read, or is no book.  A row it may have stays as it is.
Unread ==
  /\ \/ scan.at = "hash" /\ Fails(scan.path \notin OnDisk)
     \/ scan.at = "extract" /\ Fails(~Readable(scan.path))
  /\ Done(Current, {scan.path})
  /\ UNCHANGED <<disks, files, work, flushed>>

\* The file has a row already: it is brought up to date.
Update(i) ==
  /\ scan.at = "hash"
  /\ scan.path \in OnDisk
  /\ i \in RowsAt(scan.path)
  /\ work' = [work EXCEPT ![i].look = scan.look, ![i].hash = HashOf[disk[scan.path]],
                          ![i].missing = FALSE]
  /\ Done(Current, {})
  /\ UNCHANGED <<disks, mishaps, files, flushed>>

MovedNever(h) == {}   \* mutant of MovedFrom: no row ever moves

\* The rows loaded with the hash h whose file was not seen, and is not there.
Unseen(h) == {i \in DOMAIN files : files[i].hash = h /\ work[i].path \notin scan.seen}
MovedFrom(h) == {i \in Unseen(h) : work[i].path \notin OnDisk}

\* Such a row moves; or one whose file is there, and cannot be looked at.
Move(i) ==
  /\ scan.at = "hash"
  /\ scan.path \in OnDisk
  /\ RowsAt(scan.path) = {}
  /\ i \in Unseen(HashOf[disk[scan.path]])
  /\ work' = [work EXCEPT ![i].path = scan.path, ![i].look = scan.look,
                          ![i].missing = FALSE]
  /\ Done(Current, {})
  /\ IF work[i].path \in OnDisk THEN Fails(FALSE) ELSE UNCHANGED mishaps
  /\ UNCHANGED <<disks, files, flushed>>

\* Mutant of Hash: the rows at the path are not looked up.
HashOnly ==
  /\ scan.at = "hash"
  /\ scan.path \in OnDisk
  /\ MovedFrom(HashOf[disk[scan.path]]) = {}
  /\ scan' = [scan EXCEPT !.at = "extract", !.hash = HashOf[disk[scan.path]]]
  /\ UNCHANGED <<disks, mishaps, files, work, flushed>>

\* The file is genuinely new.
Hash ==
  /\ scan.at = "hash"
  /\ scan.path \in OnDisk
  /\ RowsAt(scan.path) = {}
  /\ MovedFrom(HashOf[disk[scan.path]]) = {}
  /\ scan' = [scan EXCEPT !.at = "extract", !.hash = HashOf[disk[scan.path]]]
  /\ UNCHANGED <<disks, mishaps, files, work, flushed>>

\* The books a new file of this title may belong to: of the library, of the
\* same title, with a file whose path begins with the new entry's folder.  The
\* query sees what has been flushed.
BooksFor(f, title) ==
  {flushed[i].book : i \in {j \in DOMAIN flushed :
                             /\ flushed[j].path \in Under[f]
                             /\ flushed[j].title = title}}

Add(book) ==
  LET title == TitleOf[HashOf[disk[scan.path]]]
      books == BooksFor(scan.from, title)
  IN
  /\ scan.at = "extract"
  /\ Readable(scan.path)
  /\ book \in IF books = {} THEN {Len(work) + 1} ELSE books
  /\ work' = Append(work, [path |-> scan.path, look |-> scan.look, hash |-> scan.hash,
                           missing |-> FALSE, book |-> book, title |-> title])
  /\ flushed' = work'
  /\ Done(Current, {})
  /\ UNCHANGED <<disks, mishaps, files>>

\* What was not seen is marked missing, and the scan commits.
Finish ==
  /\ scan.at = "next"
  /\ scan.todo = {}
  /\ files' = [i \in DOMAIN work |->
                 IF work[i].path \in scan.seen THEN work[i]
                 ELSE [work[i] EXCEPT !.missing = TRUE]]
  /\ work' = <<>> /\ flushed' = <<>>
  /\ scan' = Idle
  /\ UNCHANGED <<disks, mishaps>>

\* The process is killed, or a write fails: nothing of the scan remains.
Abort ==
  /\ scan.at # "idle"
  /\ work' = <<>> /\ flushed' = <<>>
  /\ scan' = Idle
  /\ UNCHANGED <<disks, mishaps, files>>

ScanStep ==
  \/ Begin \/ (\E f \in Folders : Walk(f) \/ PassOver(f)) \/ Load
  \/ (\E entry \in Folders \X Paths : Skip(entry) \/ Stat(entry) \/ StatFails(entry))
  \/ Unread \/ Hash
  \/ (\E i \in DOMAIN work : Update(i) \/ Move(i))
  \/ (\E book \in 1 .. Len(work) + 1 : Add(book))
  \/ Finish \/ Abort

ScanNext ==
  \/ \E p \in Paths : \E v \in Versions \cup {Nothing} : Put(p, v)
  \/ \E p, q \in Paths : Rename(p, q)
  \/ ScanStep

ScanSpec == ScanInit /\ [][ScanNext]_scanVars

-----------------------------------------------------------------------------
(* Properties.                                                             *)

\* No two rows have one path, in the session or committed, whatever moves
\* where during the scan: the unique constraint never aborts a scan.
OnePerPath ==
  \A rows \in {files, work} :
    \A i, j \in DOMAIN rows : rows[i].path = rows[j].path => i = j

\* What a scan that commits leaves of a row, if nothing changed meanwhile.  Where
\* its look was the file's already the hash is not looked at, and where a broken
\* link still leads to its path the row stays as it was.
Synced(i) ==
  LET row == files'[i]
      known == i \in DOMAIN files /\ row = files[i]
  IN
  /\ row.path \in OnDisk \ scan.unread =>
       /\ ~row.missing /\ row.look = LookOf[disk[row.path]]
       /\ row.hash = HashOf[disk[row.path]] \/ known
  /\ row.path \notin OnDisk \cup Linked => row.missing

\* A scan during which nothing changes leaves the rows as the disk is, whatever
\* scans were disturbed or aborted before: but for the paths it could not look
\* at, every book has a row, and a row whose file is there is not missing, and
\* has the file's look and its hash; and every row whose file is gone is missing.
QuietScanSyncs ==
  [][Finish /\ undisturbed =>
       /\ \A p \in Paths \ scan.unread : Readable(p) => \E i \in DOMAIN work : work[i].path = p
       /\ \A i \in DOMAIN work : Synced(i)]_scanVars

\* A quiet scan takes no file for new whose content has vanished elsewhere:
\* it keeps its row, and with it its book and the readers' progress.
MovedKeepsRow ==
  [][Finish /\ undisturbed =>
       \A i \in DOMAIN work \ DOMAIN files, j \in DOMAIN files :
         files'[j].path \notin scan.seen \cup OnDisk =>
           files'[j].hash # files'[i].hash]_scanVars
=============================================================================
