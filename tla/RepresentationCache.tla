-------------------------- MODULE RepresentationCache --------------------------
(***************************************************************************)
(* services/representation.py for one book and one generated profile: the  *)
(* rows of the representations table, the artifacts under the cache        *)
(* directory, and the threads that generate and serve them (the download   *)
(* handler of api/opds.py, the generate_x4 job).                           *)
(*                                                                         *)
(* An artifact is written to a ".tmp" sibling of its final name, checked,  *)
(* renamed, and recorded in a row.  Both names are functions of the source *)
(* hash, so two threads that generate from the same source share them.     *)
(* What a thread writes goes to the file it opened, wherever a rename has  *)
(* moved it: "out" follows that file.                                      *)
(*                                                                         *)
(* The file of the library can be replaced before a scan records its new   *)
(* hash.  The cache can be swept and evicted by cache_maintenance jobs.    *)
(***************************************************************************)
EXTENDS Integers, FiniteSets

CONSTANTS
  Hashes,       \* contents of the book's source file
  Threads,      \* threads that generate
  Ids,          \* representations.id
  Overlap,      \* whether two threads may generate at a time
  MaxReplaced,  \* bound: how often the source file is replaced
  MaxCrashes,   \* bound: how often the server is killed
  NoHash, NoId, NoFile, NoThread, Mixed

ASSUME CacheAssumption ==
  /\ Ids \subseteq Nat
  /\ Overlap \in BOOLEAN
  /\ MaxReplaced \in Nat /\ MaxCrashes \in Nat
  /\ {NoHash, Mixed} \cap Hashes = {}
  /\ NoId \notin Ids /\ NoThread \notin Threads
  /\ NoFile \notin [of : Hashes \cup {Mixed}, by : Threads \cup {NoThread}]

VARIABLES
  disk,         \* the content of the source file
  known,        \* book_files.file_hash, as the last scan recorded it
  replaced,     \* how often the file was replaced
  rows,         \* representations: the source hash of each row
  tmp,          \* the ".tmp" file of each source hash
  target,       \* the artifact of each source hash
  holder,       \* the thread whose transaction holds the write lock
  thread,       \* the local state of each thread
  crashes       \* how often the server was killed

sourceVars == <<disk, known, replaced>>
files == <<tmp, target>>
representationVars == <<sourceVars, rows, files, holder, thread, crashes>>

\* A file rendered from "of" is whole when the thread that truncated it last
\* has closed it; until then, or if it never does, "by" is that thread.
Files == [of : Hashes \cup {Mixed}, by : Threads \cup {NoThread}]
Whole(f) == f.of # Mixed /\ f.by = NoThread

Points == {"idle", "lookup", "purge", "stage", "render", "open", "write",
           "verify", "publish", "unlink", "unlinkFailed", "retire", "commit",
           "serve", "refresh"}

Generation == [at : Points,
           hash : Hashes \cup {NoHash},     \* of the source it generates from
           row : Ids \cup {NoId},           \* the row "existing"
           old : Hashes \cup {NoHash},      \* the hash that row had
           src : Hashes \cup {NoHash},      \* the content it has rendered
           out : {"tmp", "target", "gone"}] \* the name of the file it opened

Resting == [at |-> "idle", hash |-> NoHash, row |-> NoId, old |-> NoHash,
         src |-> NoHash, out |-> "gone"]

RepresentationTypeOK ==
  /\ disk \in Hashes /\ known \in Hashes
  /\ replaced \in 0 .. MaxReplaced /\ crashes \in 0 .. MaxCrashes
  /\ rows \in [Ids -> Hashes \cup {NoHash}]
  /\ tmp \in [Hashes -> Files \cup {NoFile}]
  /\ target \in [Hashes -> Files \cup {NoFile}]
  /\ holder \in Threads \cup {NoThread}
  /\ thread \in [Threads -> Generation]

RepresentationInit ==
  /\ disk \in Hashes /\ known = disk /\ replaced = 0
  /\ rows = [i \in Ids |-> NoHash]
  /\ tmp = [h \in Hashes |-> NoFile]
  /\ target = [h \in Hashes |-> NoFile]
  /\ holder = NoThread
  /\ thread = [t \in Threads |-> Resting]
  /\ crashes = 0

Used == {i \in Ids : rows[i] # NoHash}

Waits(t, point) == thread[t].at = point
Hash(t) == thread[t].hash
Goto(t, point) == thread' = [thread EXCEPT ![t].at = point]

\* The threads' locals after t goes to a point and the files called "name"
\* for hash h are renamed or removed: their writers follow them.
Follow(t, point, h, move) ==
  thread' = [u \in Threads |->
    [thread[u] EXCEPT
       !.at = IF u = t THEN point ELSE @,
       !.out = IF Waits(u, "write") /\ Hash(u) = h THEN move[@] ELSE @]]

Removed(name) ==
  [o \in {"tmp", "target", "gone"} |-> IF o = name THEN "gone" ELSE o]
Renamed == [tmp |-> "target", target |-> "gone", gone |-> "gone"]

\* The session is closed: an open transaction is rolled back.
End(t) ==
  /\ thread' = [thread EXCEPT ![t] = Resting]
  /\ holder' = IF holder = t THEN NoThread ELSE holder

-----------------------------------------------------------------------------
(* The library and the maintenance of the cache.                           *)

Replace(h) ==
  /\ replaced < MaxReplaced
  /\ h # disk
  /\ disk' = h
  /\ replaced' = replaced + 1
  /\ UNCHANGED <<known, rows, files, holder, thread, crashes>>

Scan ==
  /\ known # disk
  /\ known' = disk
  /\ UNCHANGED <<disk, replaced, rows, files, holder, thread, crashes>>

\* validate() removes every ".tmp" it comes across.
Sweep(h) ==
  /\ tmp[h] # NoFile
  /\ tmp' = [tmp EXCEPT ![h] = NoFile]
  /\ Follow(NoThread, "idle", h, Removed("tmp"))
  /\ UNCHANGED <<sourceVars, rows, target, holder, crashes>>

Evict(h) ==
  /\ target[h] # NoFile
  /\ target' = [target EXCEPT ![h] = NoFile]
  /\ Follow(NoThread, "idle", h, Removed("target"))
  /\ UNCHANGED <<sourceVars, rows, tmp, holder, crashes>>

Crash ==
  /\ crashes < MaxCrashes
  /\ crashes' = crashes + 1
  /\ thread' = [t \in Threads |-> Resting]
  /\ holder' = NoThread
  /\ UNCHANGED <<sourceVars, rows, files>>

-----------------------------------------------------------------------------
(* generate(), and what its caller does with the row.                      *)

Request(t) ==
  /\ Waits(t, "idle")
  /\ Overlap \/ \A u \in Threads : Waits(u, "idle")
  /\ thread' = [thread EXCEPT ![t].at = "lookup", ![t].hash = known]
  /\ UNCHANGED <<sourceVars, rows, files, holder, crashes>>

\* get(): the first row whose artifact exists.
Ready == {i \in Used : target[rows[i]] # NoFile}
IsReady(i) == i \in Ready /\ \A k \in Ready : i <= k

LookupHit(t, i) ==
  /\ Waits(t, "lookup")
  /\ IsReady(i)
  /\ rows[i] = Hash(t)
  /\ Goto(t, "serve")
  /\ UNCHANGED <<sourceVars, rows, files, holder, crashes>>

LookupStale(t, i) ==
  /\ Waits(t, "lookup")
  /\ IsReady(i)
  /\ rows[i] # Hash(t)
  /\ thread' = [thread EXCEPT ![t].at = "purge", ![t].row = i, ![t].old = rows[i]]
  /\ UNCHANGED <<sourceVars, rows, files, holder, crashes>>

LookupNone(t) ==
  /\ Waits(t, "lookup")
  /\ Ready = {}
  /\ Goto(t, "purge")
  /\ UNCHANGED <<sourceVars, rows, files, holder, crashes>>

\* The rows to delete; the flush that deletes them takes the write lock, and
\* nobody sees the deletion before the commit.
NothingSuperseded(t) == {}   \* mutant of Superseded: stale rows stay
Superseded(t) == Used \ {thread[t].row}

Purge(t) ==
  /\ Waits(t, "purge")
  /\ \/ Superseded(t) = {} /\ holder' = holder
     \/ Superseded(t) # {} /\ holder = NoThread /\ holder' = t
  /\ Goto(t, "stage")
  /\ UNCHANGED <<sourceVars, rows, files, crashes>>

Record(t) == IF thread[t].row = NoId THEN "commit" ELSE "retire"

Stage(t) ==
  /\ Waits(t, "stage")
  /\ Goto(t, IF target[Hash(t)] = NoFile THEN "render" ELSE Record(t))
  /\ UNCHANGED <<sourceVars, rows, files, holder, crashes>>

\* The source is read, its images are converted,
Render(t) ==
  /\ Waits(t, "render")
  /\ thread' = [thread EXCEPT ![t].at = "open", ![t].src = disk]
  /\ UNCHANGED <<sourceVars, rows, files, holder, crashes>>

\* or it turns out not to be an EPUB, or is gone.
RenderFails(t) ==
  /\ Waits(t, "render")
  /\ Goto(t, "unlinkFailed")
  /\ UNCHANGED <<sourceVars, rows, files, holder, crashes>>

\* Mutant of Open: the artifact is written in place.
OpenInPlace(t) ==
  /\ Waits(t, "open")
  /\ target' = [target EXCEPT ![Hash(t)] = [of |-> thread[t].src, by |-> t]]
  /\ thread' = [thread EXCEPT ![t].at = "write", ![t].out = "target"]
  /\ UNCHANGED <<sourceVars, rows, tmp, holder, crashes>>

\* Opening the ".tmp" truncates it, under whoever is writing it.
Open(t) ==
  LET h == Hash(t)
      others == {u \in Threads : Waits(u, "write") /\ Hash(u) = h /\ thread[u].out = "tmp"}
      clash == \E u \in others : thread[u].src # thread[t].src
  IN
  /\ Waits(t, "open")
  /\ tmp' = [tmp EXCEPT ![h] = [of |-> IF clash THEN Mixed ELSE thread[t].src, by |-> t]]
  /\ thread' = [thread EXCEPT ![t].at = "write", ![t].out = "tmp"]
  /\ UNCHANGED <<sourceVars, rows, target, holder, crashes>>

\* Mutant of Closed.
ClosedAsAbsent(f, t) == IF f # NoFile /\ f.by = t THEN [f EXCEPT !.by = NoFile] ELSE f

\* A file is whole once its last truncator closes it.
Closed(f, t) == IF f # NoFile /\ f.by = t THEN [f EXCEPT !.by = NoThread] ELSE f

CloseOutput(t) ==
  /\ Waits(t, "write")
  /\ \/ thread[t].out = "tmp"
        /\ tmp' = [tmp EXCEPT ![Hash(t)] = Closed(@, t)] /\ UNCHANGED target
     \/ thread[t].out = "target"
        /\ target' = [target EXCEPT ![Hash(t)] = Closed(@, t)] /\ UNCHANGED tmp
     \/ thread[t].out = "gone" /\ UNCHANGED files
  /\ thread' = [thread EXCEPT ![t].at = "verify", ![t].out = "gone"]
  /\ UNCHANGED <<sourceVars, rows, holder, crashes>>

\* The volume is full.
WriteFails(t) ==
  /\ Waits(t, "write")
  /\ thread' = [thread EXCEPT ![t].at = "unlinkFailed", ![t].out = "gone"]
  /\ UNCHANGED <<sourceVars, rows, files, holder, crashes>>

\* _verify_spine opens the ".tmp" by name.  It reads the package document
\* only, so a file that another thread is still writing may pass.
Verify(t) ==
  /\ Waits(t, "verify")
  /\ tmp[Hash(t)] # NoFile
  /\ Goto(t, "publish")
  /\ UNCHANGED <<sourceVars, rows, files, holder, crashes>>

VerifyFails(t) ==
  /\ Waits(t, "verify")
  /\ tmp[Hash(t)] # NoFile => ~Whole(tmp[Hash(t)])
  /\ Goto(t, "unlinkFailed")
  /\ UNCHANGED <<sourceVars, rows, files, holder, crashes>>

Publish(t) ==
  /\ Waits(t, "publish")
  /\ tmp[Hash(t)] # NoFile
  /\ target' = [target EXCEPT ![Hash(t)] = tmp[Hash(t)]]
  /\ tmp' = [tmp EXCEPT ![Hash(t)] = NoFile]
  /\ Follow(t, "unlink", Hash(t), Renamed)
  /\ UNCHANGED <<sourceVars, rows, holder, crashes>>

PublishFails(t) ==
  /\ Waits(t, "publish")
  /\ tmp[Hash(t)] = NoFile
  /\ Goto(t, "unlinkFailed")
  /\ UNCHANGED <<sourceVars, rows, files, holder, crashes>>

\* The finally clause: the ".tmp" goes, whoever's it is by now.
Unlink(t) ==
  /\ Waits(t, "unlink")
  /\ tmp' = [tmp EXCEPT ![Hash(t)] = NoFile]
  /\ Follow(t, Record(t), Hash(t), Removed("tmp"))
  /\ UNCHANGED <<sourceVars, rows, target, holder, crashes>>

\* Mutant of UnlinkFailed: no finally clause.
EndFailed(t) ==
  /\ Waits(t, "unlinkFailed")
  /\ End(t)
  /\ UNCHANGED <<sourceVars, rows, files, crashes>>

UnlinkFailed(t) ==
  /\ Waits(t, "unlinkFailed")
  /\ tmp' = [tmp EXCEPT ![Hash(t)] = NoFile]
  /\ thread' = [u \in Threads |->
       IF u = t THEN Resting
       ELSE [thread[u] EXCEPT
               !.out = IF Waits(u, "write") /\ Hash(u) = Hash(t) THEN Removed("tmp")[@] ELSE @]]
  /\ holder' = IF holder = t THEN NoThread ELSE holder
  /\ UNCHANGED <<sourceVars, rows, target, crashes>>

\* The row moves to the new artifact: the one it had is removed,
Retire(t) ==
  /\ Waits(t, "retire")
  /\ target' = [target EXCEPT ![thread[t].old] = NoFile]
  /\ Follow(t, "commit", thread[t].old, Removed("target"))
  /\ UNCHANGED <<sourceVars, rows, tmp, holder, crashes>>

\* and the transaction commits: the deletions if it has flushed any, and the
\* row inserted or updated.
CommitRow(t, i) ==
  LET kept == IF holder = t THEN Used \cap {thread[t].row} ELSE Used
      new == [k \in Ids |-> IF k = i THEN Hash(t) ELSE IF k \in kept THEN rows[k] ELSE NoHash]
  IN
  /\ Waits(t, "commit")
  /\ holder \in {t, NoThread}
  /\ IF thread[t].row = NoId THEN i \notin kept ELSE i = thread[t].row /\ i \in Used
  /\ \A k \in kept \ {i} : rows[k] # Hash(t)
  /\ rows' = new
  /\ holder' = NoThread
  /\ thread' = [thread EXCEPT ![t].at = "refresh", ![t].row = i]
  /\ UNCHANGED <<sourceVars, files, crashes>>

\* The unique key is taken, the row is gone, or the database stays locked.
WriteError(t) ==
  /\ Waits(t, "purge") \/ Waits(t, "commit")
  /\ End(t)
  /\ UNCHANGED <<sourceVars, rows, files, crashes>>

\* The artifact the caller would stream: of the row as it was found, or as
\* it is after the commit.
Asked(t) == IF Waits(t, "serve") THEN Hash(t) ELSE rows[thread[t].row]

Serve(t) ==
  /\ Waits(t, "serve") \/ Waits(t, "refresh")
  /\ Asked(t) # NoHash
  /\ target[Asked(t)] # NoFile
  /\ End(t)
  /\ UNCHANGED <<sourceVars, rows, files, crashes>>

\* 410: the artifact is gone, or its row is.
Unavailable(t) ==
  /\ Waits(t, "serve") \/ Waits(t, "refresh")
  /\ Asked(t) # NoHash => target[Asked(t)] = NoFile
  /\ End(t)
  /\ UNCHANGED <<sourceVars, rows, files, crashes>>

Generate(t) ==
  \/ Request(t)
  \/ \E i \in Ids : LookupHit(t, i) \/ LookupStale(t, i)
  \/ LookupNone(t) \/ Purge(t) \/ Stage(t)
  \/ Render(t) \/ RenderFails(t) \/ Open(t) \/ CloseOutput(t) \/ WriteFails(t)
  \/ Verify(t) \/ VerifyFails(t) \/ Publish(t) \/ PublishFails(t)
  \/ Unlink(t) \/ UnlinkFailed(t) \/ Retire(t)
  \/ \E i \in Ids : CommitRow(t, i)
  \/ WriteError(t) \/ Serve(t) \/ Unavailable(t)

Maintenance == \E h \in Hashes : Sweep(h) \/ Evict(h)

RepresentationNext ==
  \/ \E h \in Hashes : Replace(h)
  \/ Scan \/ Maintenance \/ Crash
  \/ \E t \in Threads : Generate(t)

RepresentationSpec == RepresentationInit /\ [][RepresentationNext]_representationVars

-----------------------------------------------------------------------------
(* Properties.                                                             *)

\* No reader is given a partially written artifact, whatever was killed or
\* swept before: what the staging and the rename are for.
ServedIsWhole ==
  [][\A t \in Threads : Serve(t) => Whole(target[Asked(t)])]_representationVars

\* A thread that ends, however it ends, leaves no staging file behind: only
\* a killed server does.
NoStagingLeft ==
  crashes = 0 =>
    \A h \in Hashes : tmp[h] # NoFile =>
      \E t \in Threads :
        /\ thread[t].hash = h
        /\ thread[t].at \in {"write", "verify", "publish", "unlink", "unlinkFailed"}

\* Generation repairs the table rather than adding to it: with one thread at
\* a time a book has one row, and never rows of superseded sources.
OneRow == Cardinality(Used) <= 1
=============================================================================
