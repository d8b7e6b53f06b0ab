------------------------ MODULE RepresentationProofs ------------------------
(***************************************************************************)
(* Proofs about the generated artifacts of a book, for any contents of its *)
(* source, threads, row numbers and numbers of crashes.  Types and staging *)
(* hold however many threads generate; that a book keeps one row and that  *)
(* what is served is whole are shown for threads that take turns, and fail *)
(* without it.                                                             *)
(***************************************************************************)
EXTENDS RepresentationCache, FiniteSetTheorems, TLAPS

-----------------------------------------------------------------------------
(* Type correctness.                                                       *)

\* A thread that generates has read the source hash, and its content before
\* it opens the file it writes it to.
HasSource ==
  \A t \in Threads :
    /\ ~Waits(t, "idle") => Hash(t) \in Hashes
    /\ Waits(t, "open") \/ Waits(t, "write") => thread[t].src \in Hashes

CacheTyped == RepresentationTypeOK /\ HasSource

Names == {"tmp", "target", "gone"}

\* A renaming takes a name to a name.
LEMMA MovesTyped ==
  /\ Removed("tmp") \in [Names -> Names]
  /\ Removed("target") \in [Names -> Names]
  /\ Renamed \in [Names -> Names]
<1>1. Renamed \in [Names -> Names]
  BY DEF Renamed, Names
<1> QED
  BY <1>1 DEF Removed, Names

\* Going to a point keeps a thread's locals typed.
LEMMA GotoTyped ==
  ASSUME CacheTyped, NEW t \in Threads, NEW point \in Points, Goto(t, point),
         ~Waits(t, "idle"),
         point \in {"open", "write"} => Waits(t, "open") \/ Waits(t, "write")
  PROVE  thread' \in [Threads -> Generation] /\ HasSource'
<1> USE DEF CacheTyped, RepresentationTypeOK
<1>1. thread' = [thread EXCEPT ![t] = [thread[t] EXCEPT !.at = point]]
  BY DEF Goto
<1>2. [thread[t] EXCEPT !.at = point] \in Generation
  BY DEF Generation
<1>3. HasSource'
  BY <1>1 DEF HasSource, Waits, Hash, Generation
<1> QED
  BY <1>1, <1>2, <1>3

\* A renaming or removal of files changes where threads write, nothing else.
LEMMA FollowKeeps ==
  ASSUME CacheTyped, NEW t, NEW point, NEW h, NEW move, Follow(t, point, h, move),
         NEW u \in Threads
  PROVE  /\ thread'[u].at = (IF u = t THEN point ELSE thread[u].at)
         /\ thread'[u].out =
              (IF Waits(u, "write") /\ Hash(u) = h THEN move[thread[u].out] ELSE thread[u].out)
         /\ thread'[u].hash = thread[u].hash /\ thread'[u].src = thread[u].src
         /\ thread'[u].row = thread[u].row /\ thread'[u].old = thread[u].old
<1> DEFINE a == IF u = t THEN point ELSE thread[u].at
           o == IF Waits(u, "write") /\ Hash(u) = h THEN move[thread[u].out] ELSE thread[u].out
<1>1. thread'[u] = [thread[u] EXCEPT !.at = a, !.out = o]
  BY DEF Follow
<1> HIDE DEF a, o
<1>2. /\ thread'[u].at = a /\ thread'[u].out = o
      /\ thread'[u].hash = thread[u].hash /\ thread'[u].src = thread[u].src
      /\ thread'[u].row = thread[u].row /\ thread'[u].old = thread[u].old
  BY <1>1 DEF CacheTyped, RepresentationTypeOK, Generation
<1> QED
  BY <1>2 DEF a, o

\* Following a file to its new name keeps a thread's locals typed.
LEMMA FollowTyped ==
  ASSUME CacheTyped, NEW t, NEW point \in Points, NEW h, NEW move \in [Names -> Names],
         Follow(t, point, h, move),
         t \in Threads => ~Waits(t, "idle"),
         point \notin {"open", "write"}
  PROVE  thread' \in [Threads -> Generation] /\ HasSource'
<1> USE DEF CacheTyped, RepresentationTypeOK
<1>1. ASSUME NEW u \in Threads
      PROVE  /\ thread'[u] \in Generation
             /\ thread'[u].at = (IF u = t THEN point ELSE thread[u].at)
             /\ thread'[u].hash = thread[u].hash /\ thread'[u].src = thread[u].src
  <2> DEFINE a == IF u = t THEN point ELSE thread[u].at
             o == IF Waits(u, "write") /\ Hash(u) = h THEN move[thread[u].out] ELSE thread[u].out
  <2>1. thread'[u] = [thread[u] EXCEPT !.at = a, !.out = o]
    BY DEF Follow
  <2>2. thread[u] \in Generation
    OBVIOUS
  <2>3. a \in Points /\ o \in Names
    BY <2>2 DEF Generation, Names
  <2> HIDE DEF a, o
  <2>4. thread'[u] \in Generation
    BY <2>1, <2>2, <2>3 DEF Generation, Names
  <2> QED
    BY <2>4, FollowKeeps
<1>2. thread' \in [Threads -> Generation]
  <2>1. thread' = [u \in Threads |-> thread'[u]]
    BY DEF Follow
  <2> QED
    BY <1>1, <2>1
<1>3. HasSource'
  BY <1>1 DEF HasSource, Waits, Hash
<1> QED
  BY <1>2, <1>3

\* So does a thread's end.
LEMMA EndTyped ==
  ASSUME CacheTyped, NEW t \in Threads, thread' = [thread EXCEPT ![t] = Resting]
  PROVE  thread' \in [Threads -> Generation] /\ HasSource'
<1>1. Resting \in Generation /\ Resting.at = "idle"
  BY DEF Resting, Generation, Points
<1> QED
  BY <1>1 DEF CacheTyped, RepresentationTypeOK, HasSource, Waits, Hash

\* The cache starts empty.
LEMMA CacheTypedInit == RepresentationInit => CacheTyped
<1>1. Resting \in Generation /\ Resting.at = "idle"
  BY DEF Resting, Generation, Points
<1> QED
  BY <1>1, CacheAssumption DEF RepresentationInit, CacheTyped, RepresentationTypeOK, HasSource,
     Waits, Hash

\* No step of a thread takes a variable out of its type.
LEMMA CacheTypedThread ==
  ASSUME CacheTyped, NEW t \in Threads, Generate(t)
  PROVE  CacheTyped'
<1> USE DEF CacheTyped, RepresentationTypeOK, sourceVars, files
<1>1. thread[t] \in Generation /\ (~Waits(t, "idle") => Hash(t) \in Hashes)
  BY DEF HasSource
<1>2. CASE Request(t)
  <2>1. thread' = [thread EXCEPT ![t] = [thread[t] EXCEPT !.at = "lookup", !.hash = known]]
    BY <1>2 DEF Request
  <2>2. [thread[t] EXCEPT !.at = "lookup", !.hash = known] \in Generation
    BY <1>1 DEF Generation, Points
  <2>3. HasSource'
    BY <2>1, <1>1 DEF HasSource, Waits, Hash, Generation
  <2> QED
    BY <1>2, <2>1, <2>2, <2>3 DEF Request
<1>3. CASE \E i \in Ids : LookupHit(t, i)
  BY <1>3, GotoTyped DEF LookupHit, Points, Waits
<1>4. ASSUME NEW i \in Ids, LookupStale(t, i) PROVE CacheTyped'
  <2>1. thread' = [thread EXCEPT ![t] =
                     [thread[t] EXCEPT !.at = "purge", !.row = i, !.old = rows[i]]]
    BY <1>4 DEF LookupStale
  <2>2. [thread[t] EXCEPT !.at = "purge", !.row = i, !.old = rows[i]] \in Generation
    BY <1>1 DEF Generation, Points
  <2>3. HasSource'
    BY <2>1, <1>1, <1>4 DEF HasSource, Waits, Hash, Generation, LookupStale
  <2> QED
    BY <1>4, <2>1, <2>2, <2>3 DEF LookupStale
<1>5. CASE LookupNone(t)
  BY <1>5, GotoTyped DEF LookupNone, Points, Waits
<1>6. CASE Purge(t)
  BY <1>6, GotoTyped DEF Purge, Points, Waits
<1>7. CASE Stage(t)
  BY <1>7, GotoTyped DEF Stage, Record, Points, Waits
<1>8. CASE Render(t)
  <2>1. thread' = [thread EXCEPT ![t] = [thread[t] EXCEPT !.at = "open", !.src = disk]]
    BY <1>8 DEF Render
  <2>2. [thread[t] EXCEPT !.at = "open", !.src = disk] \in Generation
    BY <1>1 DEF Generation, Points
  <2>3. HasSource'
    BY <2>1, <1>1, <1>8 DEF HasSource, Waits, Hash, Generation, Render
  <2> QED
    BY <1>8, <2>1, <2>2, <2>3 DEF Render
<1>9. CASE RenderFails(t) \/ Verify(t) \/ VerifyFails(t) \/ PublishFails(t)
  BY <1>9, GotoTyped DEF RenderFails, Verify, VerifyFails, PublishFails, Points, Waits
<1>10. CASE Open(t)
  <2>1. /\ thread' = [thread EXCEPT ![t] = [thread[t] EXCEPT !.at = "write", !.out = "tmp"]]
        /\ Waits(t, "open") /\ UNCHANGED <<sourceVars, rows, target, holder, crashes>>
        /\ \E of \in {thread[t].src, Mixed} : tmp' = [tmp EXCEPT ![Hash(t)] = [of |-> of, by |-> t]]
    BY <1>10 DEF Open
  <2>2. [thread[t] EXCEPT !.at = "write", !.out = "tmp"] \in Generation
    BY <1>1 DEF Generation, Points
  <2>3. HasSource'
    BY <2>1, <1>1 DEF HasSource, Waits, Hash, Generation
  <2>4. \A of \in {thread[t].src, Mixed} : [of |-> of, by |-> t] \in Files
    BY <2>1 DEF HasSource, Files
  <2>5. tmp' \in [Hashes -> Files \cup {NoFile}]
    BY <2>1, <2>4
  <2> QED
    BY <2>1, <2>2, <2>3, <2>5
<1>11. CASE CloseOutput(t)
  <2>1. /\ thread' = [thread EXCEPT ![t] = [thread[t] EXCEPT !.at = "verify", !.out = "gone"]]
        /\ Waits(t, "write") /\ UNCHANGED <<sourceVars, rows, holder, crashes>>
    BY <1>11 DEF CloseOutput
  <2>2. [thread[t] EXCEPT !.at = "verify", !.out = "gone"] \in Generation
    BY <1>1 DEF Generation, Points
  <2>3. HasSource'
    BY <2>1, <1>1 DEF HasSource, Waits, Hash, Generation
  <2>4. \A f \in Files \cup {NoFile} : Closed(f, t) \in Files \cup {NoFile}
    BY DEF Closed, Files
  <2>5. tmp' \in [Hashes -> Files \cup {NoFile}] /\ target' \in [Hashes -> Files \cup {NoFile}]
    BY <1>1, <1>11, <2>1, <2>4 DEF CloseOutput, Waits
  <2> QED
    BY <2>1, <2>2, <2>3, <2>5
<1>12. CASE WriteFails(t)
  <2>1. thread' = [thread EXCEPT ![t] = [thread[t] EXCEPT !.at = "unlinkFailed", !.out = "gone"]]
    BY <1>12 DEF WriteFails
  <2>2. [thread[t] EXCEPT !.at = "unlinkFailed", !.out = "gone"] \in Generation
    BY <1>1 DEF Generation, Points
  <2>3. HasSource'
    BY <2>1, <1>1, <1>12 DEF HasSource, Waits, Hash, Generation, WriteFails
  <2> QED
    BY <1>12, <2>1, <2>2, <2>3 DEF WriteFails
<1>13. CASE Publish(t)
  <2>1. thread' \in [Threads -> Generation] /\ HasSource'
    BY <1>13, FollowTyped, MovesTyped DEF Publish, Points, Waits
  <2>2. tmp' \in [Hashes -> Files \cup {NoFile}] /\ target' \in [Hashes -> Files \cup {NoFile}]
    BY <1>1, <1>13 DEF Publish, Waits
  <2> QED
    BY <1>13, <2>1, <2>2 DEF Publish
<1>14. CASE Unlink(t)
  <2>1. Record(t) \in Points /\ Record(t) \notin {"open", "write"}
    BY DEF Record, Points
  <2>2. thread' \in [Threads -> Generation] /\ HasSource'
    BY <1>14, <2>1, FollowTyped, MovesTyped DEF Unlink, Waits
  <2> QED
    BY <1>14, <2>2 DEF Unlink
<1>15. CASE UnlinkFailed(t)
  <2> DEFINE moved(u) == IF Waits(u, "write") /\ Hash(u) = Hash(t) THEN Removed("tmp")[thread[u].out]
                         ELSE thread[u].out
  <2>1. thread' = [u \in Threads |-> IF u = t THEN Resting ELSE [thread[u] EXCEPT !.out = moved(u)]]
    BY <1>15 DEF UnlinkFailed
  <2>2. \A u \in Threads : moved(u) \in Names
    BY MovesTyped DEF Generation, Names
  <2>3. Resting \in Generation /\ Resting.at = "idle"
    BY DEF Resting, Generation, Points
  <2> HIDE DEF moved
  <2>4. thread' \in [Threads -> Generation]
    BY <2>1, <2>2, <2>3, ZenonT(40) DEF Generation, Names
  <2>5. HasSource'
    BY <2>1, <2>3 DEF HasSource, Waits, Hash, Generation
  <2>6. holder' \in Threads \cup {NoThread} /\ tmp' \in [Hashes -> Files \cup {NoFile}]
    BY <1>15 DEF UnlinkFailed
  <2> QED
    BY <1>15, <2>4, <2>5, <2>6 DEF UnlinkFailed
<1>16. CASE Retire(t)
  <2>1. thread' \in [Threads -> Generation] /\ HasSource'
    BY <1>16, FollowTyped, MovesTyped DEF Retire, Points, Waits
  <2> QED
    BY <1>16, <2>1 DEF Retire
<1>17. ASSUME NEW i \in Ids, CommitRow(t, i) PROVE CacheTyped'
  <2>1. /\ thread' = [thread EXCEPT ![t] = [thread[t] EXCEPT !.at = "refresh", !.row = i]]
        /\ Waits(t, "commit") /\ holder' = NoThread /\ UNCHANGED <<sourceVars, files, crashes>>
    BY <1>17 DEF CommitRow
  <2>2. [thread[t] EXCEPT !.at = "refresh", !.row = i] \in Generation
    BY <1>1 DEF Generation, Points
  <2>3. HasSource'
    BY <2>1, <1>1 DEF HasSource, Waits, Hash, Generation
  <2>4. rows' \in [Ids -> Hashes \cup {NoHash}]
    BY <1>1, <1>17, <2>1 DEF CommitRow, Waits
  <2> QED
    BY <2>1, <2>2, <2>3, <2>4
<1>18. CASE WriteError(t) \/ Serve(t) \/ Unavailable(t)
  <2>1. End(t) /\ UNCHANGED <<sourceVars, rows, files, crashes>>
    BY <1>18 DEF WriteError, Serve, Unavailable
  <2> QED
    BY <2>1, EndTyped DEF End
<1> QED
  BY <1>2, <1>3, <1>4, <1>5, <1>6, <1>7, <1>8, <1>9, <1>10, <1>11, <1>12, <1>13, <1>14, <1>15,
     <1>16, <1>17, <1>18 DEF Generate

\* Nor does the library, the maintenance of the cache or a crash.
LEMMA CacheTypedOther ==
  ASSUME CacheTyped,
         (\E h \in Hashes : Replace(h)) \/ Scan \/ Maintenance \/ Crash
         \/ UNCHANGED representationVars
  PROVE  CacheTyped'
<1> USE CacheAssumption DEF CacheTyped, RepresentationTypeOK, sourceVars, files
<1>1. CASE (\E h \in Hashes : Replace(h)) \/ Scan \/ UNCHANGED representationVars
  BY <1>1 DEF Replace, Scan, representationVars, HasSource, Waits, Hash
<1>2. ASSUME NEW h \in Hashes, Sweep(h) \/ Evict(h) PROVE CacheTyped'
  <2>1. thread' \in [Threads -> Generation] /\ HasSource'
    BY <1>2, FollowTyped, MovesTyped DEF Sweep, Evict, Points
  <2> QED
    BY <1>2, <2>1 DEF Sweep, Evict
<1>3. CASE Crash
  <2>1. Resting \in Generation /\ Resting.at = "idle"
    BY DEF Resting, Generation, Points
  <2> QED
    BY <1>3, <2>1 DEF Crash, HasSource, Waits, Hash
<1> QED
  BY <1>1, <1>2, <1>3 DEF Maintenance

\* Types are kept in every behaviour, with overlapping threads too.
LEMMA CacheTypedHolds == RepresentationSpec => []CacheTyped
<1>1. CacheTyped /\ [RepresentationNext]_representationVars => CacheTyped'
  BY CacheTypedThread, CacheTypedOther DEF RepresentationNext
<1> QED
  BY <1>1, CacheTypedInit, PTL DEF RepresentationSpec

\* Every variable keeps its type in every behaviour of the cache.
THEOREM CacheTypeCorrect == RepresentationSpec => []RepresentationTypeOK
  BY CacheTypedHolds, PTL DEF CacheTyped

-----------------------------------------------------------------------------
(* Staging files.                                                          *)

Staging == {"write", "verify", "publish", "unlink", "unlinkFailed"}

\* Every staging file of a server that was never killed has a thread that
\* will remove it, or rename it and then remove what is there by then.
NothingLeft ==
  crashes = 0 =>
    \A h \in Hashes : tmp[h] # NoFile =>
      \E t \in Threads : thread[t].hash = h /\ thread[t].at \in Staging

\* A thread's step: the staging file of a source hash is there only if it
\* was, or if the thread has just opened it; and a thread that leaves the
\* points of staging leaves no file of its hash.
LEMMA StagingStep ==
  ASSUME CacheTyped, NEW t \in Threads, Generate(t)
  PROVE  /\ \A u \in Threads : u # t => /\ thread'[u].at = thread[u].at
                                       /\ thread'[u].hash = thread[u].hash
         /\ \A h \in Hashes : tmp'[h] # NoFile =>
              \/ tmp[h] # NoFile /\ ~(thread[t].hash = h /\ thread[t].at \in Staging)
              \/ thread'[t].hash = h /\ thread'[t].at \in Staging
         /\ crashes' = crashes
<1> USE DEF CacheTyped, RepresentationTypeOK, Generation, files, Staging, Waits, Hash
<1>1. CASE Request(t) \/ (\E i \in Ids : LookupHit(t, i) \/ LookupStale(t, i)) \/ LookupNone(t)
  BY <1>1 DEF Request, LookupHit, LookupStale, LookupNone, Goto
<1>2. CASE Purge(t) \/ Stage(t) \/ Render(t) \/ RenderFails(t)
  BY <1>2 DEF Purge, Stage, Render, RenderFails, Goto
<1>3. CASE Open(t)
  <2>1. /\ thread' = [thread EXCEPT ![t].at = "write", ![t].out = "tmp"]
        /\ \A h \in Hashes : h # Hash(t) => tmp'[h] = tmp[h]
        /\ thread[t].at = "open" /\ crashes' = crashes
    BY <1>3 DEF Open
  <2> QED
    BY <2>1
<1>4. CASE CloseOutput(t) \/ WriteFails(t)
  <2>1. \A h \in Hashes : h # Hash(t) => tmp'[h] = tmp[h]
    BY <1>4 DEF CloseOutput, WriteFails
  <2> QED
    BY <1>4, <2>1 DEF CloseOutput, WriteFails
<1>5. CASE Verify(t) \/ VerifyFails(t) \/ PublishFails(t)
  BY <1>5 DEF Verify, VerifyFails, PublishFails, Goto
<1>6. CASE Publish(t) \/ Unlink(t)
  BY <1>6, FollowKeeps DEF Publish, Unlink
<1>7. CASE UnlinkFailed(t)
  BY <1>7 DEF UnlinkFailed, Resting
<1>8. CASE Retire(t) \/ (\E i \in Ids : CommitRow(t, i))
  BY <1>8, FollowKeeps DEF Retire, CommitRow
<1>9. CASE WriteError(t) \/ Serve(t) \/ Unavailable(t)
  BY <1>9 DEF WriteError, Serve, Unavailable, End
<1> QED
  BY <1>1, <1>2, <1>3, <1>4, <1>5, <1>6, <1>7, <1>8, <1>9 DEF Generate

\* However many threads generate at a time, and whoever's file each of them
\* removes, none ends with a staging file of its source left behind.
THEOREM StagingCleared == RepresentationSpec => []NoStagingLeft
<1>1. RepresentationInit => NothingLeft
  BY DEF RepresentationInit, NothingLeft
<1>2. CacheTyped /\ NothingLeft /\ [RepresentationNext]_representationVars => NothingLeft'
  <2> SUFFICES ASSUME CacheTyped, NothingLeft, [RepresentationNext]_representationVars,
                      crashes' = 0, NEW h \in Hashes,
                      tmp'[h] # NoFile
               PROVE  \E t \in Threads : thread'[t].hash = h /\ thread'[t].at \in Staging
    BY DEF NothingLeft
  <2> USE DEF CacheTyped, RepresentationTypeOK
  <2>1. ASSUME NEW t \in Threads, Generate(t)
        PROVE  \E u \in Threads : thread'[u].hash = h /\ thread'[u].at \in Staging
    BY <2>1, StagingStep DEF NothingLeft
  <2>2. CASE (\E g \in Hashes : Replace(g)) \/ Scan \/ UNCHANGED representationVars
    BY <2>2 DEF NothingLeft, Replace, Scan, representationVars, files
  <2>3. CASE Maintenance
    <3>1. /\ tmp[h] # NoFile /\ crashes = 0
          /\ \A u \in Threads : thread'[u].hash = thread[u].hash /\ thread'[u].at = thread[u].at
      BY <2>3, CacheAssumption, FollowKeeps DEF Maintenance, Sweep, Evict
    <3> QED
      BY <3>1 DEF NothingLeft
  <2>4. CASE Crash
    BY <2>4 DEF Crash
  <2> QED
    BY <2>1, <2>2, <2>3, <2>4 DEF RepresentationNext
<1>3. NothingLeft => NoStagingLeft
  BY DEF NothingLeft, NoStagingLeft, Staging
<1> QED
  BY <1>1, <1>2, <1>3, CacheTypedHolds, PTL DEF RepresentationSpec

-----------------------------------------------------------------------------
(* Threads that take turns.  This is the inductive invariant they keep;     *)
(* two threads at a time break every part of it.                            *)

OneThread == \A t, u \in Threads : ~Waits(t, "idle") /\ ~Waits(u, "idle") => t = u

\* The staging file of a thread that writes is the one it opened, unless it
\* was swept away; what it verifies and publishes, it has closed.
Staged(t) ==
  /\ Waits(t, "write") =>
       \/ /\ thread[t].out = "tmp"
          /\ tmp[Hash(t)] = [of |-> thread[t].src, by |-> t]
       \/ /\ thread[t].out = "gone"
          /\ tmp[Hash(t)] = NoFile
  /\ (Waits(t, "verify") \/ Waits(t, "publish")) =>
       (tmp[Hash(t)] # NoFile => Whole(tmp[Hash(t)]))

\* The points between the deletion of the superseded rows and the commit.
Purged == {"stage", "render", "open", "write", "verify", "publish", "unlink", "unlinkFailed",
           "retire", "commit"}

\* The superseded rows are deleted in the thread's open transaction, or there
\* were none; after the commit the thread knows its row.
Tidy(t) ==
  /\ thread[t].at \in Purged => holder = t \/ Superseded(t) = {}
  /\ Waits(t, "refresh") => thread[t].row \in Ids

TargetsWhole == \A h \in Hashes : target[h] # NoFile => Whole(target[h])

SoleRow == \A i, k \in Used : i = k

TurnsInv ==
  /\ CacheTyped
  /\ OneThread
  /\ \A t \in Threads : Staged(t) /\ Tidy(t)
  /\ TargetsWhole
  /\ SoleRow

\* While one thread takes a step, every other one is idle.
LEMMA OthersIdle ==
  ASSUME ~Overlap, TurnsInv, NEW t \in Threads, Generate(t), NEW u \in Threads, u # t
  PROVE  Waits(u, "idle") /\ Waits(u, "idle")'
<1>1. Waits(u, "idle")
  <2>1. CASE Request(t)
    BY <2>1 DEF Request
  <2>2. CASE ~Request(t)
    <3>1. ~Waits(t, "idle")
      BY <2>2 DEF Generate, LookupHit, LookupStale, LookupNone, Purge, Stage, Render, RenderFails,
                  Open, CloseOutput, WriteFails, Verify, VerifyFails, Publish, PublishFails, Unlink,
                  UnlinkFailed, Retire, CommitRow, WriteError, Serve, Unavailable, Waits
    <3> QED
      BY <3>1 DEF TurnsInv, OneThread
  <2> QED
    BY <2>1, <2>2
<1> QED
  BY <1>1, StagingStep DEF TurnsInv, Waits

\* So a step keeps the invariant if it keeps the parts about its thread and
\* about the table and the artifacts.
LEMMA TurnsOneThread ==
  ASSUME ~Overlap, TurnsInv, NEW t \in Threads, Generate(t),
         Staged(t)', Tidy(t)', TargetsWhole', SoleRow'
  PROVE  TurnsInv'
<1>1. CacheTyped'
  BY CacheTypedThread DEF TurnsInv
<1>2. \A u \in Threads : u # t => Waits(u, "idle")'
  BY OthersIdle
<1>3. OneThread'
  BY <1>2 DEF OneThread
<1>4. \A u \in Threads : u # t => Staged(u)' /\ Tidy(u)'
  BY <1>2 DEF Staged, Tidy, Waits, Purged
<1> QED
  BY <1>1, <1>3, <1>4 DEF TurnsInv

\* Steps that leave the table, the files and the lock as they are.
LEMMA TurnsQuiet ==
  ASSUME ~Overlap, TurnsInv, NEW t \in Threads, Generate(t),
         \/ Request(t) \/ (\E i \in Ids : LookupHit(t, i) \/ LookupStale(t, i)) \/ LookupNone(t)
         \/ Stage(t) \/ Render(t) \/ RenderFails(t) \/ WriteFails(t)
         \/ Verify(t) \/ VerifyFails(t) \/ PublishFails(t)
  PROVE  TurnsInv'
<1> USE DEF TurnsInv, CacheTyped, RepresentationTypeOK, Generation, files
<1>1. UNCHANGED <<rows, tmp, target, holder>>
  BY DEF Request, LookupHit, LookupStale, LookupNone, Stage, Render, RenderFails, WriteFails,
         Verify, VerifyFails, PublishFails
<1>2. /\ thread'[t].at \in {"open", "render", "unlinkFailed", "publish", "retire", "commit"} =>
           thread[t].at \in Purged /\ thread'[t].row = thread[t].row
      /\ thread'[t].at \notin {"stage", "write", "verify", "unlink", "refresh"}
      /\ thread'[t].at = "publish" => Waits(t, "verify") /\ thread'[t].hash = thread[t].hash
  <2> USE DEF Goto, Waits, Purged
  <2>1. CASE Request(t) \/ (\E i \in Ids : LookupHit(t, i) \/ LookupStale(t, i)) \/ LookupNone(t)
    <3>1. thread[t] \in Generation
      OBVIOUS
    <3>2. Request(t) => thread'[t].at = "lookup"
      BY <3>1 DEF Request
    <3>3. (\E i \in Ids : LookupHit(t, i)) => thread'[t].at = "serve"
      BY <3>1 DEF LookupHit
    <3>4. LookupNone(t) => thread'[t].at = "purge"
      BY <3>1 DEF LookupNone
    <3>5. ASSUME NEW i \in Ids, LookupStale(t, i) PROVE thread'[t].at = "purge"
      <4>1. thread' = [thread EXCEPT ![t] = [thread[t] EXCEPT !.at = "purge", !.row = i, !.old = rows[i]]]
        BY <3>5 DEF LookupStale
      <4> QED
        BY <3>1, <4>1 DEF Generation
    <3> QED
      BY <2>1, <3>2, <3>3, <3>4, <3>5
  <2>2. CASE Stage(t) \/ Render(t) \/ RenderFails(t) \/ WriteFails(t)
    BY <2>2 DEF Stage, Record, Render, RenderFails, WriteFails
  <2>3. CASE Verify(t) \/ VerifyFails(t) \/ PublishFails(t)
    BY <2>3 DEF Verify, VerifyFails, PublishFails
  <2> QED
    BY <2>1, <2>2, <2>3
<1>3. Staged(t)' /\ Tidy(t)'
  BY <1>1, <1>2 DEF Staged, Tidy, Waits, Hash, Whole, Purged, Superseded, Used
<1>4. TargetsWhole' /\ SoleRow'
  BY <1>1 DEF TargetsWhole, SoleRow, Used
<1> QED
  BY <1>3, <1>4, TurnsOneThread

\* Steps that write the staging file or the artifact.
LEMMA TurnsFiles ==
  ASSUME ~Overlap, TurnsInv, NEW t \in Threads, Generate(t),
         Open(t) \/ CloseOutput(t) \/ Publish(t) \/ Unlink(t) \/ UnlinkFailed(t) \/ Retire(t)
  PROVE  TurnsInv'
<1> USE DEF TurnsInv, CacheTyped, RepresentationTypeOK, files
<1>1. /\ thread[t] \in Generation /\ t \in Threads /\ t # NoThread
      /\ ~Waits(t, "idle") => Hash(t) \in Hashes
      /\ Staged(t) /\ Tidy(t)
  BY CacheAssumption DEF HasSource
<1>2. CASE Open(t)
  <2>1. \A u \in Threads : ~Waits(u, "write")
    BY <1>2, OthersIdle DEF Open, Waits
  <2>2. /\ tmp' = [tmp EXCEPT ![Hash(t)] = [of |-> thread[t].src, by |-> t]]
        /\ thread' = [thread EXCEPT ![t] = [thread[t] EXCEPT !.at = "write", !.out = "tmp"]]
        /\ Waits(t, "open") /\ UNCHANGED <<rows, target, holder>>
    BY <1>2, <2>1 DEF Open
  <2>3. /\ thread'[t].at = "write" /\ thread'[t].out = "tmp" /\ thread'[t].row = thread[t].row
        /\ thread'[t].hash = thread[t].hash /\ thread'[t].src = thread[t].src
    BY <1>1, <2>2 DEF Generation
  <2>4. Staged(t)'
    BY <1>1, <2>2, <2>3 DEF Staged, Waits, Hash
  <2>5. Tidy(t)' /\ TargetsWhole' /\ SoleRow'
    BY <1>1, <2>2, <2>3 DEF Tidy, Purged, Waits, Superseded, Used, TargetsWhole, SoleRow
  <2> QED
    BY <2>4, <2>5, TurnsOneThread
<1>3. CASE CloseOutput(t)
  <2>1. /\ thread' = [thread EXCEPT ![t] = [thread[t] EXCEPT !.at = "verify", !.out = "gone"]]
        /\ Waits(t, "write") /\ UNCHANGED <<rows, holder>>
    BY <1>3 DEF CloseOutput
  <2>2. /\ thread'[t].at = "verify" /\ thread'[t].row = thread[t].row
        /\ thread'[t].hash = thread[t].hash
    BY <1>1, <2>1 DEF Generation
  <2>3. thread[t].src \in Hashes
    BY <2>1 DEF HasSource
  <2>4. UNCHANGED target /\ (tmp'[Hash(t)] # NoFile => Whole(tmp'[Hash(t)]))
    <3>1. CASE thread[t].out = "tmp"
      <4>1. tmp'[Hash(t)] = Closed(tmp[Hash(t)], t) /\ UNCHANGED target
        BY <1>1, <1>3, <2>1, <3>1 DEF CloseOutput, Waits
      <4>2. tmp[Hash(t)] = [of |-> thread[t].src, by |-> t]
        BY <1>1, <2>1, <3>1 DEF Staged
      <4>3. tmp[Hash(t)] # NoFile
        BY <2>3, <4>2, CacheAssumption DEF Files
      <4>4. Closed(tmp[Hash(t)], t) = [of |-> thread[t].src, by |-> NoThread]
        BY <4>2, <4>3 DEF Closed
      <4> QED
        BY <2>3, <4>1, <4>4, CacheAssumption DEF Whole
    <3>2. CASE thread[t].out # "tmp"
      <4>1. thread[t].out = "gone" /\ tmp[Hash(t)] = NoFile
        BY <1>1, <2>1, <3>2 DEF Staged
      <4> QED
        BY <1>3, <4>1 DEF CloseOutput
    <3> QED
      BY <3>1, <3>2
  <2>5. Staged(t)'
    BY <2>2, <2>4 DEF Staged, Waits, Hash, Whole
  <2>6. Tidy(t)' /\ TargetsWhole' /\ SoleRow'
    BY <1>1, <2>1, <2>2, <2>4 DEF Tidy, Purged, Waits, Superseded, Used, TargetsWhole, SoleRow
  <2> QED
    BY <2>5, <2>6, TurnsOneThread
<1>4. CASE Publish(t)
  <2>1. /\ target' = [target EXCEPT ![Hash(t)] = tmp[Hash(t)]]
        /\ Whole(tmp[Hash(t)])
        /\ Waits(t, "publish") /\ UNCHANGED <<rows, holder>>
    BY <1>1, <1>4 DEF Publish, Staged
  <2>2. thread'[t].at = "unlink" /\ thread'[t].row = thread[t].row
    BY <1>4, FollowKeeps DEF Publish
  <2>3. TargetsWhole'
    BY <1>1, <2>1 DEF TargetsWhole, Whole
  <2>4. Staged(t)' /\ Tidy(t)' /\ SoleRow'
    BY <1>1, <2>1, <2>2 DEF Staged, Tidy, Purged, Waits, Superseded, Used, SoleRow
  <2> QED
    BY <2>3, <2>4, TurnsOneThread
<1>5. CASE Unlink(t)
  <2>1. Waits(t, "unlink") /\ UNCHANGED <<rows, holder, target>>
    BY <1>5 DEF Unlink
  <2>2. thread'[t].at \in {"commit", "retire"} /\ thread'[t].row = thread[t].row
    BY <1>5, FollowKeeps DEF Unlink, Record
  <2>3. Staged(t)' /\ Tidy(t)' /\ SoleRow' /\ TargetsWhole'
    BY <1>1, <2>1, <2>2 DEF Staged, Tidy, Purged, Waits, Superseded, Used, SoleRow, TargetsWhole
  <2> QED
    BY <2>3, TurnsOneThread
<1>6. CASE UnlinkFailed(t)
  <2>1. UNCHANGED <<rows, target>> /\ thread'[t].at = "idle"
    BY <1>6 DEF UnlinkFailed, Resting
  <2>2. Staged(t)' /\ Tidy(t)' /\ SoleRow' /\ TargetsWhole'
    BY <2>1 DEF Staged, Tidy, Purged, Waits, Used, SoleRow, TargetsWhole
  <2> QED
    BY <2>2, TurnsOneThread
<1>7. CASE Retire(t)
  <2>1. Waits(t, "retire") /\ UNCHANGED <<rows, holder>> /\ target' = [target EXCEPT ![thread[t].old] = NoFile]
    BY <1>7 DEF Retire
  <2>2. thread'[t].at = "commit" /\ thread'[t].row = thread[t].row
    BY <1>7, FollowKeeps DEF Retire
  <2>3. TargetsWhole'
    BY <2>1 DEF TargetsWhole, Whole
  <2>4. Staged(t)' /\ Tidy(t)' /\ SoleRow'
    BY <1>1, <2>1, <2>2 DEF Staged, Tidy, Purged, Waits, Superseded, Used, SoleRow
  <2> QED
    BY <2>3, <2>4, TurnsOneThread
<1> QED
  BY <1>2, <1>3, <1>4, <1>5, <1>6, <1>7

\* Steps of the session: the deletions, the commit, and its end.
LEMMA TurnsSession ==
  ASSUME ~Overlap, TurnsInv, NEW t \in Threads, Generate(t),
         \/ Purge(t) \/ (\E i \in Ids : CommitRow(t, i))
         \/ WriteError(t) \/ Serve(t) \/ Unavailable(t)
  PROVE  TurnsInv'
<1> USE DEF TurnsInv, CacheTyped, RepresentationTypeOK, files
<1>1. thread[t] \in Generation /\ t # NoThread /\ Tidy(t) /\ (~Waits(t, "idle") => Hash(t) \in Hashes)
  BY CacheAssumption DEF HasSource
<1>2. CASE Purge(t)
  <2>1. /\ UNCHANGED <<rows, tmp, target>>
        /\ thread'[t].at = "stage" /\ thread'[t].row = thread[t].row
        /\ holder' = t \/ Superseded(t) = {}
    BY <1>1, <1>2 DEF Purge, Goto, Generation
  <2>2. Staged(t)' /\ Tidy(t)' /\ SoleRow' /\ TargetsWhole'
    BY <2>1 DEF Staged, Tidy, Purged, Waits, Superseded, Used, SoleRow, TargetsWhole
  <2> QED
    BY <2>2, TurnsOneThread
<1>3. ASSUME NEW i \in Ids, CommitRow(t, i) PROVE TurnsInv'
  <2> DEFINE kept == IF holder = t THEN Used \cap {thread[t].row} ELSE Used
  <2>1. /\ thread' = [thread EXCEPT ![t] = [thread[t] EXCEPT !.at = "refresh", !.row = i]]
        /\ rows' = [k \in Ids |-> IF k = i THEN Hash(t) ELSE IF k \in kept THEN rows[k] ELSE NoHash]
        /\ Waits(t, "commit") /\ UNCHANGED <<tmp, target>>
        /\ IF thread[t].row = NoId THEN i \notin kept ELSE i = thread[t].row
    BY <1>3 DEF CommitRow
  <2>2. thread'[t].at = "refresh" /\ thread'[t].row = i
    BY <1>1, <2>1 DEF Generation
  <2>3. kept \subseteq {i}
    <3>1. holder = t \/ Superseded(t) = {}
      BY <1>1, <2>1 DEF Tidy, Waits, Purged
    <3>2. kept \subseteq {thread[t].row} /\ kept \subseteq Ids
      BY <3>1 DEF Superseded, Used
    <3> QED
      BY <2>1, <3>2, CacheAssumption
  <2>4. SoleRow'
    BY <2>1, <2>3 DEF SoleRow, Used
  <2>5. Staged(t)' /\ Tidy(t)' /\ TargetsWhole'
    BY <2>1, <2>2 DEF Staged, Tidy, Purged, Waits, TargetsWhole
  <2> QED
    BY <2>4, <2>5, TurnsOneThread
<1>4. CASE WriteError(t) \/ Serve(t) \/ Unavailable(t)
  <2>1. UNCHANGED <<rows, tmp, target>> /\ thread'[t].at = "idle"
    BY <1>4 DEF WriteError, Serve, Unavailable, End, Resting
  <2>2. Staged(t)' /\ Tidy(t)' /\ SoleRow' /\ TargetsWhole'
    BY <2>1 DEF Staged, Tidy, Purged, Waits, Used, SoleRow, TargetsWhole
  <2> QED
    BY <2>2, TurnsOneThread
<1> QED
  BY <1>2, <1>3, <1>4

\* A sweep or an eviction takes a file away from whoever writes it; a crash
\* takes the threads away from their files.
LEMMA TurnsOther ==
  ASSUME TurnsInv, (\E h \in Hashes : Replace(h)) \/ Scan \/ Maintenance \/ Crash
         \/ UNCHANGED representationVars
  PROVE  TurnsInv'
<1> USE DEF TurnsInv, CacheTyped, RepresentationTypeOK, files
<1>1. CacheTyped'
  BY CacheTypedOther
<1>2. CASE (\E h \in Hashes : Replace(h)) \/ Scan \/ UNCHANGED representationVars
  <2>1. UNCHANGED <<rows, tmp, target, holder, thread>>
    BY <1>2 DEF Replace, Scan, representationVars
  <2> QED
    BY <1>1, <2>1 DEF OneThread, Staged, Tidy, Waits, Hash, Whole, Superseded, Used,
           TargetsWhole, SoleRow
<1>3. ASSUME NEW h \in Hashes, Sweep(h) \/ Evict(h) PROVE TurnsInv'
  <2>1. /\ UNCHANGED <<rows, holder>>
        /\ \A g \in Hashes : target'[g] \in {target[g], NoFile}
    BY <1>3 DEF Sweep, Evict
  <2>2. \A u \in Threads : /\ thread'[u].at = thread[u].at /\ thread'[u].hash = thread[u].hash
                           /\ thread'[u].src = thread[u].src /\ thread'[u].row = thread[u].row
    BY <1>3, CacheAssumption, FollowKeeps DEF Sweep, Evict
  <2>3. OneThread' /\ SoleRow' /\ TargetsWhole'
    BY <2>1, <2>2 DEF OneThread, Waits, SoleRow, Used, TargetsWhole, Whole
  <2>4. \A u \in Threads : Tidy(u)'
    BY <2>1, <2>2 DEF Tidy, Waits, Superseded, Used
  <2>5. ASSUME NEW u \in Threads PROVE Staged(u)'
    <3>1. Staged(u) /\ (~Waits(u, "idle") => Hash(u) \in Hashes)
      BY DEF HasSource
    <3>2. CASE Sweep(h)
      <4>1. /\ tmp' = [tmp EXCEPT ![h] = NoFile]
            /\ thread'[u].out = (IF Waits(u, "write") /\ Hash(u) = h
                                   THEN Removed("tmp")[thread[u].out] ELSE thread[u].out)
        BY <3>2, FollowKeeps DEF Sweep
      <4>2. Removed("tmp")["tmp"] = "gone" /\ Removed("tmp")["gone"] = "gone"
        BY DEF Removed
      <4> QED
        BY <2>2, <3>1, <4>1, <4>2 DEF Staged, Waits, Hash, Whole
    <3>3. CASE Evict(h)
      <4>1. /\ tmp' = tmp
            /\ thread'[u].out = (IF Waits(u, "write") /\ Hash(u) = h
                                   THEN Removed("target")[thread[u].out] ELSE thread[u].out)
        BY <3>3, FollowKeeps DEF Evict
      <4>2. Removed("target")["tmp"] = "tmp" /\ Removed("target")["gone"] = "gone"
        BY DEF Removed
      <4> QED
        BY <2>2, <3>1, <4>1, <4>2 DEF Staged, Waits, Hash, Whole
    <3> QED
      BY <1>3, <3>2, <3>3
  <2> QED
    BY <1>1, <2>3, <2>4, <2>5
<1>4. CASE Crash
  <2>1. UNCHANGED <<rows, tmp, target>> /\ \A u \in Threads : thread'[u].at = "idle"
    BY <1>4 DEF Crash, Resting
  <2> QED
    BY <1>1, <2>1 DEF OneThread, Staged, Tidy, Purged, Waits, Used, TargetsWhole, SoleRow
<1> QED
  BY <1>2, <1>3, <1>4 DEF Maintenance

\* Threads that take turns keep the invariant.
LEMMA TurnsStep ==
  ASSUME ~Overlap
  PROVE  TurnsInv /\ [RepresentationNext]_representationVars => TurnsInv'
  BY TurnsQuiet, TurnsFiles, TurnsSession, TurnsOther DEF RepresentationNext, Generate

\* At first there are no artifacts, rows or threads at work.
LEMMA TurnsInit == RepresentationInit => TurnsInv
<1> SUFFICES ASSUME RepresentationInit PROVE TurnsInv
  OBVIOUS
<1>1. CacheTyped
  BY CacheTypedInit
<1>2. \A t \in Threads : thread[t].at = "idle"
  BY DEF RepresentationInit, Resting
<1> QED
  BY <1>1, <1>2 DEF RepresentationInit, TurnsInv, OneThread, Staged, Tidy, Purged,
     Waits, TargetsWhole, SoleRow, Used

\* A book has one row at most, whatever is replaced, swept, evicted or killed:
\* a thread that does not update the row it found deletes it.
THEOREM OneRowKept ==
  ASSUME ~Overlap
  PROVE  RepresentationSpec => []OneRow
<1>1. TurnsInv => OneRow
  <2> SUFFICES ASSUME TurnsInv PROVE OneRow
    OBVIOUS
  <2>1. CASE Used = {}
    BY <2>1, FS_EmptySet DEF OneRow
  <2>2. ASSUME NEW i \in Used PROVE OneRow
    <3>1. Used = {i}
      BY <2>2 DEF TurnsInv, SoleRow
    <3>2. Cardinality(Used) = 1
      BY <3>1, FS_Singleton
    <3> QED
      BY <3>2 DEF OneRow
  <2> QED
    BY <2>1, <2>2
<1>2. TurnsInv /\ [RepresentationNext]_representationVars => TurnsInv'
  BY TurnsStep
<1> QED
  BY <1>1, <1>2, TurnsInit, PTL DEF RepresentationSpec

\* ... and no reader is given a file that its writer had not closed, however
\* many writers were killed before.
THEOREM WholeServed ==
  ASSUME ~Overlap
  PROVE  RepresentationSpec => ServedIsWhole
<1>1. TurnsInv /\ [RepresentationNext]_representationVars =>
        [\A t \in Threads : Serve(t) => Whole(target[Asked(t)])]_representationVars
  <2> SUFFICES ASSUME TurnsInv, NEW t \in Threads, Serve(t)
               PROVE  Whole(target[Asked(t)])
    OBVIOUS
  <2> USE DEF TurnsInv, CacheTyped, RepresentationTypeOK
  <2>1. Asked(t) \in Hashes
    BY DEF Serve, Asked, Waits, HasSource, Tidy
  <2> QED
    BY <2>1 DEF Serve, TargetsWhole
<1>2. TurnsInv /\ [RepresentationNext]_representationVars => TurnsInv'
  BY TurnsStep
<1> QED
  BY <1>1, <1>2, TurnsInit, PTL DEF RepresentationSpec, ServedIsWhole
=============================================================================
