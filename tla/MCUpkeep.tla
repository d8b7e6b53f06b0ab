------------------------------- MODULE MCUpkeep -------------------------------
(***************************************************************************)
(* What keeps the library in order, for TLC: the scan, the candidates for  *)
(* a book's metadata, the upkeep of the artifact cache, the migrations of  *)
(* the schema, and the X4 optimizer.  They share no variable and no step,  *)
(* so that one run checks each of them by itself: "part" says which one is *)
(* at work.                                                                *)
(***************************************************************************)
EXTENDS LibraryScan, MatchReview, CacheEviction, SchemaMigrations, X4Rendering, TLC

CONSTANTS
  Parts,        \* the parts to check
  pa, pb, pc, A, AB, v1, v2, v3, h1, h2, h3, small, large, novel,   \* of the scan
  w1, w2, l1, l2, isbn1, isbn2, title1, author1, author2,     \* of the candidates
  e1, e2                                              \* of the optimizer

VARIABLE part

vars == <<scanVars, matchVars, cacheVars, migrationVars, x4Vars, part>>

\* Two folders, "A" and "AB": the path of a file in the second begins with
\* the first.  Two files can be in "A" and one in "AB".  Versions v1 and v2
\* have one title and look alike, the metadata of v3 cannot be read; two paths
\* may hold copies of one version.  A link in "AB" leads to the second file of "A".
MCFolderOf == (pa :> A) @@ (pb :> A) @@ (pc :> AB)
MCUnder == (A :> {pa, pb, pc}) @@ (AB :> {pc})
MCLinks == {<<AB, pb>>}
MCLookOf == (v1 :> small) @@ (v2 :> small) @@ (v3 :> large)
MCHashOf == (v1 :> h1) @@ (v2 :> h2) @@ (v3 :> h3)
MCTitleOf == (h1 :> novel) @@ (h2 :> novel) @@ (h3 :> Unreadable)

\* Two volumes of one title, by different authors; the book has the ISBN of
\* one of them or none, and its author is known or not.
MCVolumeOf ==
  (w1 :> [isbns |-> {isbn1}, title |-> title1, authors |-> {author1}]) @@
  (w2 :> [isbns |-> {isbn2}, title |-> title1, authors |-> {author2}])
MCFacts ==
  [isbn : {isbn1, NoIsbn}, title : {title1}, authors : {{author1}}] \cup
  [isbn : {NoIsbn}, title : {title1}, authors : {{}}]

\* All packages of up to two items, and spines of one or both ids.
MCEditions ==
  [members : [ItemMembers -> {"absent", "source"}],
   items : UNION {[1..n -> Item] : n \in 0..2},
   spine : {<<e1>>, <<e1, e2>>, <<e2, e1>>}]

\* Two lookups, jobs or processes are alike; and, exchanged together, two
\* versions of one title and look with their hashes, two artifacts, and two
\* books.  The parts have no step in common, so that one exchange serves several
\* of them.
Exchanged(pairs) ==
  [x \in UNION pairs |-> CHOOSE y \in UNION {pair \in pairs : x \in pair} : y # x]
Doers == {Lookups, Upkeepers, Migrators}
Things == {{v1, v2}, {h1, h2}, Artifacts, Catalog}
Alike == {Exchanged(UNION kinds) : kinds \in SUBSET {Doers, Things}}

\* The disk that a scan starts from is of no interest to the others; on it
\* "AB" has only its link.
Init ==
  /\ part \in Parts
  /\ ScanInit /\ MatchInit /\ CacheInit /\ MigrationInit /\ X4Init
  /\ IF part = "scan" THEN disk[pc] = Nothing ELSE OnDisk = {}

Next ==
  /\ UNCHANGED part
  /\ \/ /\ part = "scan" /\ ScanNext
        /\ UNCHANGED <<matchVars, cacheVars, migrationVars, x4Vars>>
     \/ /\ part = "match" /\ MatchNext
        /\ UNCHANGED <<scanVars, cacheVars, migrationVars, x4Vars>>
     \/ /\ part = "cache" /\ CacheNext
        /\ UNCHANGED <<scanVars, matchVars, migrationVars, x4Vars>>
     \/ /\ part = "migrations" /\ MigrationNext
        /\ UNCHANGED <<scanVars, matchVars, cacheVars, x4Vars>>
     \/ /\ part = "x4" /\ X4Next
        /\ UNCHANGED <<scanVars, matchVars, cacheVars, migrationVars>>

Spec == Init /\ [][Next]_vars

\* The type invariants of the five modules.
TypeOK ==
  ScanTypeOK /\ MatchTypeOK /\ CacheTypeOK /\ MigrationTypeOK /\ X4TypeOK
=============================================================================
