--------------------------- MODULE SchemaMigrations ---------------------------
(***************************************************************************)
(* The schema migrations: the three revisions in migrations/versions, run  *)
(* by Alembic (migrations/env.py), at every start of the server and of a   *)
(* command (run_migrations of db.py) or by hand.                           *)
(*                                                                         *)
(* SQLite's driver commits each statement that changes the schema as it    *)
(* comes; from the first statement on that changes rows there is a         *)
(* transaction, which the stamp of the revision ends.  A process may be    *)
(* killed between any two statements, and another may migrate beside it.   *)
(***************************************************************************)
EXTENDS Naturals, Sequences, SequencesExt

CONSTANTS
  Migrators,    \* processes
  Catalog       \* books that may be in the catalog

VARIABLES
  schema,       \* the tables there are, and those that have their indexes
  stamped,      \* alembic_version, 0 for none
  seeded,       \* whether metadata_sources has its rows
  catalog,      \* the books in the database
  indexed,      \* the rows of books_fts
  torn,         \* whether a downgrade was ever broken off, or begun on what
                \* a broken upgrade left
  migrator      \* the local state of each process

migrationVars == <<schema, stamped, seeded, catalog, indexed, torn, migrator>>

Revisions == 1..3

-----------------------------------------------------------------------------
(* The revisions.                                                          *)

\* The tables in the order of the initial schema: those that refer to none,
RootTables == <<"authors", "jobs", "libraries", "metadata_sources", "series", "users">>

\* those that refer to these,
OwnedTables == <<"books", "collections", "sessions">>

\* and those about books.
BookTables == <<"book_authors", "book_files", "book_identifiers", "collection_books",
                "metadata_matches", "reading_progress", "representations">>

InitialTables == RootTables \o OwnedTables \o BookTables

\* The tables of a revision, in the order in which it creates them.
TablesOf(r) ==
  CASE r = 1 -> InitialTables
    [] r = 2 -> <<"metadata_provenance">>
    [] r = 3 -> <<"books_fts">>

Unindexed == {"libraries", "metadata_sources", "book_authors", "collection_books", "books_fts"}

\* The foreign keys.
References(table) ==
  CASE table = "books" -> {"libraries", "series"}
    [] table \in {"collections", "sessions"} -> {"users"}
    [] table = "book_authors" -> {"books", "authors"}
    [] table \in {"book_files", "book_identifiers", "representations"} -> {"books"}
    [] table = "collection_books" -> {"collections", "books"}
    [] table \in {"metadata_matches", "metadata_provenance"} -> {"books", "metadata_sources"}
    [] table = "reading_progress" -> {"users", "books"}
    [] OTHER -> {}

Part(table, part) == [table |-> table, part |-> part]
PartsIn(table) ==
  IF table \in Unindexed THEN <<Part(table, "rows")>>
  ELSE <<Part(table, "rows"), Part(table, "indexes")>>

\* The statements of a revision that change the schema.
Statements(r) == FlattenSeq([k \in DOMAIN TablesOf(r) |-> PartsIn(TablesOf(r)[k])])

\* Mutant of Undoing: in the order in which they were done.
UndoingForward(r) == Statements(r)

\* Going down they are undone in reverse.
Undoing(r) == Reverse(Statements(r))

SchemaOf(r) == UNION {Range(Statements(q)) : q \in 1..r}
HeadSchema == SchemaOf(3)
LongestRevision == Len(Statements(1))

\* No statement comes twice, and each comes after those that create the
\* tables it refers to; the first revision has the most.
ASSUME RevisionsOrdered ==
  /\ \A r \in Revisions :
       /\ Statements(r) \in Seq(Range(Statements(r))) /\ IsInjective(Statements(r))
       /\ Len(Statements(r)) <= LongestRevision
       /\ \A k \in DOMAIN Statements(r) : \A table \in References(Statements(r)[k].table) :
            Part(table, "rows") \in SchemaOf(r - 1) \cup {Statements(r)[j] : j \in 1..(k - 1)}
  /\ \A q, r \in Revisions : q # r => Range(Statements(q)) \cap Range(Statements(r)) = {}

MigrationTypeOK ==
  /\ schema \subseteq HeadSchema
  /\ stamped \in 0..3
  /\ {seeded, torn} \subseteq BOOLEAN
  /\ catalog \subseteq Catalog /\ indexed \subseteq Catalog
  /\ migrator \in [Migrators -> [at : {"idle", "up", "down"}, revision : 0..3, step : 0..(LongestRevision + 1)]]

Resting == [at |-> "idle", revision |-> 0, step |-> 0]

MigrationInit ==
  /\ schema = {} /\ stamped = 0 /\ seeded = FALSE /\ torn = FALSE
  /\ catalog = {} /\ indexed = {}
  /\ migrator = [p \in Migrators |-> Resting]

-----------------------------------------------------------------------------
(* Alembic.                                                                *)

Becomes(p, local) == migrator' = [migrator EXCEPT ![p] = local]
GoingDown == \E p \in Migrators : migrator[p].at = "down"
AllRest == \A p \in Migrators : migrator[p] = Resting

\* The stamp is read once; the revisions above it follow one another.
BeginUpgrade(p) ==
  /\ migrator[p] = Resting
  /\ stamped < 3 /\ ~GoingDown
  /\ Becomes(p, [at |-> "up", revision |-> stamped + 1, step |-> 1])
  /\ UNCHANGED <<schema, stamped, seeded, catalog, indexed, torn>>

\* A table that is there already ends it with an error.
CreateNext(p) ==
  LET run == migrator[p] IN
  /\ run.at = "up" /\ run.step <= Len(Statements(run.revision))
  /\ IF Statements(run.revision)[run.step] \in schema
     THEN Becomes(p, Resting) /\ UNCHANGED schema
     ELSE /\ schema' = schema \cup {Statements(run.revision)[run.step]}
          /\ Becomes(p, [run EXCEPT !.step = @ + 1])
  /\ UNCHANGED <<stamped, seeded, catalog, indexed, torn>>

\* The rows a revision inserts and its stamp are one transaction.  The stamp
\* must be the one before, or there is an error.
CommitRevision(p) ==
  LET run == migrator[p] IN
  /\ run.at = "up" /\ run.step > Len(Statements(run.revision))
  /\ IF stamped # run.revision - 1
     THEN Becomes(p, Resting) /\ UNCHANGED <<stamped, seeded, indexed>>
     ELSE /\ stamped' = run.revision
          /\ seeded' = (seeded \/ run.revision = 2)
          /\ indexed' = IF run.revision = 3 THEN catalog ELSE indexed
          /\ Becomes(p, IF run.revision = 3 THEN Resting
                        ELSE [run EXCEPT !.revision = @ + 1, !.step = 1])
  /\ UNCHANGED <<schema, catalog, torn>>

\* `alembic downgrade -1` by hand; nothing else is started meanwhile.
BeginDowngrade(p) ==
  /\ AllRest
  /\ stamped > 0
  /\ Becomes(p, [at |-> "down", revision |-> stamped, step |-> 1])
  /\ torn' = (torn \/ schema # SchemaOf(stamped))
  /\ UNCHANGED <<schema, stamped, seeded, catalog, indexed>>

\* An index or a table that is not there ends it with an error, but for
\* books_fts.
DropNext(p) ==
  LET run == migrator[p]
      part == Undoing(run.revision)[run.step]
  IN
  /\ run.at = "down" /\ run.step <= Len(Undoing(run.revision))
  /\ IF part \notin schema /\ part.table # "books_fts"
     THEN Becomes(p, Resting) /\ torn' = TRUE /\ UNCHANGED <<schema, catalog, indexed>>
     ELSE /\ schema' = schema \ {part}
          /\ catalog' = IF part = Part("books", "rows") THEN {} ELSE catalog
          /\ indexed' = IF part.table = "books_fts" THEN {} ELSE indexed
          /\ Becomes(p, [run EXCEPT !.step = @ + 1])
          /\ UNCHANGED torn
  /\ UNCHANGED <<stamped, seeded>>

CommitDowngrade(p) ==
  LET run == migrator[p] IN
  /\ run.at = "down" /\ run.step > Len(Undoing(run.revision))
  /\ stamped' = run.revision - 1
  /\ seeded' = (seeded /\ run.revision = 3)
  /\ Becomes(p, Resting)
  /\ UNCHANGED <<schema, catalog, indexed, torn>>

\* The process is killed.
KillMigrator(p) ==
  /\ migrator[p] # Resting
  /\ torn' = (torn \/ migrator[p].at = "down")
  /\ Becomes(p, Resting)
  /\ UNCHANGED <<schema, stamped, seeded, catalog, indexed>>

\* The release that goes with the stamp adds a book, once it has migrated.
AddBook(b) ==
  /\ AllRest /\ ~torn
  /\ stamped > 0
  /\ b \notin catalog
  /\ schema = SchemaOf(stamped)
  /\ catalog' = catalog \cup {b}
  /\ indexed' = IF stamped = 3 THEN indexed \cup {b} ELSE indexed
  /\ UNCHANGED <<schema, stamped, seeded, torn, migrator>>

MigrationNext ==
  \/ \E p \in Migrators :
       \/ BeginUpgrade(p) \/ CreateNext(p) \/ CommitRevision(p)
       \/ BeginDowngrade(p) \/ DropNext(p) \/ CommitDowngrade(p) \/ KillMigrator(p)
  \/ \E b \in Catalog : AddBook(b)

MigrationSpec == MigrationInit /\ [][MigrationNext]_migrationVars

-----------------------------------------------------------------------------
(* Properties.                                                             *)

\* Whatever processes are killed and however two of them overlap, a database
\* that is stamped with a revision has all of its tables, indexes and rows,
\* the index of all books with the last of them, and no table refers to one
\* that is missing: a server that has migrated can rely on the schema.  (A
\* downgrade drops tables before it changes the stamp: one that is broken
\* off leaves less than the stamp says.)
StampedIsWhole ==
  torn \/
    /\ GoingDown \/ SchemaOf(stamped) \subseteq schema
    /\ stamped >= 2 => seeded
    /\ stamped = 3 /\ ~GoingDown => indexed = catalog
    /\ \A part \in schema : \A table \in References(part.table) : Part(table, "rows") \in schema
=============================================================================
