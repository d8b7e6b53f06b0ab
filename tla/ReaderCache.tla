------------------------------ MODULE ReaderCache ------------------------------
(***************************************************************************)
(* The in-memory cache of parsed EPUB packages (services/reader.py) under  *)
(* the server's request threads, and the chapter and resource requests of  *)
(* the web reader that use it (web/views.py), while the owner of the       *)
(* library replaces files.                                                 *)
(*                                                                         *)
(* A request stats the file, takes the structure from the cache or parses  *)
(* the file, and then opens the file again for the chapter: three looks at *)
(* the disk.  The cache is an OrderedDict without a lock: each of its      *)
(* methods is atomic, a sequence of them is not.                           *)
(*                                                                         *)
(* What lies at a path is a version, 0 if nothing does.  A version stands  *)
(* for the file's identity, its mtime in nanoseconds and its size; the     *)
(* owner never puts back an earlier one.                                   *)
(***************************************************************************)
EXTENDS Integers, Sequences, SequencesExt

CONSTANTS
  Books,        \* the paths of the EPUB files
  NoBook,
  Readers,      \* request threads
  Capacity,     \* _CHUNK_CAPACITY
  Unsound,      \* the versions that are no readable EPUB
  MaxVersion    \* bound: how often a file is put in place

ASSUME ReaderAssumption ==
  /\ Capacity \in Nat \ {0} /\ MaxVersion \in Nat
  /\ Unsound \subseteq 1..MaxVersion
  /\ NoBook \notin Books

VARIABLES
  disk,         \* the version at each path
  latest,       \* the version put in place last
  cache,        \* OrderedDict: key and structure of each entry, the oldest first
  thread        \* the local state of each request

readerVars == <<disk, latest, cache, thread>>

Version == 0..MaxVersion

\* "shape" is the version of the file whose structure the thread holds;
\* "steady" says that the file has stayed the same since the request began.
Request == [at : {"rest", "stat", "get", "touch", "parse", "store", "trim", "pop", "open", "read"},
            book : Books \cup {NoBook}, page : BOOLEAN,
            key : Version, shape : Version, fresh : BOOLEAN, steady : BOOLEAN]
Rest == [at |-> "rest", book |-> NoBook, page |-> FALSE, key |-> 0, shape |-> 0,
         fresh |-> FALSE, steady |-> TRUE]

Entry == [book : Books, key : Version, shape : Version]

ReaderTypeOK ==
  /\ disk \in [Books -> Version] /\ latest \in Version
  /\ cache \in Seq(Entry)
  /\ thread \in [Readers -> Request]

ReaderInit ==
  /\ disk = [b \in Books |-> 0] /\ latest = 0
  /\ cache = <<>>
  /\ thread = [t \in Readers |-> Rest]

Waiting(t, point) == thread[t].at = point
Go(t, local) == thread' = [thread EXCEPT ![t] = local]
On(t, point) == Go(t, [thread[t] EXCEPT !.at = point])

\* The request is answered, with what it asked for or with an error.
Reply(t) == Go(t, Rest)

-----------------------------------------------------------------------------
(* The owner of the library.                                               *)

\* A file is put in place, or taken away.
Place(b, v) ==
  /\ latest < MaxVersion
  /\ disk[b] # v
  /\ latest' = latest + 1
  /\ disk' = [disk EXCEPT ![b] = v]
  /\ thread' = [t \in Readers |->
                  IF thread[t].book = b THEN [thread[t] EXCEPT !.steady = FALSE] ELSE thread[t]]
  /\ UNCHANGED <<cache>>

-----------------------------------------------------------------------------
(* get_reader.                                                             *)

Holds(i, b, v) == cache[i].book = b /\ cache[i].key = v
Cached(b, v) == \E i \in DOMAIN cache : Holds(i, b, v)

\* A request for the reader's page or for a chapter, _open_reader having
\* found the file there.
Open(t, b, page) ==
  /\ Waiting(t, "rest")
  /\ disk[b] # 0
  /\ Go(t, [Rest EXCEPT !.at = "stat", !.book = b, !.page = page])
  /\ UNCHANGED <<disk, latest, cache>>

KeyedByPath(b) == 1         \* mutant of KeyOf: the key is the path alone
KeyOf(b) == disk[b]

\* The identity of the file is taken; an OSError makes it unavailable.
Stat(t) ==
  /\ Waiting(t, "stat")
  /\ IF disk[thread[t].book] = 0
     THEN Reply(t)
     ELSE Go(t, [thread[t] EXCEPT !.at = "get", !.key = KeyOf(thread[t].book)])
  /\ UNCHANGED <<disk, latest, cache>>

Get(t) ==
  LET mine == {i \in DOMAIN cache : Holds(i, thread[t].book, thread[t].key)} IN
  /\ Waiting(t, "get")
  /\ IF mine = {} THEN On(t, "parse")
     ELSE \E i \in mine : Go(t, [thread[t] EXCEPT !.at = "touch", !.shape = cache[i].shape])
  /\ UNCHANGED <<disk, latest, cache>>

\* move_to_end, after a hit and after storing.  Another thread may have
\* evicted the entry in between: a KeyError, which nobody catches.
Touch(t) ==
  /\ Waiting(t, "touch")
  /\ IF Cached(thread[t].book, thread[t].key)
     THEN \E i \in DOMAIN cache :
            /\ Holds(i, thread[t].book, thread[t].key)
            /\ cache' = Append(RemoveAt(cache, i), cache[i])
            /\ On(t, IF thread[t].fresh THEN "trim" ELSE "open")
     ELSE Reply(t) /\ UNCHANGED cache
  /\ UNCHANGED <<disk, latest>>

\* _parse opens the file: what lies there now, not what was stat'ed.
Parse(t) ==
  LET v == disk[thread[t].book] IN
  /\ Waiting(t, "parse")
  /\ IF v \in {0} \cup Unsound
     THEN Reply(t)
     ELSE Go(t, [thread[t] EXCEPT !.at = "store", !.shape = v])
  /\ UNCHANGED <<disk, latest, cache>>

\* The assignment keeps the place of an entry that another thread has made.
Store(t) ==
  LET mine == [book |-> thread[t].book, key |-> thread[t].key, shape |-> thread[t].shape] IN
  /\ Waiting(t, "store")
  /\ cache' = IF Cached(mine.book, mine.key)
              THEN [i \in DOMAIN cache |-> IF Holds(i, mine.book, mine.key) THEN mine ELSE cache[i]]
              ELSE Append(cache, mine)
  /\ Go(t, [thread[t] EXCEPT !.at = "touch", !.fresh = TRUE])
  /\ UNCHANGED <<disk, latest>>

\* The head of the loop that trims the cache, and its body.
Trim(t) ==
  /\ Waiting(t, "trim")
  /\ On(t, IF Len(cache) > Capacity THEN "pop" ELSE "open")
  /\ UNCHANGED <<disk, latest, cache>>

Pop(t) ==
  /\ Waiting(t, "pop")
  /\ IF cache = <<>> THEN Reply(t) /\ UNCHANGED cache
     ELSE cache' = Tail(cache) /\ On(t, "trim")
  /\ UNCHANGED <<disk, latest>>

-----------------------------------------------------------------------------
(* The rest of the request.                                                *)

\* The page is rendered from the structure; for a chapter the handler looks
\* once more whether the file is there.
Serve(t) ==
  /\ Waiting(t, "open")
  /\ IF thread[t].page THEN Reply(t)
     ELSE IF disk[thread[t].book] = 0 THEN Reply(t)
     ELSE On(t, "read")
  /\ UNCHANGED <<disk, latest, cache>>

\* chapter_document and resource open the file again.  If by now there is
\* none, or no archive, that is an error the handlers do not catch; if it
\* lacks the member, as another version than the one parsed may, the answer
\* is 404.
Read(t) ==
  /\ Waiting(t, "read")
  /\ Reply(t)
  /\ UNCHANGED <<disk, latest, cache>>

ReaderNext ==
  \/ \E b \in Books : Place(b, latest + 1) \/ Place(b, 0)
  \/ \E t \in Readers :
       \/ \E b \in Books, page \in BOOLEAN : Open(t, b, page)
       \/ Stat(t) \/ Get(t) \/ Touch(t) \/ Parse(t) \/ Store(t) \/ Trim(t) \/ Pop(t)
       \/ Serve(t) \/ Read(t)

ReaderSpec == ReaderInit /\ [][ReaderNext]_readerVars

-----------------------------------------------------------------------------
(* Properties.                                                             *)

\* A chapter of a file that stays in place during the request is looked up in
\* the structure of that very file, whatever other requests have cached, for
\* whatever version, before or meanwhile.
ServedConsistent ==
  \A t \in Readers :
    Waiting(t, "read") /\ thread[t].steady => thread[t].shape = disk[thread[t].book]
=============================================================================
