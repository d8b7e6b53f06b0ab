------------------------------- MODULE MCServing -------------------------------
(***************************************************************************)
(* What the server does on the readers' behalf, for TLC: accounts and      *)
(* sessions, the reader's cache, a reading session in the browser, the     *)
(* catalog feeds, and the record of reading progress.  The five share no   *)
(* variable and no step, so that one run checks each of them by itself:    *)
(* "part" says which one is at work.                                       *)
(***************************************************************************)
EXTENDS AuthSessions, ReaderCache, ReadingSession, CatalogFeed, Progression, TLC

CONSTANTS
  Parts,        \* the parts to check
  i1, i2, m1, m2

VARIABLE part

vars == <<authVars, readerVars, sessionVars, feedVars, progressionVars, part>>

\* All packages with two items, of which either may be no chapter, a spine
\* of up to three, and tables of contents of up to two entries.
MCPackages ==
  LET tocs == {<<>>, <<m1>>, <<m2, m1>>} IN
  [manifest : [Ids -> Members \cup {Nowhere}], spine : UNION {[1..n -> Ids] : n \in 1..3},
   nav : tocs, ncx : tocs]

\* Callers are interchangeable, and so are readers and requests; and, exchanged
\* together, tokens, books, and locators with devices.  The parts have no step
\* in common, so that one exchange serves several of them.
Exchanged(pairs) ==
  [x \in UNION pairs |-> CHOOSE y \in UNION {pair \in pairs : x \in pair} : y # x]
Doers == {Callers, Readers, Requests}
Things == {Tokens, Books, Positions}
Alike == {Exchanged(UNION kinds) : kinds \in SUBSET {Doers, Things}}

Init == part \in Parts /\ AuthInit /\ ReaderInit /\ SessionInit /\ FeedInit
        /\ ProgressionInit

Next ==
  /\ UNCHANGED part
  /\ \/ /\ part = "auth" /\ AuthNext
        /\ UNCHANGED <<readerVars, sessionVars, feedVars, progressionVars>>
     \/ /\ part = "cache" /\ ReaderNext
        /\ UNCHANGED <<authVars, sessionVars, feedVars, progressionVars>>
     \/ /\ part = "session" /\ SessionNext
        /\ UNCHANGED <<authVars, readerVars, feedVars, progressionVars>>
     \/ /\ part = "feed" /\ FeedNext
        /\ UNCHANGED <<authVars, readerVars, sessionVars, progressionVars>>
     \/ /\ part = "progress" /\ ProgressionNext
        /\ UNCHANGED <<authVars, readerVars, sessionVars, feedVars>>

Spec == Init /\ [][Next]_vars

\* The type invariants of the five modules.
TypeOK == AuthTypeOK /\ ReaderTypeOK /\ SessionTypeOK /\ FeedTypeOK /\ ProgressionTypeOK
=============================================================================
