----------------------------- MODULE Progression -----------------------------
(***************************************************************************)
(* services/progression.py, the single writer of reading progress, behind  *)
(* the PUT handlers of api/progress.py and api/opds.py.                    *)
(*                                                                         *)
(* Handlers run in a thread pool, each with a session of its own.  A       *)
(* request SELECTs the record, compares timestamps with what it read, and  *)
(* then inserts the record or updates it: two steps, and nothing locks the *)
(* row between them.  The UPDATE sets the timestamp, and of the other      *)
(* columns those whose new value differs from the one the session read.    *)
(*                                                                         *)
(* The locator columns (progression, href, fragment, title) are one column *)
(* "pos" here, the two device columns one column "dev".                    *)
(***************************************************************************)
EXTENDS Integers

CONSTANTS
  Keys,         \* (user, book) pairs
  Requests,     \* threads that serve PUT requests
  Positions,    \* locators
  Devices,      \* sync clients
  Times,        \* timestamps, of client clocks or of the server's
  Serial,       \* the keys whose requests do not overlap: those of one client
  NoRecord, NoKey

ASSUME ProgressAssumption ==
  /\ Times \subseteq Nat
  /\ Serial \subseteq Keys
  /\ NoKey \notin Keys
  /\ NoRecord \notin [pos : Positions, dev : Devices, at : Times]

VARIABLES
  row,          \* reading_progress: the record of each key, or NoRecord
  phase,        \* of each request: "idle", "insert" or "update"
  key,          \* the key it is for
  want,         \* the record it carries
  snap,         \* the record it has read
  created       \* how many requests were answered CREATED, by key

progressionVars == <<row, phase, key, want, snap, created>>

Records == [pos : Positions, dev : Devices, at : Times]

ProgressionTypeOK ==
  /\ row \in [Keys -> Records \cup {NoRecord}]
  /\ phase \in [Requests -> {"idle", "insert", "update"}]
  /\ key \in [Requests -> Keys \cup {NoKey}]
  /\ want \in [Requests -> Records \cup {NoRecord}]
  /\ snap \in [Requests -> Records \cup {NoRecord}]
  /\ created \in [Keys -> Nat]

ProgressionInit ==
  /\ row = [k \in Keys |-> NoRecord]
  /\ phase = [r \in Requests |-> "idle"]
  /\ key = [r \in Requests |-> NoKey]
  /\ want = [r \in Requests |-> NoRecord]
  /\ snap = [r \in Requests |-> NoRecord]
  /\ created = [k \in Keys |-> 0]

MayBegin(r, k) ==
  /\ phase[r] = "idle"
  /\ k \in Serial => \A q \in Requests : phase[q] = "idle" \/ key[q] # k

\* Mutant of Older: timestamps are not compared.
NeverOlder(u, v) == FALSE

Older(u, v) == u.at < v.at

Hold(r, k, u, next) ==
  /\ phase' = [phase EXCEPT ![r] = next]
  /\ key' = [key EXCEPT ![r] = k]
  /\ want' = [want EXCEPT ![r] = u]
  /\ snap' = [snap EXCEPT ![r] = row[k]]

\* The request is answered, its session closed.
Answer(r) ==
  /\ phase' = [phase EXCEPT ![r] = "idle"]
  /\ key' = [key EXCEPT ![r] = NoKey]
  /\ want' = [want EXCEPT ![r] = NoRecord]
  /\ snap' = [snap EXCEPT ![r] = NoRecord]

\* A request arrives and reads its key's record: there is none,
AskFirst(r, k, u) ==
  /\ MayBegin(r, k)
  /\ row[k] = NoRecord
  /\ Hold(r, k, u, "insert")
  /\ UNCHANGED <<row, created>>

\* or one that is not newer than the update,
AskNewer(r, k, u) ==
  /\ MayBegin(r, k)
  /\ row[k] # NoRecord
  /\ ~Older(u, row[k])
  /\ Hold(r, k, u, "update")
  /\ UNCHANGED <<row, created>>

\* or a newer one: CONFLICT, at once.
AskConflict(r, k, u) ==
  /\ MayBegin(r, k)
  /\ row[k] # NoRecord
  /\ Older(u, row[k])
  /\ UNCHANGED progressionVars

\* Mutant of Insert: the table has no unique constraint.
InsertUnconstrained(r) ==
  /\ phase[r] = "insert"
  /\ row' = [row EXCEPT ![key[r]] = want[r]]
  /\ created' = [created EXCEPT ![key[r]] = @ + 1]
  /\ Answer(r)

Insert(r) ==
  /\ phase[r] = "insert"
  /\ row[key[r]] = NoRecord
  /\ row' = [row EXCEPT ![key[r]] = want[r]]
  /\ created' = [created EXCEPT ![key[r]] = @ + 1]
  /\ Answer(r)

\* The unique constraint on (user, book): another request inserted first.
InsertRefused(r) ==
  /\ phase[r] = "insert"
  /\ row[key[r]] # NoRecord
  /\ Answer(r)
  /\ UNCHANGED <<row, created>>

\* Mutants of Merge: the device columns are forgotten, the timestamp is
\* rounded up.
MergeKeepsDevice(stored, before, u) ==
  [pos |-> IF u.pos = before.pos THEN stored.pos ELSE u.pos,
   dev |-> stored.dev,
   at  |-> u.at]

MergeRoundsUp(stored, before, u) ==
  [pos |-> IF u.pos = before.pos THEN stored.pos ELSE u.pos,
   dev |-> IF u.dev = before.dev THEN stored.dev ELSE u.dev,
   at  |-> u.at + 1]

\* What an UPDATE from a session that read "before" makes of the stored
\* record.
Merge(stored, before, u) ==
  [pos |-> IF u.pos = before.pos THEN stored.pos ELSE u.pos,
   dev |-> IF u.dev = before.dev THEN stored.dev ELSE u.dev,
   at  |-> u.at]

Update(r) ==
  /\ phase[r] = "update"
  /\ row' = [row EXCEPT ![key[r]] = Merge(@, snap[r], want[r])]
  /\ Answer(r)
  /\ UNCHANGED created

\* The write meets a lock for longer than the busy timeout.
WriteError(r) ==
  /\ phase[r] \in {"insert", "update"}
  /\ Answer(r)
  /\ UNCHANGED <<row, created>>

Ask(r) ==
  \E k \in Keys, u \in Records :
    AskFirst(r, k, u) \/ AskNewer(r, k, u) \/ AskConflict(r, k, u)

ProgressionNext ==
  \E r \in Requests :
    Ask(r) \/ Insert(r) \/ InsertRefused(r) \/ Update(r) \/ WriteError(r)

ProgressionSpec == ProgressionInit /\ [][ProgressionNext]_progressionVars

-----------------------------------------------------------------------------
(* Properties.                                                             *)

\* The stored timestamp of a record never goes back.  Of two requests that
\* overlap, the older one may commit last.
TimestampsMonotone ==
  [][\A k \in Keys : row[k] # NoRecord =>
       row'[k] # NoRecord /\ row[k].at <= row'[k].at]_progressionVars

\* A request that writes over the very record it read leaves its own record
\* whole, and not an older one: whatever goes wrong takes an overlap.
FreshWriteIsWhole ==
  [][\A r \in Requests :
       phase[r] = "update" /\ row'[key[r]] # row[key[r]] /\ phase'[r] = "idle"
         /\ snap[r] = row[key[r]]
       => row'[key[r]] = want[r] /\ row[key[r]].at <= want[r].at]_progressionVars

\* A record is created once, however many first writes race: a second
\* CREATED would mean that one device's record silently replaced another's.
CreatedOnce ==
  \A k \in Keys : created[k] = (IF row[k] = NoRecord THEN 0 ELSE 1)

SerialRow == [k \in Serial |-> row[k]]

Register == INSTANCE ProgressRegister WITH Keys <- Serial, row <- SerialRow

\* The records of the keys whose requests do not overlap implement the
\* register, whatever happens to the others.
ImplementsRegister == Register!RegisterSpec
=============================================================================
