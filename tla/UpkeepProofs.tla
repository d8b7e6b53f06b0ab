----------------------------- MODULE UpkeepProofs -----------------------------
(***************************************************************************)
(* Proofs about what keeps the library in order: the candidates for a      *)
(* book's metadata, for any provider, book, lookups and reviewers, the     *)
(* migrations of the schema, for any number of processes that migrate and  *)
(* are killed, and the X4 optimizer, for any packages; and about these     *)
(* together with the scan (ScanProofs) and the upkeep of the cache         *)
(* (EvictionProofs).                                                       *)
(***************************************************************************)
EXTENDS MCUpkeep, ScanProofs, EvictionProofs, FiniteSetTheorems

-----------------------------------------------------------------------------
(* The best candidate.                                                     *)

\* A score is a number of hundredths, and never a full one.
LEMMA ScoreBound ==
  ASSUME NEW query, NEW v
  PROVE  ScoreOf(query, v) \in Nat /\ ScoreOf(query, v) <= 95
BY DEF ScoreOf, TitleOnly

\* There is a best candidate, and none scores higher.
LEMMA BestIsBest ==
  ASSUME NEW query, NEW n \in Nat \ {0}, NEW found \in [1 .. n -> Volumes]
  PROVE  /\ Best(query, found) \in 1 .. n
         /\ \A j \in 1 .. n : ScoreOf(query, found[j]) <= ScoreOf(query, found[Best(query, found)])
<1> DEFINE score == [j \in 1 .. n |-> ScoreOf(query, found[j])]
<1>1. \A j \in 1 .. n : score[j] \in Nat /\ score[j] <= 95
  BY ScoreBound
<1>0. \A j \in 1 .. n : score[j] = ScoreOf(query, found[j])
  OBVIOUS
<1> HIDE DEF score
<1> DEFINE lacking == {95 - score[j] : j \in 1 .. n}
<1>2. PICK a \in lacking : \A b \in lacking : a <= b
  <2>1. ASSUME NEW j \in 1 .. n PROVE 95 - score[j] \in Nat
    <3>1. score[j] \in Nat /\ score[j] <= 95
      BY <1>1
    <3> QED
      BY <3>1
  <2>2. 95 - score[1] \in lacking
    OBVIOUS
  <2>3. lacking \subseteq Nat /\ lacking # {}
    BY <2>1, <2>2
  <2> HIDE DEF lacking
  <2> QED
    BY <2>3, LeastNatural
<1>3. PICK top \in 1 .. n : a = 95 - score[top]
  BY <1>2
<1>4. ASSUME NEW j \in 1 .. n PROVE score[j] <= score[top]
  <2>1. a <= 95 - score[j]
    BY <1>2
  <2> QED
    BY <2>1, <1>1, <1>3
<1> DEFINE first == {j \in 1 .. n : score[j] = score[top]}
<1>5. PICK k \in first : \A j \in first : k <= j
  <2>1. first \subseteq Nat /\ top \in first
    OBVIOUS
  <2> QED
    BY <2>1, LeastNatural
<1> DEFINE Ahead(i) == \A j \in 1 .. n : \/ score[j] < score[i]
                                         \/ score[j] = score[i] /\ i <= j
<1>6. k \in 1 .. n /\ Ahead(k)
  BY <1>1, <1>4, <1>5
<1> DEFINE best == Best(query, found)
           Chosen(i) == \A j \in 1 .. n : \/ ScoreOf(query, found[j]) < ScoreOf(query, found[i])
                                          \/ ScoreOf(query, found[j]) = ScoreOf(query, found[i]) /\ i <= j
<1>7. \A i \in 1 .. n : Ahead(i) <=> Chosen(i)
  BY <1>0
<1>8. best \in 1 .. n /\ Ahead(best)
  <2>1. DOMAIN found = 1 .. n
    OBVIOUS
  <2>2. best = CHOOSE i \in 1 .. n : Chosen(i)
    BY <2>1 DEF Best
  <2>3. best \in 1 .. n /\ Chosen(best)
    BY <1>6, <1>7, <2>2
  <2> QED
    BY <1>7, <2>3
<1>9. ASSUME NEW j \in 1 .. n PROVE score[j] <= score[best]
  <2>1. score[j] < score[best] \/ score[j] = score[best]
    BY <1>8
  <2>2. score[j] \in Nat /\ score[best] \in Nat
    BY <1>1, <1>8
  <2> HIDE DEF best, Ahead, Chosen
  <2> QED
    BY <2>1, <2>2
<1> HIDE DEF best
<1> QED
  BY <1>0, <1>8, <1>9 DEF best

\* What is accepted is one of the answer's volumes, none of which scores
\* higher; and it scores so high only by its ISBN, or by title and authors.
LEMMA AcceptedIsCertain ==
  ASSUME NEW query, NEW found \in Answers, NEW v \in Accepted(query, found)
  PROVE  /\ v \in Range(found)
         /\ \/ query.isbn \in VolumeOf[v].isbns
            \/ query.isbn = NoIsbn /\ query.authors # {} /\ query.title = VolumeOf[v].title
         /\ \A w \in Range(found) : ScoreOf(query, w) <= ScoreOf(query, v)
<1>1. PICK n \in 1 .. MaxFound : found \in [1 .. n -> Volumes]
  BY DEF Answers
<1>2. n \in Nat \ {0} /\ Range(found) = {found[j] : j \in 1 .. n}
  BY <1>1, MatchAssumption DEF Range
<1>3. v = found[Best(query, found)] /\ v \in Range(found) /\ ScoreOf(query, v) >= 70
  BY DEF Accepted, MinConfidence
<1>4. \A w \in Range(found) : ScoreOf(query, w) <= ScoreOf(query, v)
  BY <1>1, <1>2, <1>3, BestIsBest
<1>5. \/ query.isbn \in VolumeOf[v].isbns
      \/ query.isbn = NoIsbn /\ query.authors # {} /\ query.title = VolumeOf[v].title
  <2>1. CASE query.isbn # NoIsbn
    <3> DEFINE score == ScoreOf(query, v)
    <3>1. CASE query.isbn \notin VolumeOf[v].isbns
      <4>1. score = 5 \/ score = 20 \/ score = 50
        BY <2>1, <3>1 DEF ScoreOf
      <4>2. score >= 70
        BY <1>3
      <4> HIDE DEF score
      <4> QED
        BY <4>1, <4>2
    <3> QED
      BY <3>1
  <2>2. CASE query.isbn = NoIsbn /\ query.authors # {}
    BY <1>3, <2>2 DEF ScoreOf
  <2>3. CASE query.isbn = NoIsbn /\ query.authors = {}
    <3> DEFINE score == ScoreOf(query, v)
    <3>1. score = 0 \/ score = 25 \/ score = 50 \/ score = 60
      BY <2>3 DEF ScoreOf, TitleOnly
    <3>2. score >= 70
      BY <1>3
    <3> HIDE DEF score
    <3> QED
      BY <3>1, <3>2
  <2> QED
    BY <2>1, <2>2, <2>3
<1> QED
  BY <1>3, <1>4, <1>5

-----------------------------------------------------------------------------
(* The candidates' rows.                                                   *)

LookupRecord ==
  [at : {"idle", "load"}, accepted : SUBSET Volumes, todo : SUBSET Volumes,
   fresh : SUBSET Volumes, marked : SUBSET Nat, raced : BOOLEAN]

\* What the sessions have in hand.
LookupInHand ==
  /\ lookup \in [Lookups -> LookupRecord]
  /\ \A s \in Lookups : IsFiniteSet(lookup[s].todo) /\ IsFiniteSet(lookup[s].fresh)
  /\ review \in [Reviewers -> [row : Nat, status : MatchStatuses]]
  /\ \A r \in Reviewers : review[r] = NoReview \/ review[r].row \in DOMAIN matches

\* What a lookup found no row of has none still, until another lookup stores
\* its candidates.
FreshUnlessRaced ==
  \A s \in Lookups : At(s, "load") /\ ~lookup[s].raced =>
    \A v \in lookup[s].fresh : RowsOf(v) = {}

MatchInv == MatchTypeOK /\ LookupInHand /\ FreshUnlessRaced

\* At rest a session has nothing in hand.
LEMMA NoLookupTyped ==
  /\ NoLookup \in LookupRecord /\ NoLookup.at = "idle" /\ NoLookup.todo = {} /\ NoLookup.fresh = {}
  /\ NoLookup.accepted = {} /\ NoLookup.marked = {} /\ ~NoLookup.raced
  /\ NoReview \in [row : Nat, status : MatchStatuses] /\ NoReview.row = 0
BY DEF NoLookup, NoReview, LookupRecord, MatchStatuses

\* A book begins without candidates.
LEMMA MatchInvInit == MatchInit => MatchInv
<1> SUFFICES ASSUME MatchInit PROVE MatchInv
  OBVIOUS
<1> USE NoLookupTyped DEF MatchInit
<1>1. matches \in Seq(MatchRow) /\ Len(matches) = 0
  OBVIOUS
<1>2. LookupInHand
  BY FS_EmptySet DEF LookupInHand
<1>3. MatchTypeOK
  BY <1>1, MatchAssumption DEF MatchTypeOK, MatchStatuses, NoReview
<1>4. FreshUnlessRaced
  BY DEF FreshUnlessRaced, At
<1> QED
  BY <1>2, <1>3, <1>4 DEF MatchInv

\* The rows keep their order and number while a session looks or decides.
LEMMA StatusesTyped ==
  ASSUME MatchInv
  PROVE  /\ Len(matches) \in Nat /\ DOMAIN matches = 1 .. Len(matches)
         /\ \A i \in DOMAIN matches : matches[i] \in MatchRow /\ matches[i].status \in MatchStatuses
<1>1. matches \in Seq(MatchRow)
  BY DEF MatchInv, MatchTypeOK
<1>2. Len(matches) \in Nat /\ DOMAIN matches = 1 .. Len(matches)
  BY <1>1, LenProperties
<1>3. \A i \in DOMAIN matches : matches[i] \in MatchRow
  BY <1>1, <1>2, ElementOfSeq
<1> QED
  BY <1>2, <1>3 DEF MatchRow

\* An answer is of finitely many volumes.
LEMMA AnswerFinite ==
  ASSUME NEW found \in Answers
  PROVE  Range(found) \subseteq Volumes /\ IsFiniteSet(Range(found))
<1>1. PICK n \in 1 .. MaxFound : found \in [1 .. n -> Volumes]
  BY DEF Answers
<1>2. Range(found) \subseteq Volumes /\ found \in Surjection(1 .. n, Range(found))
  BY <1>1 DEF Range, Surjection
<1>3. n \in Nat
  BY <1>1, MatchAssumption
<1> QED
  BY <1>2, <1>3, FS_Interval, FS_Surjection

\* The rows that a lookup adds are those of its fresh candidates.
LEMMA RowsAppended ==
  ASSUME NEW fresh \in SUBSET Volumes, IsFiniteSet(fresh),
         NEW new \in SetToSeqs({[volume |-> v, status |-> "pending"] : v \in fresh})
  PROVE  /\ new \in Seq(MatchRow)
         /\ Len(new) <= Cardinality(fresh)
         /\ \A k \in DOMAIN new : new[k].volume \in fresh
<1> DEFINE rows == {[volume |-> v, status |-> "pending"] : v \in fresh}
<1>1. IsFiniteSet(rows) /\ Cardinality(rows) <= Cardinality(fresh)
  <2> DEFINE f == [v \in fresh |-> [volume |-> v, status |-> "pending"]]
  <2>1. rows = {f[v] : v \in fresh} /\ f \in [fresh -> rows]
    OBVIOUS
  <2>2. f \in Surjection(fresh, rows)
    BY <2>1 DEF Surjection
  <2> QED
    BY <2>2, FS_Surjection
<1>2. new \in [1 .. Cardinality(rows) -> rows]
  BY DEF SetToSeqs
<1>3. rows \subseteq MatchRow /\ \A r \in rows : r.volume \in fresh
  BY DEF MatchRow, MatchStatuses
<1> HIDE DEF rows
<1>4. Cardinality(rows) \in Nat
  BY <1>1, FS_CardinalityType
<1>5. new \in Seq(MatchRow) /\ Len(new) = Cardinality(rows) /\ DOMAIN new = 1 .. Cardinality(rows)
  <2>1. new \in [1 .. Cardinality(rows) -> MatchRow]
    BY <1>2, <1>3
  <2> QED
    BY <2>1, <1>4, IsASeq, LenProperties
<1> QED
  BY <1>1, <1>2, <1>3, <1>5

\* What storing its candidates makes of the rows: it marks some of them as
\* applied, and adds those of its fresh candidates.
LEMMA StoreEffect ==
  ASSUME MatchInv, NEW s \in Lookups, StoreMatches(s)
  PROVE  /\ matches' \in Seq(MatchRow)
         /\ Len(matches') <= MaxRows
         /\ DOMAIN matches \subseteq DOMAIN matches'
         /\ \A i \in DOMAIN matches : /\ matches'[i].volume = matches[i].volume
                                      /\ matches'[i].status \in {matches[i].status, "applied"}
         /\ \A i \in DOMAIN matches' \ DOMAIN matches : matches'[i].volume \in lookup[s].fresh
<1> DEFINE fresh == lookup[s].fresh
<1>1. fresh \in SUBSET Volumes /\ IsFiniteSet(fresh)
  BY DEF MatchInv, LookupInHand, LookupRecord
<1>2. PICK new \in SetToSeqs({[volume |-> v, status |-> "pending"] : v \in fresh}) :
        matches' = [i \in DOMAIN (matches \o new) |-> Recorded(s, (matches \o new)[i], i)]
  BY DEF StoreMatches
<1>3. Len(matches) + Cardinality(fresh) <= MaxRows
  BY DEF StoreMatches
<1> HIDE DEF fresh
<1>4. /\ new \in Seq(MatchRow) /\ Len(new) <= Cardinality(fresh)
      /\ \A k \in DOMAIN new : new[k].volume \in fresh
  BY <1>1, <1>2, RowsAppended
<1>5. matches \in Seq(MatchRow) /\ Len(matches) \in Nat /\ DOMAIN matches = 1 .. Len(matches)
  BY StatusesTyped DEF MatchInv, MatchTypeOK
<1>6. Len(new) \in Nat /\ DOMAIN new = 1 .. Len(new)
  BY <1>4, LenProperties
<1> DEFINE joined == matches \o new
           n == Len(matches) + Len(new)
<1>7. /\ joined \in Seq(MatchRow) /\ Len(joined) = n /\ DOMAIN joined = 1 .. n
      /\ \A i \in 1 .. Len(matches) : joined[i] = matches[i]
      /\ \A i \in 1 .. n : i > Len(matches) => joined[i] = new[i - Len(matches)]
  <2>1. joined \in Seq(MatchRow) /\ Len(joined) = n
    BY <1>4, <1>5, ConcatProperties
  <2>2. DOMAIN joined = 1 .. n
    BY <2>1, LenProperties
  <2>3. \A i \in 1 .. n : joined[i] = IF i <= Len(matches) THEN matches[i] ELSE new[i - Len(matches)]
    BY <1>4, <1>5, ConcatProperties
  <2>4. \A i \in 1 .. Len(matches) : i \in 1 .. n /\ i <= Len(matches)
    BY <1>5, <1>6
  <2> QED
    BY <1>5, <1>6, <2>1, <2>2, <2>3, <2>4
<1>8. matches' = [i \in 1 .. n |-> Recorded(s, joined[i], i)]
  BY <1>2, <1>7
<1> HIDE DEF joined, n
<1>9. ASSUME NEW i \in 1 .. n
      PROVE  /\ matches'[i] \in MatchRow /\ matches'[i].volume = joined[i].volume
             /\ matches'[i].status \in {joined[i].status, "applied"}
  <2>1. joined[i] \in MatchRow
    BY <1>7, ElementOfSeq
  <2>2. matches'[i] = Recorded(s, joined[i], i)
    BY <1>8
  <2> QED
    BY <2>1, <2>2 DEF Recorded, MatchRow, MatchStatuses
<1>10. n \in Nat /\ n <= MaxRows
  <2>1. Cardinality(fresh) \in Nat
    BY <1>1, FS_CardinalityType
  <2> QED
    BY <2>1, <1>3, <1>4, <1>5, <1>6, MatchAssumption DEF n
<1>11. matches' \in Seq(MatchRow) /\ Len(matches') = n /\ DOMAIN matches' = 1 .. n
  <2>1. matches' \in [1 .. n -> MatchRow]
    BY <1>8, <1>9
  <2> QED
    BY <2>1, <1>10, IsASeq, LenProperties
<1>12. ASSUME NEW i \in 1 .. n, i > Len(matches) PROVE matches'[i].volume \in fresh
  <2>1. i - Len(matches) \in DOMAIN new
    BY <1>5, <1>6, <1>12 DEF n
  <2> QED
    BY <1>4, <1>7, <1>9, <1>12, <2>1
<1>13. DOMAIN matches \subseteq 1 .. n /\ \A i \in 1 .. n : i \notin DOMAIN matches => i > Len(matches)
  BY <1>5, <1>6 DEF n
<1> QED
  BY <1>5, <1>7, <1>9, <1>10, <1>11, <1>12, <1>13 DEF fresh

\* What a review makes of the rows: one of them may get another status.
LEMMA StatusEffect ==
  ASSUME MatchInv, NEW r \in Reviewers, NEW status \in {"applied", "rejected"}, SetStatus(r, status)
  PROVE  /\ matches' \in Seq(MatchRow) /\ Len(matches') = Len(matches)
         /\ DOMAIN matches' = DOMAIN matches
         /\ \A i \in DOMAIN matches : /\ matches'[i].volume = matches[i].volume
                                      /\ matches'[i].status \in {matches[i].status, status}
<1> DEFINE i == review[r].row
           new == [matches[i] EXCEPT !.status = status]
<1>1. matches \in Seq(MatchRow) /\ i \in DOMAIN matches
  BY DEF MatchInv, MatchTypeOK, LookupInHand, SetStatus
<1>2. matches[i] \in MatchRow
  BY <1>1, StatusesTyped
<1>3. new \in MatchRow /\ new.volume = matches[i].volume /\ new.status = status
  BY <1>2 DEF MatchRow, MatchStatuses
<1>4. CASE matches' = matches
  BY <1>1, <1>4
<1>5. CASE matches' = [matches EXCEPT ![i] = new]
  <2> HIDE DEF new, i
  <2>1. matches' \in Seq(MatchRow) /\ Len(matches') = Len(matches)
    BY <1>1, <1>3, <1>5, ExceptSeq
  <2>2. DOMAIN matches' = DOMAIN matches /\ matches'[i] = new
        /\ \A k \in DOMAIN matches : k # i => matches'[k] = matches[k]
    BY <1>1, <1>5
  <2> QED
    BY <1>3, <2>1, <2>2
<1> QED
  BY <1>4, <1>5 DEF SetStatus

-----------------------------------------------------------------------------
(* The steps.                                                              *)

\* A search, a look at the rows, an end without a commit.
LEMMA LookupStep ==
  ASSUME MatchInv, NEW s \in Lookups,
         \/ AbortLookup(s)
         \/ \E query \in Facts, found \in Answers : Search(s, query, found)
         \/ \E v \in Volumes : LookUp(s, v)
  PROVE  MatchInv'
<1> USE NoLookupTyped DEF MatchInv
<1>0. UNCHANGED <<matches, review>>
  BY DEF AbortLookup, Search, LookUp
<1>1. PICK local : /\ lookup' = [lookup EXCEPT ![s] = local]
                   /\ local \in LookupRecord
                   /\ IsFiniteSet(local.todo) /\ IsFiniteSet(local.fresh)
                   /\ local.marked \subseteq DOMAIN matches
                   /\ local.at = "load" /\ ~local.raced => \A v \in local.fresh : RowsOf(v) = {}
  <2>1. CASE AbortLookup(s)
    BY <2>1, FS_EmptySet DEF AbortLookup, Leave
  <2>2. ASSUME NEW query \in Facts, NEW found \in Answers, Search(s, query, found)
        PROVE  \E local : /\ lookup' = [lookup EXCEPT ![s] = local]
                          /\ local \in LookupRecord
                          /\ IsFiniteSet(local.todo) /\ IsFiniteSet(local.fresh)
                          /\ local.marked \subseteq DOMAIN matches
                          /\ local.at = "load" /\ ~local.raced => \A v \in local.fresh : RowsOf(v) = {}
    <3> DEFINE local == [NoLookup EXCEPT !.at = "load", !.todo = Range(found),
                                         !.accepted = Accepted(query, found)]
    <3>1. lookup' = [lookup EXCEPT ![s] = local]
      BY <2>2 DEF Search
    <3>2. Range(found) \subseteq Volumes /\ IsFiniteSet(Range(found))
      BY AnswerFinite
    <3>3. Accepted(query, found) \subseteq Volumes
      BY <3>2 DEF Accepted
    <3>4. /\ local.at = "load" /\ local.todo = Range(found) /\ local.fresh = {}
          /\ local.marked = {} /\ local \in LookupRecord
      BY <3>2, <3>3 DEF NoLookup, LookupRecord
    <3> HIDE DEF local
    <3> QED
      BY <3>1, <3>2, <3>4, FS_EmptySet
  <2>3. ASSUME NEW v \in Volumes, LookUp(s, v)
        PROVE  \E local : /\ lookup' = [lookup EXCEPT ![s] = local]
                          /\ local \in LookupRecord
                          /\ IsFiniteSet(local.todo) /\ IsFiniteSet(local.fresh)
                          /\ local.marked \subseteq DOMAIN matches
                          /\ local.at = "load" /\ ~local.raced => \A w \in local.fresh : RowsOf(w) = {}
    <3> DEFINE mine == lookup[s]
    <3>1. /\ lookup \in [Lookups -> LookupRecord] /\ mine \in LookupRecord
          /\ IsFiniteSet(mine.todo) /\ IsFiniteSet(mine.fresh)
          /\ mine.marked \subseteq DOMAIN matches /\ DOMAIN matches \subseteq Nat
          /\ mine.at = "load" /\ (~mine.raced => \A w \in mine.fresh : RowsOf(w) = {})
      <4>1. DOMAIN matches \subseteq Nat
        BY StatusesTyped
      <4> QED
        BY <2>3, <4>1 DEF LookupInHand, MatchTypeOK, FreshUnlessRaced, LookUp, At
    <3>2. IsFiniteSet(mine.todo \ {v}) /\ IsFiniteSet(mine.fresh \cup {v})
      BY <3>1, FS_AddElement, FS_RemoveElement
    <3>3. CASE RowsOf(v) = {} /\ lookup' = [lookup EXCEPT ![s].todo = @ \ {v}, ![s].fresh = @ \cup {v}]
      <4> DEFINE local == [mine EXCEPT !.todo = @ \ {v}, !.fresh = @ \cup {v}]
      <4>1. lookup' = [lookup EXCEPT ![s] = local]
        BY <3>1, <3>3
      <4>2. /\ local \in LookupRecord /\ local.todo = mine.todo \ {v} /\ local.fresh = mine.fresh \cup {v}
            /\ local.marked = mine.marked /\ local.raced = mine.raced
        BY <3>1 DEF LookupRecord
      <4> HIDE DEF local, mine
      <4> QED
        BY <3>1, <3>2, <3>3, <4>1, <4>2, ZenonT(40)
    <3>4. ASSUME NEW i \in RowsOf(v),
                 lookup' = [lookup EXCEPT ![s].todo = @ \ {v},
                       ![s].marked = IF matches[i].status = "applied" THEN @ \cup {i} ELSE @]
          PROVE  \E local : /\ lookup' = [lookup EXCEPT ![s] = local]
                            /\ local \in LookupRecord
                            /\ IsFiniteSet(local.todo) /\ IsFiniteSet(local.fresh)
                            /\ local.marked \subseteq DOMAIN matches
                            /\ local.at = "load" /\ ~local.raced => \A w \in local.fresh : RowsOf(w) = {}
      <4> DEFINE local == [mine EXCEPT !.todo = @ \ {v},
                             !.marked = IF matches[i].status = "applied" THEN @ \cup {i} ELSE @]
      <4>1. lookup' = [lookup EXCEPT ![s] = local]
        BY <3>1, <3>4
      <4>2. i \in DOMAIN matches
        BY DEF RowsOf
      <4>3. /\ local \in LookupRecord /\ local.todo = mine.todo \ {v} /\ local.fresh = mine.fresh
            /\ local.marked \subseteq DOMAIN matches /\ local.raced = mine.raced
        BY <3>1, <4>2 DEF LookupRecord
      <4> HIDE DEF local, mine
      <4> QED
        BY <3>1, <3>2, <4>1, <4>3
    <3> QED
      BY <2>3, <3>3, <3>4 DEF LookUp
  <2> QED
    BY <2>1, <2>2, <2>3
<1>2. lookup \in [Lookups -> LookupRecord]
  BY DEF LookupInHand
<1>3. lookup'[s] = local /\ \A t \in Lookups : t # s => lookup'[t] = lookup[t]
  BY <1>1, <1>2
<1>4. LookupInHand'
  <2>1. lookup' \in [Lookups -> LookupRecord]
    BY <1>1, <1>2
  <2> QED
    BY <1>0, <1>1, <1>3, <2>1 DEF LookupInHand
<1>5. MatchTypeOK'
  <2>1. matches' \in Seq(MatchRow) /\ Len(matches') <= MaxRows
    BY <1>0 DEF MatchTypeOK
  <2>2. ASSUME NEW t \in Lookups
        PROVE  /\ lookup'[t].at \in {"idle", "load"}
               /\ lookup'[t].todo \cup lookup'[t].fresh \cup lookup'[t].accepted \subseteq Volumes
               /\ lookup'[t].marked \subseteq DOMAIN matches'
    <3>1. lookup'[t] \in LookupRecord
      BY <1>4 DEF LookupInHand
    <3>2. lookup'[t].marked \subseteq DOMAIN matches'
      BY <1>0, <1>1, <1>3 DEF MatchTypeOK
    <3> QED
      BY <3>1, <3>2 DEF LookupRecord
  <2>3. \A r \in Reviewers : review'[r] \in [row : 0 .. Len(matches'), status : MatchStatuses]
    BY <1>0 DEF MatchTypeOK
  <2> QED
    BY <2>1, <2>2, <2>3 DEF MatchTypeOK
<1>6. FreshUnlessRaced'
  BY <1>0, <1>1, <1>3 DEF FreshUnlessRaced, At, RowsOf
<1> QED
  BY <1>4, <1>5, <1>6

\* A lookup stores its candidates: every other lookup under way is raced.
LEMMA StoreStep ==
  ASSUME MatchInv, NEW s \in Lookups, StoreMatches(s)
  PROVE  MatchInv'
<1> USE NoLookupTyped DEF MatchInv
<1>1. /\ matches' \in Seq(MatchRow) /\ Len(matches') <= MaxRows
      /\ DOMAIN matches \subseteq DOMAIN matches'
  BY StoreEffect
<1>2. UNCHANGED review
  BY DEF StoreMatches
<1>3. ASSUME NEW t \in Lookups
      PROVE  /\ lookup'[t] \in LookupRecord
             /\ IsFiniteSet(lookup'[t].todo) /\ IsFiniteSet(lookup'[t].fresh)
             /\ lookup'[t].marked \subseteq DOMAIN matches
             /\ lookup'[t].at # "idle" => lookup'[t].raced
  <2>1. lookup'[t] = IF t = s THEN NoLookup
                     ELSE [lookup[t] EXCEPT !.raced = ~At(t, "idle")]
    BY DEF StoreMatches
  <2>2. /\ lookup[t] \in LookupRecord /\ lookup[t].marked \subseteq DOMAIN matches
        /\ IsFiniteSet(lookup[t].todo) /\ IsFiniteSet(lookup[t].fresh)
    BY DEF LookupInHand, MatchTypeOK
  <2>3. CASE t = s
    BY <2>1, <2>3, FS_EmptySet
  <2>4. CASE t # s
    <3>1. /\ lookup'[t] \in LookupRecord
          /\ lookup'[t].todo = lookup[t].todo /\ lookup'[t].fresh = lookup[t].fresh
          /\ lookup'[t].marked = lookup[t].marked /\ lookup'[t].at = lookup[t].at
          /\ lookup'[t].at # "idle" => lookup'[t].raced
      <4> DEFINE raced == ~At(t, "idle")
      <4>1. lookup'[t] = [lookup[t] EXCEPT !.raced = raced]
        BY <2>1, <2>4
      <4>2. raced \in BOOLEAN /\ (lookup[t].at # "idle" => raced)
        BY DEF At
      <4> HIDE DEF raced
      <4> QED
        BY <2>2, <4>1, <4>2 DEF LookupRecord
    <3> QED
      BY <2>2, <3>1
  <2> QED
    BY <2>3, <2>4
<1>4. lookup' \in [Lookups -> LookupRecord]
  <2>1. lookup' = [t \in Lookups |-> lookup'[t]]
    BY DEF StoreMatches
  <2> QED
    BY <1>3, <2>1
<1>5. LookupInHand'
  BY <1>1, <1>2, <1>3, <1>4 DEF LookupInHand
<1>6. MatchTypeOK'
  <2>1. Len(matches) \in Nat /\ DOMAIN matches = 1 .. Len(matches)
    BY StatusesTyped
  <2>2. Len(matches') \in Nat /\ DOMAIN matches' = 1 .. Len(matches')
    BY <1>1, LenProperties
  <2>3. Len(matches) <= Len(matches')
    BY <1>1, <2>1, <2>2
  <2>4. \A r \in Reviewers : review'[r] \in [row : 0 .. Len(matches'), status : MatchStatuses]
    BY <1>2, <2>1, <2>2, <2>3 DEF MatchTypeOK
  <2>5. ASSUME NEW t \in Lookups
        PROVE  /\ lookup'[t].at \in {"idle", "load"}
               /\ lookup'[t].todo \cup lookup'[t].fresh \cup lookup'[t].accepted \subseteq Volumes
               /\ lookup'[t].marked \subseteq DOMAIN matches'
    BY <1>1, <1>3 DEF LookupRecord
  <2> QED
    BY <1>1, <2>4, <2>5 DEF MatchTypeOK
<1>7. FreshUnlessRaced'
  BY <1>3 DEF FreshUnlessRaced, At
<1> QED
  BY <1>5, <1>6, <1>7

\* A reviewer loads a row, or sets the status of the one it has loaded.
LEMMA ReviewStep ==
  ASSUME MatchInv, NEW r \in Reviewers,
         Apply(r) \/ Reject(r) \/ \E i \in DOMAIN matches : LoadMatch(r, i)
  PROVE  MatchInv'
<1> USE NoLookupTyped DEF MatchInv
<1>0. UNCHANGED lookup /\ DOMAIN matches = 1 .. Len(matches) /\ Len(matches) \in Nat
  BY StatusesTyped DEF Apply, Reject, SetStatus, LoadMatch
<1>1. /\ matches' \in Seq(MatchRow) /\ Len(matches') = Len(matches)
      /\ DOMAIN matches' = DOMAIN matches
      /\ \A i \in DOMAIN matches : matches'[i].volume = matches[i].volume
  <2>1. CASE \E status \in {"applied", "rejected"} : SetStatus(r, status)
    BY <2>1, StatusEffect
  <2>2. CASE \E i \in DOMAIN matches : LoadMatch(r, i)
    BY <2>2 DEF LoadMatch, MatchTypeOK
  <2> QED
    BY <2>1, <2>2 DEF Apply, Reject
<1>2. PICK local : /\ review' = [review EXCEPT ![r] = local]
                   /\ local \in [row : 0 .. Len(matches), status : MatchStatuses]
                   /\ local = NoReview \/ local.row \in DOMAIN matches
  <2>1. CASE \E status \in {"applied", "rejected"} : SetStatus(r, status)
    <3>1. NoReview \in [row : 0 .. Len(matches), status : MatchStatuses]
      BY <1>0 DEF NoReview, MatchStatuses
    <3> QED
      BY <2>1, <3>1 DEF SetStatus
  <2>2. ASSUME NEW i \in DOMAIN matches, LoadMatch(r, i)
        PROVE  \E local : /\ review' = [review EXCEPT ![r] = local]
                          /\ local \in [row : 0 .. Len(matches), status : MatchStatuses]
                          /\ local = NoReview \/ local.row \in DOMAIN matches
    <3> DEFINE local == [row |-> i, status |-> matches[i].status]
    <3>1. local \in [row : 0 .. Len(matches), status : MatchStatuses] /\ local.row = i
      BY <1>0, StatusesTyped
    <3>2. review' = [review EXCEPT ![r] = local]
      BY <2>2 DEF LoadMatch
    <3> HIDE DEF local
    <3> QED
      BY <2>2, <3>1, <3>2
  <2> QED
    BY <2>1, <2>2 DEF Apply, Reject
<1>3. /\ review \in [Reviewers -> [row : Nat, status : MatchStatuses]]
      /\ review'[r] = local
      /\ \A q \in Reviewers : q # r => review'[q] = review[q]
  BY <1>2 DEF LookupInHand
<1>4. LookupInHand'
  <2>1. local \in [row : Nat, status : MatchStatuses]
    BY <1>0, <1>2
  <2>2. review' \in [Reviewers -> [row : Nat, status : MatchStatuses]]
    BY <1>2, <1>3, <2>1
  <2> QED
    BY <1>0, <1>1, <1>2, <1>3, <2>2 DEF LookupInHand
<1>5. MatchTypeOK'
  <2>1. \A q \in Reviewers : review'[q] \in [row : 0 .. Len(matches'), status : MatchStatuses]
    BY <1>1, <1>2, <1>3 DEF MatchTypeOK
  <2> QED
    BY <1>0, <1>1, <2>1 DEF MatchTypeOK
<1>6. FreshUnlessRaced'
  <2>1. \A v : RowsOf(v)' = RowsOf(v)
    BY <1>1 DEF RowsOf
  <2> QED
    BY <1>0, <2>1 DEF FreshUnlessRaced, At
<1> QED
  BY <1>4, <1>5, <1>6

\* Every step of a lookup or of a reviewer keeps the invariant.
LEMMA MatchInvStep == MatchInv /\ [MatchNext]_matchVars => MatchInv'
<1> SUFFICES ASSUME MatchInv, [MatchNext]_matchVars PROVE MatchInv'
  OBVIOUS
<1>1. CASE UNCHANGED matchVars
  BY <1>1 DEF matchVars, MatchInv, MatchTypeOK, LookupInHand, FreshUnlessRaced, At, RowsOf
<1>2. CASE MatchNext
  <2>1. CASE \E s \in Lookups :
               \/ AbortLookup(s)
               \/ \E query \in Facts, found \in Answers : Search(s, query, found)
               \/ \E v \in Volumes : LookUp(s, v)
    BY <2>1, LookupStep
  <2>2. CASE \E s \in Lookups : StoreMatches(s)
    BY <2>2, StoreStep
  <2>3. CASE \E r \in Reviewers :
               Apply(r) \/ Reject(r) \/ \E i \in DOMAIN matches : LoadMatch(r, i)
    BY <2>3, ReviewStep
  <2> QED
    BY <1>2, <2>1, <2>2, <2>3 DEF MatchNext
<1> QED
  BY <1>1, <1>2

-----------------------------------------------------------------------------
(* The theorems on the candidates.                                         *)

\* What the sessions have in hand fits the rows, whatever overlaps.
THEOREM MatchInvariant == MatchSpec => []MatchInv
  BY MatchInvInit, MatchInvStep, PTL DEF MatchSpec

\* Every variable of the candidates' model keeps its type, and the rows
\* their bound.
THEOREM MatchTypeCorrect == MatchSpec => []MatchTypeOK
<1>1. MatchInv => MatchTypeOK
  BY DEF MatchInv
<1> QED
  BY <1>1, MatchInvariant, PTL

\* What a lookup accepts without a reviewer has the ISBN it asked for, or
\* the title, authors being known and no ISBN; and nothing scores higher.
THEOREM Certain == MatchSpec => AutoAppliedIsCertain
<1>1. MatchInv /\ [MatchNext]_matchVars =>
        [\A s \in Lookups : lookup'[s].accepted # lookup[s].accepted =>
         \A query \in Facts, found \in Answers : Search(s, query, found) => \A v \in lookup'[s].accepted :
             /\ \/ query.isbn \in VolumeOf[v].isbns
                \/ query.isbn = NoIsbn /\ query.authors # {} /\ query.title = VolumeOf[v].title
             /\ \A w \in Range(found) : ScoreOf(query, w) <= ScoreOf(query, v)]_matchVars
  <2> SUFFICES ASSUME MatchInv, NEW s \in Lookups, NEW query \in Facts, NEW found \in Answers,
                      Search(s, query, found), NEW v \in lookup'[s].accepted
               PROVE  /\ \/ query.isbn \in VolumeOf[v].isbns
                         \/ query.isbn = NoIsbn /\ query.authors # {} /\ query.title = VolumeOf[v].title
                      /\ \A w \in Range(found) : ScoreOf(query, w) <= ScoreOf(query, v)
    OBVIOUS
  <2>1. lookup \in [Lookups -> LookupRecord]
    BY DEF MatchInv, LookupInHand
  <2>2. lookup'[s].accepted = Accepted(query, found)
    BY <2>1 DEF Search, NoLookup
  <2> QED
    BY <2>2, AcceptedIsCertain
<1> QED
  BY <1>1, MatchInvariant, PTL DEF MatchSpec, AutoAppliedIsCertain

\* A rejected candidate does not become pending again, unless two lookups
\* of the book overlap.
THEOREM StaysRejected == MatchSpec => RejectedNotPending
<1>1. MatchInv /\ [MatchNext]_matchVars =>
        [\A v \in Volumes : Rejected(v) =>
           \/ \A i \in DOMAIN matches' : matches'[i].volume = v => matches'[i].status # "pending"
           \/ \E s \in Lookups : lookup[s].raced /\ StoreMatches(s)]_matchVars
  <2> SUFFICES ASSUME MatchInv, MatchNext, NEW v \in Volumes, Rejected(v),
                      ~ \E s \in Lookups : lookup[s].raced /\ StoreMatches(s),
                      NEW i \in DOMAIN matches', matches'[i].volume = v
               PROVE  matches'[i].status # "pending"
    OBVIOUS
  <2>0. \A k \in DOMAIN matches : matches[k].volume = v => matches[k].status = "rejected"
    BY DEF Rejected, RowsOf
  <2>1. CASE UNCHANGED matches
    BY <2>0, <2>1
  <2>2. ASSUME NEW s \in Lookups, StoreMatches(s) PROVE matches'[i].status # "pending"
    <3>1. \A w \in lookup[s].fresh : RowsOf(w) = {}
      BY <2>2 DEF MatchInv, FreshUnlessRaced, StoreMatches
    <3>2. v \notin lookup[s].fresh
      BY <3>1 DEF Rejected
    <3>3. i \in DOMAIN matches
      BY <2>2, <3>2, StoreEffect
    <3> QED
      BY <2>0, <2>2, <3>3, StoreEffect
  <2>3. ASSUME NEW r \in Reviewers, NEW status \in {"applied", "rejected"}, SetStatus(r, status)
        PROVE  matches'[i].status # "pending"
    BY <2>0, <2>3, StatusEffect
  <2> QED
    BY <2>1, <2>2, <2>3 DEF MatchNext, AbortLookup, Search, LookUp, LoadMatch, Apply, Reject
<1> QED
  BY <1>1, MatchInvariant, PTL DEF MatchSpec, RejectedNotPending

-----------------------------------------------------------------------------
(* The schema as the revisions build it.                                   *)

\* What there is before the k-th statement of a revision.
Built(r, k) == SchemaOf(r - 1) \cup {Statements(r)[j] : j \in 1 .. (k - 1)}

\* No part refers to a table that is not there.
Closed(parts) ==
  \A piece \in parts : \A table \in References(piece.table) : Part(table, "rows") \in parts

\* A revision adds its statements to the schema of the one before.
LEMMA SchemaGrows ==
  /\ SchemaOf(0) = {}
  /\ \A r \in Revisions :
       /\ SchemaOf(r) = SchemaOf(r - 1) \cup Range(Statements(r))
       /\ SchemaOf(r) \subseteq HeadSchema /\ SchemaOf(r - 1) \subseteq HeadSchema
<1>1. SchemaOf(0) = {}
  <2>1. 1 .. 0 = {}
    OBVIOUS
  <2> QED
    BY <2>1 DEF SchemaOf
<1>2. ASSUME NEW r \in Revisions PROVE SchemaOf(r) = SchemaOf(r - 1) \cup Range(Statements(r))
  <2>1. 1 .. r = (1 .. (r - 1)) \cup {r}
    BY DEF Revisions
  <2> QED
    BY <2>1 DEF SchemaOf
<1>3. ASSUME NEW r \in 0 .. 3 PROVE SchemaOf(r) \subseteq HeadSchema
  <2>1. 1 .. r \subseteq 1 .. 3
    OBVIOUS
  <2> QED
    BY <2>1 DEF SchemaOf, HeadSchema
<1>4. \A r \in Revisions : r \in 0 .. 3 /\ r - 1 \in 0 .. 3
  BY DEF Revisions
<1> QED
  BY <1>1, <1>2, <1>3, <1>4

\* What is known of the statements of one revision.
LEMMA StatementsOf ==
  ASSUME NEW r \in Revisions
  PROVE  /\ Len(Statements(r)) \in Nat /\ DOMAIN Statements(r) = 1 .. Len(Statements(r))
         /\ Range(Statements(r)) = {Statements(r)[j] : j \in 1 .. Len(Statements(r))}
         /\ \A j, k \in 1 .. Len(Statements(r)) : Statements(r)[j] = Statements(r)[k] => j = k
<1>1. Statements(r) \in Seq(Range(Statements(r))) /\ IsInjective(Statements(r))
  BY RevisionsOrdered
<1>2. Len(Statements(r)) \in Nat /\ DOMAIN Statements(r) = 1 .. Len(Statements(r))
  BY <1>1, LenProperties
<1> QED
  BY <1>1, <1>2 DEF IsInjective, Range

\* The schemas of two revisions share no part that the later one adds.
LEMMA StatementsNew ==
  ASSUME NEW r \in Revisions
  PROVE  SchemaOf(r - 1) \cap Range(Statements(r)) = {}
<1>1. \A q \in 1 .. (r - 1) : q \in Revisions /\ q # r
  BY DEF Revisions
<1> QED
  BY <1>1, RevisionsOrdered DEF SchemaOf

\* Statement by statement the schema grows from that of one revision to that
\* of the next.
LEMMA BuiltGrows ==
  ASSUME NEW r \in Revisions
  PROVE  /\ Built(r, 1) = SchemaOf(r - 1)
         /\ Built(r, Len(Statements(r)) + 1) = SchemaOf(r)
         /\ \A k \in 1 .. Len(Statements(r)) :
              /\ Built(r, k + 1) = Built(r, k) \cup {Statements(r)[k]}
              /\ Statements(r)[k] \notin Built(r, k)
              /\ Statements(r)[k] \in HeadSchema
<1> DEFINE n == Len(Statements(r))
<1>1. /\ n \in Nat /\ Range(Statements(r)) = {Statements(r)[j] : j \in 1 .. n}
      /\ \A j, k \in 1 .. n : Statements(r)[j] = Statements(r)[k] => j = k
  BY StatementsOf
<1> HIDE DEF n
<1>2. Built(r, 1) = SchemaOf(r - 1)
  <2>1. 1 .. (1 - 1) = {}
    OBVIOUS
  <2> QED
    BY <2>1 DEF Built
<1>3. Built(r, n + 1) = SchemaOf(r)
  <2>1. 1 .. ((n + 1) - 1) = 1 .. n
    BY <1>1
  <2> QED
    BY <1>1, <2>1, SchemaGrows DEF Built
<1>4. ASSUME NEW k \in 1 .. n
      PROVE  /\ Built(r, k + 1) = Built(r, k) \cup {Statements(r)[k]}
             /\ Statements(r)[k] \notin Built(r, k)
             /\ Statements(r)[k] \in HeadSchema
  <2>1. 1 .. ((k + 1) - 1) = (1 .. (k - 1)) \cup {k}
    BY <1>1
  <2>2. Built(r, k + 1) = Built(r, k) \cup {Statements(r)[k]}
    BY <2>1 DEF Built
  <2>3. Statements(r)[k] \in Range(Statements(r))
    BY <1>1
  <2>4. \A j \in 1 .. (k - 1) : j \in 1 .. n /\ j # k
    BY <1>1
  <2>5. Statements(r)[k] \notin Built(r, k)
    BY <1>1, <2>3, <2>4, StatementsNew DEF Built
  <2> QED
    BY <2>2, <2>3, <2>5, SchemaGrows
<1> QED
  BY <1>2, <1>3, <1>4 DEF n

\* After any statement of a revision no part refers to a missing table.
LEMMA SchemaClosed == \A r \in 0 .. 3 : Closed(SchemaOf(r))
<1>1. ASSUME NEW r \in Revisions, Closed(SchemaOf(r - 1)) PROVE Closed(SchemaOf(r))
  <2>1. ASSUME NEW piece \in SchemaOf(r), NEW table \in References(piece.table)
        PROVE  Part(table, "rows") \in SchemaOf(r)
    <3>1. CASE piece \in SchemaOf(r - 1)
      BY <1>1, <2>1, <3>1, SchemaGrows DEF Closed
    <3>2. ASSUME NEW k \in DOMAIN Statements(r), piece = Statements(r)[k]
          PROVE  Part(table, "rows") \in SchemaOf(r)
      <4>1. Part(table, "rows") \in SchemaOf(r - 1) \cup {Statements(r)[j] : j \in 1 .. (k - 1)}
        BY <2>1, <3>2, RevisionsOrdered
      <4>2. \A j \in 1 .. (k - 1) : j \in 1 .. Len(Statements(r))
        BY StatementsOf
      <4>3. {Statements(r)[j] : j \in 1 .. (k - 1)} \subseteq Range(Statements(r))
        BY <4>2, StatementsOf
      <4> QED
        BY <4>1, <4>3, SchemaGrows
    <3> QED
      BY <3>1, <3>2, SchemaGrows, StatementsOf
  <2> QED
    BY <2>1 DEF Closed
<1>2. Closed(SchemaOf(0))
  BY SchemaGrows DEF Closed
<1>3. Closed(SchemaOf(1))
  BY <1>1, <1>2 DEF Revisions
<1>4. Closed(SchemaOf(2))
  BY <1>1, <1>3 DEF Revisions
<1>5. Closed(SchemaOf(3))
  BY <1>1, <1>4 DEF Revisions
<1> QED
  BY <1>2, <1>3, <1>4, <1>5

\* A statement keeps a schema closed that has all before it; and so does
\* taking it back from one that has nothing after it.
LEMMA ClosedKept ==
  ASSUME NEW r \in Revisions, NEW k \in 1 .. Len(Statements(r))
  PROVE  /\ Closed(Built(r, k))
         /\ \A parts : Built(r, k) \subseteq parts /\ Closed(parts) =>
              Closed(parts \cup {Statements(r)[k]})
<1> DEFINE n == Len(Statements(r))
<1>1. n \in Nat /\ DOMAIN Statements(r) = 1 .. n
  BY StatementsOf
<1>2. ASSUME NEW j \in 1 .. n, NEW table \in References(Statements(r)[j].table)
      PROVE  Part(table, "rows") \in Built(r, j)
  BY <1>1, <1>2, RevisionsOrdered DEF Built
<1> HIDE DEF n
<1>3. Closed(SchemaOf(r - 1))
  BY SchemaClosed DEF Revisions
<1>4. ASSUME NEW piece \in Built(r, k), NEW table \in References(piece.table)
      PROVE  Part(table, "rows") \in Built(r, k)
  <2>1. CASE piece \in SchemaOf(r - 1)
    BY <1>3, <1>4, <2>1 DEF Closed, Built
  <2>2. ASSUME NEW j \in 1 .. (k - 1), piece = Statements(r)[j]
        PROVE  Part(table, "rows") \in Built(r, k)
    <3>1. j \in 1 .. n
      BY <1>1 DEF n
    <3>2. Part(table, "rows") \in Built(r, j)
      BY <1>2, <1>4, <2>2, <3>1
    <3>3. \A i \in 1 .. (j - 1) : i \in 1 .. (k - 1)
      BY <1>1 DEF n
    <3> QED
      BY <3>2, <3>3 DEF Built
  <2> QED
    BY <1>4, <2>1, <2>2 DEF Built
<1> QED
  BY <1>2, <1>4 DEF Closed, n

-----------------------------------------------------------------------------
(* The processes that migrate.                                             *)

Local == [at : {"idle", "up", "down"}, revision : 0 .. 3, step : 0 .. (LongestRevision + 1)]

\* Where a process can be.
Placed(local) ==
  \/ local = Resting
  \/ /\ local.at \in {"up", "down"} /\ local.revision \in Revisions
     /\ local.step \in 1 .. (Len(Statements(local.revision)) + 1)

\* A downgrade has the database to itself.
DownAlone ==
  \A p \in Migrators : migrator[p].at = "down" => \A q \in Migrators : q # p => migrator[q] = Resting

Going ==
  /\ MigrationTypeOK
  /\ \A p \in Migrators : Placed(migrator[p])
  /\ DownAlone

\* A process on its way up finds all before its next statement in place.
UpBuilt ==
  \A p \in Migrators : migrator[p].at = "up" =>
    Built(migrator[p].revision, migrator[p].step) \subseteq schema

\* One on its way down has left all before the last statement it took back.
DownLeft ==
  \A p \in Migrators : migrator[p].at = "down" =>
    /\ migrator[p].revision = stamped
    /\ schema = Built(stamped, (Len(Statements(stamped)) + 2) - migrator[p].step)

Whole ==
  /\ GoingDown \/ SchemaOf(stamped) \subseteq schema
  /\ stamped >= 2 => seeded
  /\ stamped = 3 /\ ~GoingDown => indexed = catalog
  /\ Closed(schema)
  /\ UpBuilt
  /\ DownLeft

MigrationInv == Going /\ (torn \/ Whole)

\* The initial database is empty.
LEMMA MigrationInvInit == MigrationInit => MigrationInv
<1> SUFFICES ASSUME MigrationInit PROVE MigrationInv
  OBVIOUS
<1>1. Resting \in Local /\ Resting.at = "idle" /\ LongestRevision \in Nat
  BY StatementsOf DEF Resting, Local, LongestRevision, Revisions
<1>2. Going
  <2>1. migrator \in [Migrators -> Local] /\ \A p \in Migrators : migrator[p] = Resting
    BY <1>1 DEF MigrationInit
  <2>2. MigrationTypeOK
    <3>1. schema \subseteq HeadSchema /\ catalog \subseteq Catalog /\ indexed \subseteq Catalog
      BY DEF MigrationInit
    <3>2. seeded \in BOOLEAN /\ torn \in BOOLEAN
      BY DEF MigrationInit
    <3>3. stamped \in 0 .. 3
      BY DEF MigrationInit
    <3> QED
      BY <2>1, <3>1, <3>2, <3>3 DEF MigrationTypeOK, Local
  <2> QED
    BY <1>1, <2>1, <2>2 DEF Going, Placed, DownAlone
<1>3. Whole
  BY <1>1, SchemaGrows DEF MigrationInit, Whole, Closed, UpBuilt, DownLeft
<1> QED
  BY <1>2, <1>3 DEF MigrationInv

\* The bounds of the statements' numbers.
LEMMA StepsTyped ==
  /\ Resting \in Local /\ Resting.at = "idle"
  /\ \A at \in {"up", "down"}, r \in Revisions : \A step \in 1 .. (Len(Statements(r)) + 1) :
       /\ [at |-> at, revision |-> r, step |-> step] \in Local
       /\ Placed([at |-> at, revision |-> r, step |-> step])
<1>1. LongestRevision \in Nat
  BY StatementsOf DEF LongestRevision, Revisions
<1>2. ASSUME NEW r \in Revisions PROVE 1 .. (Len(Statements(r)) + 1) \subseteq 0 .. (LongestRevision + 1)
  <2>1. Len(Statements(r)) \in Nat /\ Len(Statements(r)) <= LongestRevision
    BY StatementsOf, RevisionsOrdered
  <2> QED
    BY <1>1, <2>1
<1> QED
  BY <1>1, <1>2 DEF Local, Placed, Resting, Revisions

\* A step of one process.
LEMMA OneMigrates ==
  ASSUME Going, NEW p \in Migrators, NEW local \in Local, Becomes(p, local), Placed(local),
         local.at = "down" => migrator[p].at = "down" \/ AllRest,
         migrator[p] = Resting /\ GoingDown => local = Resting,
         schema' \subseteq HeadSchema, stamped' \in 0 .. 3, seeded' \in BOOLEAN, torn' \in BOOLEAN,
         catalog' \subseteq Catalog, indexed' \subseteq Catalog
  PROVE  /\ Going'
         /\ migrator'[p] = local
         /\ \A q \in Migrators : q # p => migrator'[q] = migrator[q]
<1>1. migrator \in [Migrators -> Local]
  BY DEF Going, MigrationTypeOK, Local
<1>2. /\ migrator' \in [Migrators -> Local] /\ migrator'[p] = local
      /\ \A q \in Migrators : q # p => migrator'[q] = migrator[q]
  BY <1>1 DEF Becomes
<1>3. MigrationTypeOK'
  BY <1>2 DEF MigrationTypeOK, Local
<1>4. \A q \in Migrators : Placed(migrator'[q])
  BY <1>2 DEF Going
<1>5. ASSUME NEW q \in Migrators, migrator'[q].at = "down", NEW r \in Migrators, r # q
      PROVE  migrator'[r] = Resting
  <2>1. CASE q = p
    BY <1>2, <1>5, <2>1 DEF Going, DownAlone, AllRest
  <2>2. CASE q # p
    <3>1. migrator[q].at = "down"
      BY <1>2, <1>5, <2>2
    <3>2. \A t \in Migrators : t # q => migrator[t] = Resting
      BY <3>1 DEF Going, DownAlone
    <3>3. local = Resting
      BY <2>2, <3>1, <3>2 DEF GoingDown
    <3> QED
      BY <1>2, <1>5, <3>2, <3>3
  <2> QED
    BY <2>1, <2>2
<1> QED
  BY <1>2, <1>3, <1>4, <1>5 DEF Going, DownAlone

\* A process that is under way is at a statement of its revision; and if it
\* is on its way up, nobody is on the way down.
LEMMA UnderWay ==
  ASSUME Going, NEW p \in Migrators, migrator[p].at \in {"up", "down"}
  PROVE  /\ migrator[p] \in Local /\ migrator[p].revision \in Revisions
         /\ migrator[p].step \in 1 .. (Len(Statements(migrator[p].revision)) + 1)
         /\ migrator[p] # Resting
         /\ migrator[p].at = "up" => ~GoingDown
         /\ migrator[p].at = "down" => \A q \in Migrators : q # p => migrator[q] = Resting
<1>1. migrator[p] \in Local /\ Placed(migrator[p])
  BY DEF Going, MigrationTypeOK, Local
<1>2. migrator[p] # Resting
  BY StepsTyped
<1>3. migrator[p].at = "up" => ~GoingDown
  BY <1>2 DEF Going, DownAlone, GoingDown
<1> QED
  BY <1>1, <1>2, <1>3 DEF Placed, Going, DownAlone

\* A process begins to migrate.
LEMMA BeginStep ==
  ASSUME MigrationInv, NEW p \in Migrators, BeginUpgrade(p) \/ BeginDowngrade(p)
  PROVE  MigrationInv'
<1> USE DEF MigrationInv
<1>1. CASE BeginUpgrade(p)
  <2> DEFINE local == [at |-> "up", revision |-> stamped + 1, step |-> 1]
  <2>1. /\ stamped + 1 \in Revisions /\ 1 \in 1 .. (Len(Statements(stamped + 1)) + 1)
        /\ UNCHANGED <<schema, stamped, seeded, catalog, indexed, torn>>
    <3>1. stamped + 1 \in Revisions
      BY <1>1 DEF BeginUpgrade, Going, MigrationTypeOK, Revisions
    <3> QED
      BY <1>1, <3>1, StatementsOf DEF BeginUpgrade
  <2>2. local \in Local /\ Placed(local) /\ local.at = "up" /\ ~GoingDown /\ Becomes(p, local)
    BY <1>1, <2>1, StepsTyped DEF BeginUpgrade
  <2>3. /\ Going' /\ migrator'[p] = local
        /\ \A q \in Migrators : q # p => migrator'[q] = migrator[q]
    <3> HIDE DEF local
    <3> QED
      BY <2>1, <2>2, OneMigrates DEF Going, MigrationTypeOK
  <2>4. ~GoingDown'
    BY <2>2, <2>3 DEF GoingDown
  <2>5. ASSUME ~torn PROVE Whole'
    <3>1. SchemaOf(stamped) \subseteq schema /\ Built(stamped + 1, 1) = SchemaOf(stamped)
      <4>1. (stamped + 1) - 1 = stamped
        BY DEF Going, MigrationTypeOK
      <4> QED
        BY <2>1, <2>2, <2>5, <4>1, BuiltGrows DEF Whole
    <3>2. UpBuilt'
      BY <2>1, <2>3, <2>5, <3>1 DEF UpBuilt, Whole
    <3>3. DownLeft'
      BY <2>4 DEF DownLeft, GoingDown
    <3> QED
      BY <2>1, <2>2, <2>4, <2>5, <3>2, <3>3 DEF Whole
  <2> QED
    BY <2>1, <2>3, <2>5
<1>2. CASE BeginDowngrade(p)
  <2> DEFINE local == [at |-> "down", revision |-> stamped, step |-> 1]
  <2>1. /\ stamped \in Revisions /\ AllRest
        /\ UNCHANGED <<schema, stamped, seeded, catalog, indexed>>
    BY <1>2 DEF BeginDowngrade, Going, MigrationTypeOK, Revisions
  <2>2. local \in Local /\ Placed(local) /\ local.at = "down" /\ Becomes(p, local)
    <3>1. 1 \in 1 .. (Len(Statements(stamped)) + 1)
      BY <2>1, StatementsOf
    <3> QED
      BY <1>2, <2>1, <3>1, StepsTyped DEF BeginDowngrade
  <2>3. ~GoingDown
    BY <2>1, StepsTyped DEF AllRest, GoingDown
  <2>4. torn' \in BOOLEAN /\ (~torn' => ~torn /\ schema = SchemaOf(stamped))
    BY <1>2 DEF BeginDowngrade
  <2>5. /\ Going' /\ migrator'[p] = local
        /\ \A q \in Migrators : q # p => migrator'[q] = migrator[q]
    <3> HIDE DEF local
    <3> QED
      BY <2>1, <2>2, <2>3, <2>4, OneMigrates DEF Going, MigrationTypeOK
  <2>6. GoingDown' /\ \A q \in Migrators : q # p => migrator'[q] = Resting
    BY <2>1, <2>5 DEF GoingDown, AllRest
  <2>7. ASSUME ~torn' PROVE Whole'
    <3>1. ~torn /\ schema = SchemaOf(stamped) /\ Whole
      BY <2>4, <2>7
    <3>2. schema = Built(stamped, (Len(Statements(stamped)) + 2) - 1)
      <4>1. (Len(Statements(stamped)) + 2) - 1 = Len(Statements(stamped)) + 1
        BY <2>1, StatementsOf
      <4> QED
        BY <2>1, <3>1, <4>1, BuiltGrows
    <3>3. DownLeft'
      BY <2>1, <2>5, <2>6, <3>2, StepsTyped DEF DownLeft
    <3>4. UpBuilt'
      BY <2>5, <2>6, StepsTyped DEF UpBuilt
    <3> QED
      BY <2>1, <2>6, <3>1, <3>3, <3>4 DEF Whole
  <2> QED
    BY <2>5, <2>7
<1> QED
  BY <1>1, <1>2

\* A process on its way up executes its next statement.
LEMMA CreateStep ==
  ASSUME MigrationInv, NEW p \in Migrators, CreateNext(p)
  PROVE  MigrationInv'
<1> USE DEF MigrationInv
<1> DEFINE run == migrator[p]
           r == run.revision
           k == run.step
           statement == Statements(r)[k]
<1>1. /\ run.at = "up" /\ k <= Len(Statements(r))
      /\ UNCHANGED <<stamped, seeded, catalog, indexed, torn>>
  BY DEF CreateNext
<1>2. /\ run \in Local /\ r \in Revisions /\ k \in 1 .. Len(Statements(r))
      /\ run # Resting /\ ~GoingDown
  BY <1>1, UnderWay, StatementsOf
<1>3. /\ statement \in HeadSchema /\ Built(r, k + 1) = Built(r, k) \cup {statement}
      /\ \A parts : Built(r, k) \subseteq parts /\ Closed(parts) => Closed(parts \cup {statement})
  BY <1>2, BuiltGrows, ClosedKept
<1>4. CASE statement \in schema
  <2>1. Becomes(p, Resting) /\ UNCHANGED schema
    BY <1>4 DEF CreateNext
  <2>2. /\ Going' /\ migrator'[p] = Resting
        /\ \A q \in Migrators : q # p => migrator'[q] = migrator[q]
    BY <1>1, <2>1, StepsTyped, OneMigrates DEF Going, MigrationTypeOK, Placed
  <2>3. ~GoingDown'
    BY <1>2, <2>2, StepsTyped DEF GoingDown
  <2>4. Whole => Whole'
    BY <1>1, <1>2, <2>1, <2>2, <2>3, StepsTyped DEF Whole, UpBuilt, DownLeft, GoingDown
  <2> QED
    BY <1>1, <2>2, <2>4
<1>5. CASE statement \notin schema
  <2> DEFINE local == [run EXCEPT !.step = @ + 1]
  <2>1. schema' = schema \cup {statement} /\ Becomes(p, local)
    BY <1>5 DEF CreateNext
  <2>2. /\ local = [at |-> "up", revision |-> r, step |-> k + 1]
        /\ k + 1 \in 1 .. (Len(Statements(r)) + 1)
    BY <1>1, <1>2, StatementsOf DEF Local
  <2>3. local \in Local /\ Placed(local) /\ local.at = "up" /\ local.revision = r /\ local.step = k + 1
    BY <1>2, <2>2, StepsTyped
  <2> HIDE DEF local
  <2>4. /\ Going' /\ migrator'[p] = local
        /\ \A q \in Migrators : q # p => migrator'[q] = migrator[q]
    BY <1>1, <1>2, <1>3, <2>1, <2>3, OneMigrates DEF Going, MigrationTypeOK
  <2>5. ~GoingDown'
    BY <1>2, <2>3, <2>4 DEF GoingDown
  <2>6. ASSUME Whole PROVE Whole'
    <3>1. Built(r, k) \subseteq schema
      BY <1>1, <2>6 DEF Whole, UpBuilt
    <3>2. Closed(schema')
      BY <1>3, <2>1, <2>6, <3>1 DEF Whole
    <3>3. UpBuilt'
      BY <1>3, <2>1, <2>3, <2>4, <2>6, <3>1 DEF Whole, UpBuilt
    <3>4. DownLeft'
      BY <2>5 DEF DownLeft, GoingDown
    <3> QED
      BY <1>1, <1>2, <2>1, <2>5, <2>6, <3>2, <3>3, <3>4 DEF Whole
  <2> QED
    BY <1>1, <2>4, <2>6
<1> QED
  BY <1>4, <1>5

\* What the stamp of a revision leaves to be shown, whatever its process
\* does next.
LEMMA Commits ==
  ASSUME MigrationInv, NEW p \in Migrators, NEW r \in Revisions, NEW local \in Local,
         migrator[p].at = "up", migrator[p].revision = r, stamped = r - 1,
         migrator[p].step = Len(Statements(r)) + 1,
         Becomes(p, local), Placed(local),
         \/ local = Resting
         \/ local.at = "up" /\ local.revision = r + 1 /\ local.step = 1 /\ r + 1 \in Revisions,
         stamped' = r, seeded' = (seeded \/ r = 2),
         indexed' = IF r = 3 THEN catalog ELSE indexed,
         UNCHANGED <<schema, catalog, torn>>
  PROVE  MigrationInv'
<1> USE DEF MigrationInv
<1>1. migrator[p] # Resting /\ ~GoingDown /\ local.at # "down"
  BY UnderWay, StepsTyped
<1>2. seeded' \in BOOLEAN /\ (seeded \/ r = 2 => seeded')
  OBVIOUS
<1>3. /\ Going' /\ migrator'[p] = local
      /\ \A q \in Migrators : q # p => migrator'[q] = migrator[q]
  BY <1>1, <1>2, OneMigrates DEF Going, MigrationTypeOK, Revisions
<1>4. ~GoingDown'
  BY <1>1, <1>3 DEF GoingDown
<1>5. ASSUME Whole PROVE Whole'
  <2>1. SchemaOf(r) \subseteq schema
    BY <1>5, BuiltGrows DEF Whole, UpBuilt
  <2>2. r >= 2 => seeded'
    BY <1>2, <1>5 DEF Whole, Revisions
  <2>3. r + 1 \in Revisions => Built(r + 1, 1) = SchemaOf(r)
    <3>1. (r + 1) - 1 = r
      BY DEF Revisions
    <3> QED
      BY <3>1, BuiltGrows
  <2>4. UpBuilt'
    BY <1>3, <1>5, <2>1, <2>3, StepsTyped DEF Whole, UpBuilt
  <2>5. DownLeft'
    BY <1>4 DEF DownLeft, GoingDown
  <2> QED
    BY <1>4, <1>5, <2>1, <2>2, <2>4, <2>5 DEF Whole
<1> QED
  BY <1>3, <1>5

\* A process on its way up stamps its revision, or finds another stamp than
\* the one before it.
LEMMA CommitStep ==
  ASSUME MigrationInv, NEW p \in Migrators, CommitRevision(p)
  PROVE  MigrationInv'
<1> USE DEF MigrationInv
<1> DEFINE run == migrator[p]
           r == run.revision
<1>1. run.at = "up" /\ run.step > Len(Statements(r)) /\ UNCHANGED <<schema, catalog, torn>>
  BY DEF CommitRevision
<1>2. /\ run \in Local /\ r \in Revisions /\ run.step = Len(Statements(r)) + 1
      /\ run # Resting /\ ~GoingDown
  BY <1>1, UnderWay, StatementsOf
<1>3. CASE stamped # r - 1
  <2>1. Becomes(p, Resting) /\ UNCHANGED <<stamped, seeded, indexed>>
    BY <1>3 DEF CommitRevision
  <2>2. /\ Going' /\ migrator'[p] = Resting
        /\ \A q \in Migrators : q # p => migrator'[q] = migrator[q]
    BY <1>1, <2>1, StepsTyped, OneMigrates DEF Going, MigrationTypeOK, Placed
  <2>3. ~GoingDown'
    BY <1>2, <2>2, StepsTyped DEF GoingDown
  <2>4. Whole => Whole'
    BY <1>1, <1>2, <2>1, <2>2, <2>3, StepsTyped DEF Whole, UpBuilt, DownLeft, GoingDown
  <2> QED
    BY <1>1, <2>2, <2>4
<1>4. CASE stamped = r - 1
  <2> DEFINE local == IF r = 3 THEN Resting ELSE [run EXCEPT !.revision = @ + 1, !.step = 1]
  <2>1. /\ stamped' = r /\ seeded' = (seeded \/ r = 2)
        /\ indexed' = IF r = 3 THEN catalog ELSE indexed
        /\ Becomes(p, local)
    BY <1>4 DEF CommitRevision
  <2>2. CASE r = 3
    <3>1. local = Resting
      BY <2>2
    <3>2. local \in Local /\ Placed(local)
      BY <3>1, StepsTyped DEF Placed
    <3> HIDE DEF local
    <3> QED
      BY <1>1, <1>2, <1>4, <2>1, <3>1, <3>2, Commits
  <2>3. CASE r # 3
    <3>1. /\ r + 1 \in Revisions /\ 1 \in 1 .. (Len(Statements(r + 1)) + 1)
          /\ local = [at |-> "up", revision |-> r + 1, step |-> 1]
      <4>1. r + 1 \in Revisions
        BY <1>2, <2>3 DEF Revisions
      <4>2. local = [at |-> "up", revision |-> r + 1, step |-> 1]
        BY <1>1, <1>2, <2>3 DEF Local
      <4> QED
        BY <4>1, <4>2, StatementsOf
    <3> HIDE DEF local
    <3>2. local \in Local /\ Placed(local) /\ local.at = "up" /\ local.revision = r + 1 /\ local.step = 1
      BY <3>1, StepsTyped
    <3> QED
      BY <1>1, <1>2, <1>4, <2>1, <2>3, <3>1, <3>2, Commits
  <2> QED
    BY <2>2, <2>3
<1> QED
  BY <1>3, <1>4

\* Going down the last statement is the first to be taken back.
LEMMA UndoingOf ==
  ASSUME NEW r \in Revisions
  PROVE  /\ Len(Undoing(r)) = Len(Statements(r))
         /\ \A k \in 1 .. Len(Statements(r)) :
              Undoing(r)[k] = Statements(r)[(Len(Statements(r)) - k) + 1]
<1> DEFINE n == Len(Statements(r))
<1>1. n \in Nat /\ Statements(r) \in Seq(Range(Statements(r))) /\ DOMAIN Statements(r) = 1 .. n
  BY StatementsOf, RevisionsOrdered
<1>2. Undoing(r) = [k \in 1 .. n |-> Statements(r)[(n - k) + 1]]
  BY DEF Undoing, Reverse
<1> HIDE DEF n
<1>3. Undoing(r) \in [1 .. n -> Range(Statements(r))]
  <2>1. \A k \in 1 .. n : (n - k) + 1 \in 1 .. n
    BY <1>1
  <2> QED
    BY <1>1, <1>2, <2>1 DEF Range
<1>4. Len(Undoing(r)) = n
  BY <1>1, <1>3, IsASeq, LenProperties
<1> QED
  BY <1>2, <1>4 DEF n

\* A process on its way down takes its next statement back.
LEMMA DropStep ==
  ASSUME MigrationInv, NEW p \in Migrators, DropNext(p)
  PROVE  MigrationInv'
<1> USE DEF MigrationInv
<1> DEFINE run == migrator[p]
           r == run.revision
           n == Len(Statements(r))
           k == (n - run.step) + 1
           piece == Undoing(r)[run.step]
<1>1. run.at = "down" /\ run.step <= Len(Undoing(r)) /\ UNCHANGED <<stamped, seeded>>
  BY DEF DropNext
<1>2. /\ run \in Local /\ r \in Revisions /\ run.step \in 1 .. n /\ n \in Nat
      /\ run # Resting /\ \A q \in Migrators : q # p => migrator[q] = Resting
  BY <1>1, UnderWay, StatementsOf, UndoingOf
<1>3. k \in 1 .. n /\ piece = Statements(r)[k] /\ (n + 2) - run.step = k + 1
      /\ (n + 2) - (run.step + 1) = k
  BY <1>2, UndoingOf, SMTT(30)
<1>4. catalog' \subseteq Catalog /\ indexed' \subseteq Catalog /\ schema' \subseteq HeadSchema
  BY DEF DropNext, Going, MigrationTypeOK
<1>5. CASE piece \notin schema /\ piece.table # "books_fts"
  <2>1. Becomes(p, Resting) /\ torn' = TRUE
    BY <1>5 DEF DropNext
  <2>2. Going'
    BY <1>1, <1>4, <2>1, StepsTyped, OneMigrates DEF Going, MigrationTypeOK, Placed
  <2> QED
    BY <2>1, <2>2
<1>6. CASE ~(piece \notin schema /\ piece.table # "books_fts")
  <2> DEFINE local == [run EXCEPT !.step = @ + 1]
  <2>1. schema' = schema \ {piece} /\ Becomes(p, local) /\ UNCHANGED torn
    BY <1>6 DEF DropNext
  <2>2. /\ local = [at |-> "down", revision |-> r, step |-> run.step + 1]
        /\ run.step + 1 \in 1 .. (n + 1)
    BY <1>1, <1>2 DEF Local
  <2> HIDE DEF local
  <2>3. local \in Local /\ Placed(local) /\ local.at = "down" /\ local.revision = r
        /\ local.step = run.step + 1
    BY <1>2, <2>2, StepsTyped
  <2>4. /\ Going' /\ migrator'[p] = local
        /\ \A q \in Migrators : q # p => migrator'[q] = migrator[q]
    BY <1>1, <1>2, <1>4, <2>1, <2>3, OneMigrates DEF Going, MigrationTypeOK
  <2>5. GoingDown' /\ \A q \in Migrators : q # p => migrator'[q] = Resting
    BY <1>2, <2>3, <2>4 DEF GoingDown
  <2>6. ASSUME Whole PROVE Whole'
    <3>1. r = stamped /\ schema = Built(r, k + 1)
      BY <1>1, <1>3, <2>6 DEF Whole, DownLeft
    <3>2. schema' = Built(r, k)
      BY <1>2, <1>3, <2>1, <3>1, BuiltGrows
    <3>3. Closed(schema')
      BY <1>2, <1>3, <3>2, ClosedKept
    <3>4. UpBuilt'
      BY <2>3, <2>4, <2>5, StepsTyped DEF UpBuilt
    <3>5. DownLeft'
      <4>1. migrator'[p].revision = stamped'
            /\ schema' = Built(stamped', (Len(Statements(stamped')) + 2) - migrator'[p].step)
        BY <1>1, <1>3, <2>3, <2>4, <3>1, <3>2
      <4> QED
        BY <2>5, <4>1, StepsTyped DEF DownLeft
    <3> QED
      BY <1>1, <2>5, <2>6, <3>3, <3>4, <3>5 DEF Whole
  <2> QED
    BY <2>1, <2>4, <2>6
<1> QED
  BY <1>5, <1>6

\* A downgrade ends with the stamp of the revision before.
LEMMA DowngradedStep ==
  ASSUME MigrationInv, NEW p \in Migrators, CommitDowngrade(p)
  PROVE  MigrationInv'
<1> USE DEF MigrationInv
<1> DEFINE run == migrator[p]
           r == run.revision
           n == Len(Statements(r))
<1>1. /\ run.at = "down" /\ run.step > Len(Undoing(r)) /\ UNCHANGED <<schema, catalog, indexed, torn>>
      /\ Becomes(p, Resting) /\ stamped' = r - 1
  BY DEF CommitDowngrade
<1>2. seeded' = (seeded /\ r = 3)
  BY DEF CommitDowngrade
<1>3. seeded' \in BOOLEAN /\ (seeded /\ r = 3 => seeded')
  BY <1>2
<1>4. /\ run \in Local /\ r \in Revisions /\ run.step = n + 1 /\ n \in Nat
      /\ run # Resting /\ \A q \in Migrators : q # p => migrator[q] = Resting
  BY <1>1, UnderWay, StatementsOf, UndoingOf
<1>5. r - 1 \in 0 .. 3
  BY <1>4 DEF Revisions
<1>6. /\ Going' /\ migrator'[p] = Resting
      /\ \A q \in Migrators : q # p => migrator'[q] = migrator[q]
  BY <1>1, <1>3, <1>5, StepsTyped, OneMigrates DEF Going, MigrationTypeOK, Placed
<1>7. \A q \in Migrators : migrator'[q].at = "idle"
  BY <1>4, <1>6, StepsTyped
<1>8. ASSUME Whole PROVE Whole'
  <2>1. r = stamped /\ schema = Built(r, 1)
    <3>1. (n + 2) - (n + 1) = 1
      BY <1>4
    <3> QED
      BY <1>1, <1>4, <1>8, <3>1 DEF Whole, DownLeft
  <2>2. schema' = SchemaOf(stamped')
    BY <1>1, <1>4, <2>1, BuiltGrows
  <2>3. stamped' >= 2 => r = 3 /\ stamped >= 2
    BY <1>1, <1>4, <2>1 DEF Revisions
  <2>4. stamped' >= 2 => seeded'
    BY <1>3, <1>8, <2>3 DEF Whole
  <2>5. stamped' # 3
    BY <1>1, <1>4 DEF Revisions
  <2>6. UpBuilt' /\ DownLeft'
    BY <1>7 DEF UpBuilt, DownLeft
  <2> QED
    BY <1>1, <1>8, <2>2, <2>4, <2>5, <2>6 DEF Whole
<1> QED
  BY <1>1, <1>6, <1>8

\* A process is killed: what it did stays, and so does what is known of it.
LEMMA KillStep ==
  ASSUME MigrationInv, NEW p \in Migrators, KillMigrator(p)
  PROVE  MigrationInv'
<1> USE DEF MigrationInv
<1>1. /\ UNCHANGED <<schema, stamped, seeded, catalog, indexed>>
      /\ Becomes(p, Resting) /\ migrator[p] # Resting
  BY DEF KillMigrator
<1>2. torn' \in BOOLEAN /\ (~torn' => ~torn /\ migrator[p].at # "down")
  BY DEF KillMigrator
<1>3. /\ Going' /\ migrator'[p] = Resting
      /\ \A q \in Migrators : q # p => migrator'[q] = migrator[q]
  BY <1>1, <1>2, StepsTyped, OneMigrates DEF Going, MigrationTypeOK, Placed
<1>4. ASSUME ~torn' PROVE Whole'
  <2>1. Whole /\ migrator[p].at # "down"
    BY <1>2, <1>4
  <2>2. GoingDown' <=> GoingDown
    BY <1>3, <2>1, StepsTyped DEF GoingDown
  <2> QED
    BY <1>1, <1>3, <2>1, <2>2, StepsTyped DEF Whole, UpBuilt, DownLeft
<1> QED
  BY <1>3, <1>4

\* Every step of a migration, and every new book, keeps the invariant.
LEMMA MigrationInvStep == MigrationInv /\ [MigrationNext]_migrationVars => MigrationInv'
<1> SUFFICES ASSUME MigrationInv, [MigrationNext]_migrationVars PROVE MigrationInv'
  OBVIOUS
<1>1. CASE UNCHANGED migrationVars
  BY <1>1 DEF migrationVars, MigrationInv, Going, MigrationTypeOK, DownAlone, Whole, GoingDown,
              UpBuilt, DownLeft
<1>2. ASSUME NEW b \in Catalog, AddBook(b) PROVE MigrationInv'
  <2>1. UNCHANGED <<schema, stamped, seeded, torn, migrator>> /\ catalog' = catalog \cup {b}
    BY <1>2 DEF AddBook
  <2>2. /\ indexed' \subseteq Catalog
        /\ stamped = 3 => indexed' = indexed \cup {b}
    BY <1>2 DEF AddBook, MigrationInv, Going, MigrationTypeOK
  <2>3. Going'
    BY <2>1, <2>2 DEF MigrationInv, Going, MigrationTypeOK, DownAlone
  <2>4. Whole => Whole'
    BY <2>1, <2>2 DEF Whole, GoingDown, UpBuilt, DownLeft
  <2> QED
    BY <2>1, <2>3, <2>4 DEF MigrationInv
<1>3. ASSUME NEW p \in Migrators,
             \/ BeginUpgrade(p) \/ CreateNext(p) \/ CommitRevision(p)
             \/ BeginDowngrade(p) \/ DropNext(p) \/ CommitDowngrade(p) \/ KillMigrator(p)
      PROVE  MigrationInv'
  BY <1>3, BeginStep, CreateStep, CommitStep, DropStep, DowngradedStep, KillStep
<1> QED
  BY <1>1, <1>2, <1>3 DEF MigrationNext

-----------------------------------------------------------------------------
(* The theorems on the migrations.                                         *)

\* Each process finds the schema as it left it, whatever overlaps or dies.
THEOREM MigrationInvariant == MigrationSpec => []MigrationInv
  BY MigrationInvInit, MigrationInvStep, PTL DEF MigrationSpec

\* Every variable of the migrations' model keeps its type.
THEOREM MigrationTypeCorrect == MigrationSpec => []MigrationTypeOK
<1>1. MigrationInv => MigrationTypeOK
  BY DEF MigrationInv, Going
<1> QED
  BY <1>1, MigrationInvariant, PTL

\* Whatever processes are killed and however they overlap, a stamped database
\* has what its stamp says, unless a downgrade was broken off.
THEOREM Stamped == MigrationSpec => []StampedIsWhole
<1>1. MigrationInv => StampedIsWhole
  BY DEF MigrationInv, Whole, Closed, StampedIsWhole
<1> QED
  BY <1>1, MigrationInvariant, PTL

-----------------------------------------------------------------------------
(* The X4 optimizer.                                                       *)

\* What the optimizer writes of an edition.
Optimized(e, decodable) ==
  [members |-> [m \in ItemMembers |-> Converted(e, m, decodable)],
   items |-> Rewritten(e, Reencoded(e, decodable)),
   spine |-> e.spine]

\* An artifact is what the optimizer wrote of the edition at hand, and one
\* that is accepted has the spine of it.
X4Inv ==
  /\ X4TypeOK
  /\ rendering \in {"written", "accepted"} =>
       \E decodable \in SUBSET ItemMembers : artifact = Optimized(source, decodable)
  /\ rendering = "accepted" => SpineMembers(artifact) = SpineMembers(source)

\* A package at hand, if any, has members, items and a spine.
LEMMA EditionTyped ==
  ASSUME NEW e \in Editions \cup {NoEdition}
  PROVE  /\ e.members \in [ItemMembers -> {"absent", "source"}]
         /\ e.items \in Seq(Item)
         /\ e.spine \in Seq(ItemIds)
<1>1. CASE e \in Editions
  BY <1>1, EditionAssumption
<1>2. CASE e = NoEdition
  <2>1. <<>> \in Seq(Item) /\ <<>> \in Seq(ItemIds)
    OBVIOUS
  <2>2. e.members = [m \in ItemMembers |-> "absent"]
    BY <1>2 DEF NoEdition
  <2>3. e.items = <<>> /\ e.spine = <<>>
    BY <1>2 DEF NoEdition
  <2>4. e.members \in [ItemMembers -> {"absent", "source"}]
    BY <2>2
  <2> QED
    BY <2>1, <2>3, <2>4
<1> QED
  BY <1>1, <1>2

\* The item of an id has it, and there is one unless no item has it.
LEMMA ItemOfIs ==
  ASSUME NEW e, e.items \in Seq(Item), NEW id
  PROVE  /\ ItemOf(e, id) \in 0 .. Len(e.items)
         /\ ItemOf(e, id) # 0 => e.items[ItemOf(e, id)].id = id
         /\ ItemOf(e, id) = 0 => \A k \in 1 .. Len(e.items) : e.items[k].id # id
<1> DEFINE I == {k \in 1 .. Len(e.items) : e.items[k].id = id}
<1>1. ItemOf(e, id) = IF I # {} THEN Max(I) ELSE 0
  BY DEF ItemOf, SelectLastInSeq
<1>2. CASE I = {}
  <2>1. Len(e.items) \in Nat
    OBVIOUS
  <2> QED
    BY <1>1, <1>2, <2>1
<1>3. CASE I # {}
  <2>1. Len(e.items) \in Nat /\ I \subseteq 0 .. Len(e.items)
    OBVIOUS
  <2> HIDE DEF I
  <2>2. PICK k \in I : \A j \in I : j <= k
    BY <1>3, <2>1, GreatestNatural
  <2>3. k \in I /\ \A j \in I : k >= j
    BY <2>1, <2>2
  <2>4. Max(I) \in I
    BY <2>3 DEF Max
  <2>5. ItemOf(e, id) \in I
    BY <1>1, <1>3, <2>4
  <2> QED
    BY <2>5 DEF I
<1> QED
  BY <1>2, <1>3

\* So is the item by which a member counts as a picture.
LEMMA PictureOfIs ==
  ASSUME NEW e, e.items \in Seq(Item), NEW m
  PROVE  LET k == PictureOf(e, m) IN
         /\ k \in 0 .. Len(e.items)
         /\ k # 0 => e.items[k].member = m /\ Classified(e, e.items[k].id, {"image", "png"})
<1> DEFINE I == {k \in 1 .. Len(e.items) :
                   e.items[k].member = m /\ Classified(e, e.items[k].id, {"image", "png"})}
<1>1. PictureOf(e, m) = IF I # {} THEN Max(I) ELSE 0
  BY DEF PictureOf, SelectLastInSeq
<1>2. CASE I = {}
  <2>1. Len(e.items) \in Nat
    OBVIOUS
  <2> QED
    BY <1>1, <1>2, <2>1
<1>3. CASE I # {}
  <2>1. Len(e.items) \in Nat /\ I \subseteq 0 .. Len(e.items)
    OBVIOUS
  <2> HIDE DEF I
  <2>2. PICK k \in I : \A j \in I : j <= k
    BY <1>3, <2>1, GreatestNatural
  <2>3. k \in I /\ \A j \in I : k >= j
    BY <2>1, <2>2
  <2>4. Max(I) \in I
    BY <2>3 DEF Max
  <2>5. PictureOf(e, m) \in I
    BY <1>1, <1>3, <2>4
  <2> QED
    BY <2>5 DEF I
<1> QED
  BY <1>2, <1>3

\* What stays in the package document is an item of the source that has not
\* been dropped, declared PNG if its picture has been converted.
LEMMA RewrittenIs ==
  ASSUME NEW e, e.items \in Seq(Item), NEW reencoded
  PROVE  /\ Rewritten(e, reencoded) \in Seq(Item)
         /\ \A item \in Range(Rewritten(e, reencoded)) :
              \E i \in Range(e.items) :
                /\ i.id \notin Dropped(e)
                /\ item = IF i.id \in reencoded THEN [i EXCEPT !.type = "png"] ELSE i
<1> DEFINE good == {i \in Range(e.items) : i.id \notin Dropped(e)}
           kept == Kept(e.items, good)
           r == [k \in DOMAIN kept |->
                   IF kept[k].id \in reencoded THEN [kept[k] EXCEPT !.type = "png"] ELSE kept[k]]
<1>1. kept \in Seq(Item \cap good)
  <2> HIDE DEF good
  <2> QED
    BY KeptElements
<1>2. Rewritten(e, reencoded) = r
  BY DEF Rewritten
<1> HIDE DEF kept
<1>3. \A k \in DOMAIN kept : kept[k] \in Item /\ kept[k] \in good
  BY <1>1
<1>4. \A i \in Item : [i EXCEPT !.type = "png"] \in Item
  BY DEF Item, Types
<1>5. r \in Seq(Item)
  <2>1. DOMAIN kept = 1 .. Len(kept) /\ Len(kept) \in Nat
    BY <1>1
  <2>2. \A k \in 1 .. Len(kept) : r[k] \in Item
    BY <1>3, <1>4, <2>1
  <2> QED
    BY <2>1, <2>2
<1>6. ASSUME NEW item \in Range(r)
      PROVE  \E i \in Range(e.items) :
                /\ i.id \notin Dropped(e)
                /\ item = IF i.id \in reencoded THEN [i EXCEPT !.type = "png"] ELSE i
  <2>1. PICK k \in DOMAIN kept : item = r[k]
    BY DEF Range
  <2>2. kept[k] \in Range(e.items) /\ kept[k].id \notin Dropped(e)
    BY <1>3
  <2> QED
    BY <2>1, <2>2
<1> HIDE DEF r
<1> QED
  BY <1>2, <1>5, <1>6

\* What the optimizer writes is a package too.
LEMMA OptimizedTyped ==
  ASSUME NEW e \in Editions \cup {NoEdition}, NEW decodable
  PROVE  /\ Optimized(e, decodable).members \in [ItemMembers -> Contents]
         /\ Optimized(e, decodable).items \in Seq(Item)
         /\ Optimized(e, decodable).spine \in Seq(ItemIds)
<1>1. e.items \in Seq(Item) /\ e.spine \in Seq(ItemIds)
  BY EditionTyped
<1>2. \A m \in ItemMembers : Converted(e, m, decodable) \in Contents
  BY DEF Converted, Contents
<1>3. Rewritten(e, Reencoded(e, decodable)) \in Seq(Item)
  BY <1>1, RewrittenIs
<1> QED
  BY <1>1, <1>2, <1>3 DEF Optimized

\* A member is in the artifact's spine only if its package document has it.
LEMMA SpineFrom ==
  ASSUME NEW e, e.items \in Seq(Item), e.spine \in Seq(ItemIds),
         NEW m \in Range(SpineMembers(e))
  PROVE  \E item \in Range(e.items) : item.member = m
<1> DEFINE good == {id \in ItemIds : ItemOf(e, id) # 0}
           known == Kept(e.spine, good)
<1>1. known \in Seq(ItemIds \cap good)
  <2> HIDE DEF good
  <2> QED
    BY KeptElements
<1>2. SpineMembers(e) = [k \in DOMAIN known |-> e.items[ItemOf(e, known[k])].member]
  BY DEF SpineMembers
<1> HIDE DEF known
<1>3. PICK k \in DOMAIN known : m = e.items[ItemOf(e, known[k])].member
  BY <1>2 DEF Range
<1>4. ItemOf(e, known[k]) # 0
  BY <1>1, <1>3
<1>5. ItemOf(e, known[k]) \in DOMAIN e.items
  <2>1. ItemOf(e, known[k]) \in 0 .. Len(e.items)
    BY ItemOfIs
  <2>2. Len(e.items) \in Nat /\ DOMAIN e.items = 1 .. Len(e.items)
    OBVIOUS
  <2> QED
    BY <1>4, <2>1, <2>2
<1> QED
  BY <1>3, <1>5 DEF Range

\* An item that shares neither id nor member: it is the only one of its
\* member, and the item of its id.
LEMMA DistinctAlone ==
  ASSUME NEW item, source.items \in Seq(Item), NEW i \in Range(source.items),
         i.member = item.member, Distinct(item)
  PROVE  /\ \A k \in DOMAIN source.items :
              source.items[k].member = i.member \/ source.items[k].id = i.id => source.items[k] = i
         /\ ItemOf(source, i.id) # 0 /\ source.items[ItemOf(source, i.id)] = i
<1>1. PICK n \in DOMAIN source.items : source.items[n] = i
  BY DEF Range
<1>2. \A k \in DOMAIN source.items :
        source.items[k].member = i.member \/ source.items[k].id = i.id => k = n
  BY <1>1 DEF Distinct
<1>3. DOMAIN source.items = 1 .. Len(source.items) /\ Len(source.items) \in Nat
  OBVIOUS
<1>4. ItemOf(source, i.id) # 0
  BY <1>1, <1>3, ItemOfIs
<1>5. /\ ItemOf(source, i.id) \in DOMAIN source.items
      /\ source.items[ItemOf(source, i.id)].id = i.id
  <2>1. ItemOf(source, i.id) \in 0 .. Len(source.items)
        /\ source.items[ItemOf(source, i.id)].id = i.id
    BY <1>4, ItemOfIs
  <2> QED
    BY <2>1, <1>3, <1>4
<1> QED
  BY <1>1, <1>2, <1>4, <1>5

\* The type by which such an item counts is its own.
LEMMA DistinctClassified ==
  ASSUME NEW item, source.items \in Seq(Item), NEW i \in Range(source.items),
         i.member = item.member, Distinct(item), NEW types
  PROVE  Classified(source, i.id, types) <=> i.type \in types
BY DistinctAlone DEF Classified

\* The members the spine leads to are there if they were: the package document
\* that was written still names them, by an item whose id is not dropped.
LEMMA MembersStay ==
  ASSUME source \in Editions \cup {NoEdition}, NEW decodable, artifact = Optimized(source, decodable),
         SpineMembers(artifact) = SpineMembers(source),
         NEW m \in Range(SpineMembers(source)), ~Contended(m)
  PROVE  artifact.members[m] = "absent" <=> source.members[m] = "absent"
<1>1. source.items \in Seq(Item)
  BY EditionTyped
<1>2. artifact.items \in Seq(Item) /\ artifact.spine \in Seq(ItemIds)
  BY OptimizedTyped
<1>3. PICK a \in Range(artifact.items) : a.member = m
  BY <1>2, SpineFrom
<1>4. PICK i \in Range(source.items) :
        i.id \notin Dropped(source) /\ (a = i \/ a = [i EXCEPT !.type = "png"])
  <2>1. artifact.items = Rewritten(source, Reencoded(source, decodable))
    BY DEF Optimized
  <2> QED
    BY <1>1, <1>3, <2>1, RewrittenIs
<1>5. i \in Item /\ i.member = m /\ m \in ItemMembers
  <2>1. i \in Item
    BY <1>1 DEF Range
  <2> QED
    BY <2>1, <1>3, <1>4 DEF Item
<1>6. artifact.members[m] = Converted(source, m, decodable)
  BY <1>5 DEF Optimized
<1>7. m \notin DroppedMembers(source)
  <2> SUFFICES ASSUME NEW d \in Range(source.items), d.id \in Dropped(source), d.member = m
               PROVE  FALSE
    BY DEF DroppedMembers
  <2>1. PICK k \in DOMAIN source.items : source.items[k] = i
    BY DEF Range
  <2>2. PICK l \in DOMAIN source.items : source.items[l] = d
    BY DEF Range
  <2> DEFINE n == ItemOf(source, d.id)
  <2>3. n # 0 /\ source.items[n].type = "media"
    BY DEF Dropped, Classified
  <2>4. n \in DOMAIN source.items /\ source.items[n].id = d.id
    <3>1. n \in 0 .. Len(source.items) /\ source.items[n].id = d.id
      BY <1>1, <2>3, ItemOfIs
    <3>2. DOMAIN source.items = 1 .. Len(source.items) /\ Len(source.items) \in Nat
      BY <1>1
    <3> QED
      BY <2>3, <3>1, <3>2
  <2>5. i.id # d.id
    BY <1>4
  <2> HIDE DEF n
  <2> QED
    BY <1>5, <2>1, <2>2, <2>3, <2>4, <2>5 DEF Contended
<1> QED
  BY <1>6, <1>7 DEF Converted

\* What is declared of a member is what is in it.
LEMMA DeclaredIs ==
  ASSUME source \in Editions \cup {NoEdition}, NEW decodable, artifact = Optimized(source, decodable),
         NEW item \in Range(artifact.items), Distinct(item)
  PROVE  LET now == artifact.members[item.member] IN
         /\ item.type = "document" => now \in {"source", "absent"}
         /\ now = "converted" => item.type = "png"
         /\ item \notin Range(source.items) => now = "converted"
<1> DEFINE m == item.member
           now == artifact.members[m]
           reencoded == Reencoded(source, decodable)
           p == PictureOf(source, m)
<1>1. source.items \in Seq(Item)
  BY EditionTyped
<1>2. PICK i \in Range(source.items) :
        /\ i.id \notin Dropped(source)
        /\ item = IF i.id \in reencoded THEN [i EXCEPT !.type = "png"] ELSE i
  <2>1. artifact.items = Rewritten(source, reencoded)
    BY DEF Optimized
  <2> QED
    BY <1>1, <2>1, RewrittenIs
<1>3. i \in Item /\ i.member = m /\ m \in ItemMembers
  <2>1. i \in Item
    BY <1>1 DEF Range
  <2> QED
    BY <2>1, <1>2 DEF Item
<1>4. now = Converted(source, m, decodable)
  BY <1>3 DEF Optimized
<1>5. DOMAIN source.items = 1 .. Len(source.items) /\ Len(source.items) \in Nat
  BY <1>1
<1>6. p # 0 => p \in DOMAIN source.items /\ source.items[p] = i /\ i.type \in {"image", "png"}
  <2> SUFFICES ASSUME p # 0
               PROVE  p \in DOMAIN source.items /\ source.items[p] = i /\ i.type \in {"image", "png"}
    OBVIOUS
  <2>1. /\ p \in 0 .. Len(source.items) /\ source.items[p].member = m
        /\ Classified(source, source.items[p].id, {"image", "png"})
    BY <1>1, PictureOfIs
  <2>2. p \in DOMAIN source.items
    BY <1>5, <2>1
  <2>3. source.items[p] = i
    BY <1>1, <1>3, <2>1, <2>2, DistinctAlone
  <2> QED
    BY <1>1, <1>3, <2>1, <2>2, <2>3, DistinctClassified
<1>7. now = "converted" => p # 0 /\ i.id \in reencoded
  <2> SUFFICES ASSUME now = "converted" PROVE p # 0 /\ i.id \in reencoded
    OBVIOUS
  <2>1. p # 0
    BY <1>4 DEF Converted
  <2> QED
    BY <1>3, <1>4, <1>6, <2>1 DEF Reencoded
<1>8. i.id \in reencoded => now = "converted"
  <2> SUFFICES ASSUME i.id \in reencoded PROVE now = "converted"
    OBVIOUS
  <2>1. PICK n \in ItemMembers :
          /\ PictureOf(source, n) # 0 /\ Converted(source, n, decodable) = "converted"
          /\ source.items[PictureOf(source, n)].id = i.id
    BY DEF Reencoded
  <2>2. /\ PictureOf(source, n) \in 0 .. Len(source.items)
        /\ source.items[PictureOf(source, n)].member = n
    BY <1>1, <2>1, PictureOfIs
  <2>3. PictureOf(source, n) \in DOMAIN source.items
    BY <1>5, <2>1, <2>2
  <2>4. source.items[PictureOf(source, n)] = i
    BY <1>1, <1>3, <2>1, <2>3, DistinctAlone
  <2> QED
    BY <1>3, <1>4, <2>1, <2>2, <2>4
<1>9. i.id \in reencoded => item.type = "png"
  BY <1>2, <1>3 DEF Item
<1>10. ASSUME item.type = "document" PROVE now \in {"source", "absent"}
  <2>1. item = i /\ i.type = "document"
    BY <1>2, <1>9, <1>10
  <2>2. p = 0
    BY <1>6, <2>1
  <2>3. m \notin StyleMembers(source)
    <3> SUFFICES ASSUME NEW c \in Range(source.items), Classified(source, c.id, {"css"}), c.member = m
                 PROVE  FALSE
      BY DEF StyleMembers
    <3>1. PICK k \in DOMAIN source.items : source.items[k] = c
      BY DEF Range
    <3>2. c = i
      BY <1>1, <1>3, <3>1, DistinctAlone
    <3>3. i.type \in {"css"}
      BY <1>1, <1>3, <3>2, DistinctClassified
    <3> QED
      BY <2>1, <3>3
  <2> QED
    BY <1>4, <2>2, <2>3 DEF Converted
<1>11. ASSUME item \notin Range(source.items) PROVE now = "converted"
  BY <1>2, <1>8, <1>11
<1> QED
  BY <1>7, <1>9, <1>10, <1>11

\* What the optimizer wrote has what the locators point at.
LEMMA X4InvSurvives == X4Inv => LocatorsSurvive
<1> SUFFICES ASSUME X4Inv, rendering = "accepted"
             PROVE  /\ SpineMembers(artifact) = SpineMembers(source)
                    /\ \A m \in Range(SpineMembers(source)) :
                         \/ artifact.members[m] = "absent" <=> source.members[m] = "absent"
                         \/ Contended(m)
                    /\ \A item \in Range(artifact.items) : Distinct(item) =>
                         LET now == artifact.members[item.member] IN
                         /\ item.type = "document" => now \in {"source", "absent"}
                         /\ now = "converted" => item.type = "png"
                         /\ item \notin Range(source.items) => now = "converted"
  BY DEF LocatorsSurvive
<1>1. SpineMembers(artifact) = SpineMembers(source) /\ source \in Editions \cup {NoEdition}
  BY DEF X4Inv, X4TypeOK
<1>2. PICK decodable \in SUBSET ItemMembers : artifact = Optimized(source, decodable)
  BY DEF X4Inv
<1>3. \A m \in Range(SpineMembers(source)) :
        (artifact.members[m] = "absent" <=> source.members[m] = "absent") \/ Contended(m)
  BY <1>1, <1>2, MembersStay
<1>4. ASSUME NEW item \in Range(artifact.items), Distinct(item)
      PROVE  LET now == artifact.members[item.member] IN
             /\ item.type = "document" => now \in {"source", "absent"}
             /\ now = "converted" => item.type = "png"
             /\ item \notin Range(source.items) => now = "converted"
  BY <1>1, <1>2, <1>4, DeclaredIs
<1> QED
  BY <1>1, <1>3, <1>4

\* The invariant holds before a package is at hand.
LEMMA X4InvInit == X4Init => X4Inv
<1> SUFFICES ASSUME X4Init PROVE X4Inv
  OBVIOUS
<1>1. source = NoEdition /\ artifact = NoEdition /\ rendering = "idle"
  BY DEF X4Init
<1>2. artifact.items \in Seq(Item) /\ artifact.spine \in Seq(ItemIds)
      /\ artifact.members \in [ItemMembers -> {"absent", "source"}]
  BY <1>1, EditionTyped
<1> QED
  BY <1>1, <1>2 DEF X4Inv, X4TypeOK, Contents

\* Opening a package, writing the artifact, and judging it keep the invariant.
LEMMA X4InvStep == X4Inv /\ [X4Next]_x4Vars => X4Inv'
<1> SUFFICES ASSUME X4Inv, [X4Next]_x4Vars PROVE X4Inv'
  OBVIOUS
<1> USE DEF X4Inv
<1>1. ASSUME NEW e \in Editions, Parse(e) PROVE X4Inv'
  BY <1>1 DEF Parse, X4TypeOK
<1>2. ASSUME NEW decodable \in SUBSET ItemMembers, WriteArchive(decodable) PROVE X4Inv'
  <2>1. source' = source /\ source \in Editions \cup {NoEdition}
    BY <1>2 DEF WriteArchive, X4TypeOK
  <2>2. CASE rendering' = "refused" /\ artifact' = artifact
    BY <2>1, <2>2 DEF X4TypeOK
  <2>3. CASE rendering' = "written" /\ artifact' = Optimized(source, decodable)
    <3>1. /\ artifact'.members \in [ItemMembers -> Contents]
          /\ artifact'.items \in Seq(Item) /\ artifact'.spine \in Seq(ItemIds)
      BY <2>1, <2>3, OptimizedTyped
    <3>2. artifact' = Optimized(source, decodable)'
      BY <2>1, <2>3
    <3> QED
      BY <2>1, <2>3, <3>1, <3>2 DEF X4TypeOK
  <2> QED
    BY <1>2, <2>2, <2>3 DEF WriteArchive, Optimized
<1>3. CASE VerifySpine
  <2>1. source' = source /\ artifact' = artifact /\ rendering = "written"
        /\ rendering' = IF SpineKept THEN "accepted" ELSE "refused"
    BY <1>3 DEF VerifySpine
  <2>2. PICK decodable \in SUBSET ItemMembers : artifact = Optimized(source, decodable)
    BY <2>1
  <2> QED
    BY <2>1, <2>2 DEF X4TypeOK, SpineKept
<1>4. CASE NextEdition
  <2>1. source' = NoEdition /\ artifact' = NoEdition /\ rendering' = "idle"
    BY <1>4 DEF NextEdition
  <2>2. /\ NoEdition.items \in Seq(Item) /\ NoEdition.spine \in Seq(ItemIds)
        /\ NoEdition.members \in [ItemMembers -> {"absent", "source"}]
    BY EditionTyped
  <2> QED
    BY <2>1, <2>2 DEF X4TypeOK, Contents
<1>5. CASE UNCHANGED x4Vars
  BY <1>5 DEF x4Vars, X4TypeOK
<1> QED
  BY <1>1, <1>2, <1>3, <1>4, <1>5 DEF X4Next

\* An accepted artifact is what the optimizer wrote of the package at hand, and
\* has its spine, for any packages.
THEOREM X4Invariant == X4Spec => []X4Inv
BY X4InvInit, X4InvStep, PTL DEF X4Spec

\* The state of a rendering has its type.
THEOREM X4TypeCorrect == X4Spec => []X4TypeOK
<1>1. X4Inv => X4TypeOK
  BY DEF X4Inv
<1> QED
  BY <1>1, X4Invariant, PTL

\* An accepted artifact has all that a locator can point at, in the order the
\* source has it, and declares of its members what is in them, for any package
\* and whatever pictures can be decoded.
THEOREM Survive == X4Spec => []LocatorsSurvive
BY X4InvSurvives, X4Invariant, PTL

-----------------------------------------------------------------------------
(* The five together.                                                      *)

\* A behavior of the five is a behavior of each of them: one part moves and the
\* others stand still.
THEOREM UpkeepParts == Spec => ScanSpec /\ MatchSpec /\ CacheSpec /\ MigrationSpec /\ X4Spec
<1>1. Init => ScanInit /\ MatchInit /\ CacheInit /\ MigrationInit /\ X4Init
  BY DEF Init
<1>2. [Next]_vars => [ScanNext]_scanVars
  BY DEF Next, vars
<1>3. [Next]_vars => [MatchNext]_matchVars
  BY DEF Next, vars
<1>4. [Next]_vars => [CacheNext]_cacheVars
  BY DEF Next, vars
<1>5. [Next]_vars => [MigrationNext]_migrationVars
  BY DEF Next, vars
<1>6. [Next]_vars => [X4Next]_x4Vars
  BY DEF Next, vars
<1> QED
  BY <1>1, <1>2, <1>3, <1>4, <1>5, <1>6, PTL DEF Spec, ScanSpec, MatchSpec, CacheSpec, MigrationSpec, X4Spec

\* Each of the five keeps its types, whichever is at work.
THEOREM UpkeepTypeCorrect == Spec => []TypeOK
<1>1. ScanTypeOK /\ MatchTypeOK /\ CacheTypeOK /\ MigrationTypeOK /\ X4TypeOK => TypeOK
  BY DEF TypeOK
<1> QED
  BY <1>1, UpkeepParts, ScanTypeCorrect, MatchTypeCorrect, CacheTypeCorrect,
    MigrationTypeCorrect, X4TypeCorrect, PTL
=============================================================================
