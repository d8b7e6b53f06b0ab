--------------------------- MODULE EvictionProofs ---------------------------
(***************************************************************************)
(* Proofs about the upkeep of the artifact cache, for any artifacts, sizes,*)
(* limit and number of jobs.                                               *)
(*                                                                         *)
(* An eviction works from the list it made, and adds up what it frees,     *)
(* while others sweep and evict.  The invariant says what its list and its *)
(* sums are worth as long as nothing is stored or cleared: every artifact  *)
(* that is there is still on the list or was given up, in the order        *)
(* listed, and weighs no more than when it was listed.  These weights and  *)
(* what was freed are no more than the total, but for what was counted     *)
(* twice.                                                                  *)
(***************************************************************************)
EXTENDS CacheEviction, SelectionProofs, TLAPS

-----------------------------------------------------------------------------
(* Evictions.                                                              *)

Statuses == {"none", "right", "wrong"}
Listed == [path : Artifacts, size : Nat]
UpkeepState ==
  [at : {"idle", "check", "list", "sidecar", "artifact"}, check : SUBSET Artifacts,
   listed : Seq(Listed), total : Nat, freed : Nat, doubled : Nat, stuck : SUBSET Artifacts,
   quiet : BOOLEAN, alone : BOOLEAN]

OneEach(s) == \A i, k \in DOMAIN s : s[i].path = s[k].path => i = k

\* What an artifact takes with its sidecar, and what all of them take.
HeftBy(sc) == [e \in Stored |-> e.size + IF sc[e.path] = "none" THEN 0 ELSE SidecarSize]
Held(s, sc) == Total(Weighed(s, HeftBy(sc)))

\* The list s without the path p.
Drop(s, p) == Kept(s, {e \in Range(s) : e.path # p})

\* An entry is of an artifact, and has a size.
LEMMA EntryTyped ==
  ASSUME NEW e \in Stored
  PROVE  e.path \in Artifacts /\ e.size \in Nat /\ e.size \in Sizes
BY CacheAssumption DEF Stored

\* Every entry weighs a number of bytes, with a sidecar or without.
LEMMA HeftTyped ==
  ASSUME NEW sc
  PROVE  HeftBy(sc) \in [Stored -> Nat]
<1>1. ASSUME NEW e \in Stored PROVE (e.size + IF sc[e.path] = "none" THEN 0 ELSE SidecarSize) \in Nat
  BY EntryTyped, CacheAssumption
<1> QED
  BY <1>1 DEF HeftBy

\* What is left without a path is all the rest of the list, in its order.
LEMMA DropIs ==
  ASSUME NEW s \in Seq(Stored), OneEach(s), NEW p
  PROVE  /\ Drop(s, p) \in Seq(Stored) /\ OneEach(Drop(s, p))
         /\ \A i \in DOMAIN Drop(s, p) : Drop(s, p)[i].path # p
         /\ \E at : /\ \A i \in DOMAIN Drop(s, p) : at[i] \in DOMAIN s /\ Drop(s, p)[i] = s[at[i]]
                    /\ \A i, k \in DOMAIN Drop(s, p) : i < k => at[i] < at[k]
<1> DEFINE good == {e \in Range(s) : e.path # p}
           d == Kept(s, good)
<1>1. d \in Seq(Stored) /\ \E at : KeptAt(s, Len(s), good, d, at)
  <2> HIDE DEF good
  <2> QED
    BY KeptPositions
<1> HIDE DEF d
<1>2. PICK at : KeptAt(s, Len(s), good, d, at)
  BY <1>1
<1>3. DOMAIN d = 1 .. Len(d) /\ DOMAIN s = 1 .. Len(s) /\ Len(d) \in Nat /\ Len(s) \in Nat
  BY <1>1
<1>4. \A i \in DOMAIN d : at[i] \in DOMAIN s /\ d[i] = s[at[i]] /\ d[i].path # p
  BY <1>2, <1>3 DEF KeptAt
<1>5. \A i, k \in DOMAIN d : i < k => at[i] < at[k]
  BY <1>2, <1>3 DEF KeptAt
<1>6. OneEach(d)
  <2> SUFFICES ASSUME NEW i \in DOMAIN d, NEW k \in DOMAIN d, d[i].path = d[k].path PROVE i = k
    BY DEF OneEach
  <2>1. at[i] = at[k] /\ at[i] \in Nat
    BY <1>3, <1>4 DEF OneEach
  <2>2. ~ (i < k) /\ ~ (k < i)
    BY <1>5, <2>1
  <2> QED
    BY <1>3, <2>2
<1>7. d = Drop(s, p)
  BY DEF d, Drop
<1> QED
  BY <1>1, <1>4, <1>5, <1>6, <1>7

\* Dropping an artifact takes its weight off.
LEMMA DropTotal ==
  ASSUME NEW s \in Seq(Stored), OneEach(s), NEW k \in DOMAIN s, NEW w \in [Stored -> Nat]
  PROVE  /\ Total(Weighed(Drop(s, s[k].path), w)) + w[s[k]] = Total(Weighed(s, w))
         /\ w[s[k]] \in Nat
         /\ Total(Weighed(s, w)) \in Nat /\ Total(Weighed(Drop(s, s[k].path), w)) \in Nat
         /\ Drop(s, s[k].path) # s
<1> DEFINE p == s[k].path
           good == {e \in Range(s) : e.path # p}
           t == [m \in DOMAIN s |-> IF s[m] \in good THEN w[s[m]] ELSE 0]
           f == Weighed(s, w)
<1>0. DOMAIN s = 1 .. Len(s) /\ Len(s) \in Nat /\ s[k] \in Stored /\ \A m \in DOMAIN s : s[m] \in Stored
  OBVIOUS
<1>1. Total(Weighed(Drop(s, p), w)) = Total(t)
  <2> HIDE DEF good
  <2>1. Total(Weighed(Kept(s, good), w)) = Total([m \in DOMAIN s |-> IF s[m] \in good THEN w[s[m]] ELSE 0])
    BY TotalKept
  <2> QED
    BY <2>1 DEF Drop, good
<1>2. \A m \in DOMAIN s : s[m] \in good <=> m # k
  BY DEF OneEach, Range
<1>3. f \in Seq(Nat) /\ Len(f) = Len(s) /\ \A m \in 1 .. Len(s) : f[m] = w[s[m]]
  BY WeighedTyped
<1>4. t \in Seq(Nat) /\ Len(t) = Len(s) /\ t[k] = 0 /\ \A m \in 1 .. Len(s) : m # k => t[m] = w[s[m]]
  <2>1. \A m \in 1 .. Len(s) : t[m] \in Nat
    BY <1>0
  <2>2. t \in Seq(Nat) /\ Len(t) = Len(s)
    BY <1>0, <2>1
  <2> QED
    BY <1>0, <1>2, <2>2
<1> HIDE DEF f, t
<1>5. Total(t) + f[k] = Total(f) + t[k]
  BY SMTT(30), <1>0, <1>3, <1>4, TotalOneDiffers
<1>6. f[k] = w[s[k]] /\ w[s[k]] \in Nat /\ Total(f) \in Nat /\ Total(t) \in Nat
  BY <1>0, <1>3, <1>4, TotalPrefixes
<1>7. Drop(s, p) # s
  BY DropIs
<1> QED
  BY <1>1, <1>4, <1>5, <1>6, <1>7 DEF f

\* A job follows a listing if what is stored was listed or could not be
\* deleted, in the order listed, if its weight is at most what it was when it
\* was listed ("were"), and if no more is left than it should be.
Follows(s, sc, u, were) ==
  /\ \A i \in DOMAIN s : HeftBy(sc)[s[i]] <= were[s[i].path]
  /\ Total(Weighed(s, [e \in Stored |-> were[e.path]])) + u.freed <= u.total + u.doubled
  /\ \A k \in DOMAIN u.listed : u.listed[k].size = were[u.listed[k].path]
  /\ \A i \in DOMAIN s : s[i].path \in u.stuck \/ \E k \in DOMAIN u.listed : u.listed[k].path = s[i].path
  /\ \A i, h \in DOMAIN s, k, l \in DOMAIN u.listed :
       u.listed[k].path = s[i].path /\ u.listed[l].path = s[h].path /\ i < h => k < l

\* What is known of a job that evicts.
Sound(s, sc, u) ==
  /\ u.at = "artifact" => u.listed # <<>> /\ u.total + SidecarSize > MaxBytes + u.freed
  /\ u.quiet => \E were \in [Artifacts -> Nat] : Follows(s, sc, u, were)
  /\ u.quiet /\ u.alone => u.total <= Held(s, sc) + u.freed

\* Every artifact is stored once, every job that evicts follows its listing,
\* and one that is alone is the only one.
CacheInv ==
  /\ stored \in Seq(Stored) /\ OneEach(stored)
  /\ sidecar \in [Artifacts -> Statuses]
  /\ stores \in 0 .. MaxStores
  /\ upkeep \in [Upkeepers -> UpkeepState]
  /\ \A j \in Upkeepers : Evicting(j) =>
       /\ Sound(stored, sidecar, upkeep[j])
       /\ upkeep[j].alone => \A o \in Upkeepers : Evicting(o) => o = j

\* The weights at the listing, of entries instead of paths.
LEMMA WereTyped ==
  ASSUME NEW were \in [Artifacts -> Nat]
  PROVE  [e \in Stored |-> were[e.path]] \in [Stored -> Nat]
BY DEF Stored

\* A job still follows its listing when another deletes an artifact.
LEMMA FollowsDrop ==
  ASSUME NEW s \in Seq(Stored), OneEach(s), NEW k \in DOMAIN s, NEW sc,
         NEW u \in UpkeepState, NEW were \in [Artifacts -> Nat], Follows(s, sc, u, were)
  PROVE  /\ Follows(Drop(s, s[k].path), sc, u, were)
         /\ Total(Weighed(Drop(s, s[k].path), [e \in Stored |-> were[e.path]])) + were[s[k].path]
              = Total(Weighed(s, [e \in Stored |-> were[e.path]]))
<1> DEFINE p == s[k].path
           d == Drop(s, p)
           w == [e \in Stored |-> were[e.path]]
<1>1. /\ d \in Seq(Stored)
      /\ \E at : /\ \A i \in DOMAIN d : at[i] \in DOMAIN s /\ d[i] = s[at[i]]
                 /\ \A i, h \in DOMAIN d : i < h => at[i] < at[h]
  BY DropIs
<1>2. PICK at : /\ \A i \in DOMAIN d : at[i] \in DOMAIN s /\ d[i] = s[at[i]]
                /\ \A i, h \in DOMAIN d : i < h => at[i] < at[h]
  BY <1>1
<1>3. w \in [Stored -> Nat] /\ w[s[k]] = were[p] /\ s[k] \in Stored /\ p \in Artifacts
  <2>1. s[k] \in Stored
    OBVIOUS
  <2> QED
    BY <2>1, WereTyped, EntryTyped
<1> HIDE DEF w
<1>4. /\ Total(Weighed(d, w)) + were[p] = Total(Weighed(s, w))
      /\ Total(Weighed(s, w)) \in Nat /\ Total(Weighed(d, w)) \in Nat /\ were[p] \in Nat
  BY <1>3, DropTotal
<1> HIDE DEF d
<1>5. u.freed \in Nat /\ u.total \in Nat /\ u.doubled \in Nat
  BY DEF UpkeepState
<1>6. Total(Weighed(s, w)) + u.freed <= u.total + u.doubled
  BY DEF Follows, w
<1>7. Total(Weighed(d, w)) + u.freed <= u.total + u.doubled
  BY SMTT(30), <1>4, <1>5, <1>6
<1>8. \A i \in DOMAIN d : HeftBy(sc)[d[i]] <= were[d[i].path]
  BY <1>2 DEF Follows
<1>9. \A i \in DOMAIN d : d[i].path \in u.stuck \/ \E l \in DOMAIN u.listed : u.listed[l].path = d[i].path
  BY <1>2 DEF Follows
<1>10. \A i, h \in DOMAIN d, l, m \in DOMAIN u.listed :
         u.listed[l].path = d[i].path /\ u.listed[m].path = d[h].path /\ i < h => l < m
  BY <1>2 DEF Follows
<1>11. \A l \in DOMAIN u.listed : u.listed[l].size = were[u.listed[l].path]
  BY DEF Follows
<1>12. Follows(d, sc, u, were)
  BY <1>7, <1>8, <1>9, <1>10, <1>11 DEF Follows, w
<1> QED
  BY <1>4, <1>12 DEF d, w

\* Or when a sidecar goes.
LEMMA FollowsBare ==
  ASSUME NEW s \in Seq(Stored), NEW sc \in [Artifacts -> Statuses], NEW p \in Artifacts,
         NEW u \in UpkeepState, NEW were \in [Artifacts -> Nat], Follows(s, sc, u, were)
  PROVE  Follows(s, [sc EXCEPT ![p] = "none"], u, were)
<1> DEFINE bare == [sc EXCEPT ![p] = "none"]
<1>1. ASSUME NEW i \in DOMAIN s PROVE HeftBy(bare)[s[i]] <= were[s[i].path]
  <2>0. s[i] \in Stored
    OBVIOUS
  <2>1. s[i] \in Stored /\ s[i].path \in Artifacts /\ s[i].size \in Nat
    BY <2>0, EntryTyped
  <2>2. HeftBy(bare)[s[i]] = s[i].size + IF bare[s[i].path] = "none" THEN 0 ELSE SidecarSize
    BY <2>1 DEF HeftBy
  <2>3. HeftBy(sc)[s[i]] = s[i].size + IF sc[s[i].path] = "none" THEN 0 ELSE SidecarSize
    BY <2>1 DEF HeftBy
  <2>4. bare[s[i].path] = "none" \/ bare[s[i].path] = sc[s[i].path]
    BY <2>1
  <2>5. HeftBy(sc)[s[i]] <= were[s[i].path] /\ were[s[i].path] \in Nat
    BY <2>1 DEF Follows
  <2> QED
    BY <2>1, <2>2, <2>3, <2>4, <2>5, CacheAssumption
<1> QED
  BY <1>1 DEF Follows

\* The bytes of one sidecar at most go with it.
LEMMA HeldBare ==
  ASSUME NEW s \in Seq(Stored), OneEach(s), NEW sc \in [Artifacts -> Statuses], NEW p \in Artifacts
  PROVE  /\ Held(s, sc) <= Held(s, [sc EXCEPT ![p] = "none"]) + IF sc[p] = "none" THEN 0 ELSE SidecarSize
         /\ Held(s, sc) \in Nat /\ Held(s, [sc EXCEPT ![p] = "none"]) \in Nat
<1> DEFINE bare == [sc EXCEPT ![p] = "none"]
           bytes == IF sc[p] = "none" THEN 0 ELSE SidecarSize
           f == Weighed(s, HeftBy(sc))
           g == Weighed(s, HeftBy(bare))
<1>0. DOMAIN s = 1 .. Len(s) /\ Len(s) \in Nat
  OBVIOUS
<1>1. f \in Seq(Nat) /\ Len(f) = Len(s) /\ \A m \in 1 .. Len(s) : f[m] = HeftBy(sc)[s[m]]
  BY WeighedTyped, HeftTyped
<1>2. g \in Seq(Nat) /\ Len(g) = Len(s) /\ \A m \in 1 .. Len(s) : g[m] = HeftBy(bare)[s[m]]
  BY WeighedTyped, HeftTyped
<1>3. Total(f) \in Nat /\ Total(g) \in Nat
  BY <1>1, <1>2, TotalPrefixes
<1>4. ASSUME NEW m \in 1 .. Len(s)
      PROVE  f[m] = IF s[m].path = p THEN g[m] + bytes ELSE g[m]
  <2>0. s[m] \in Stored
    OBVIOUS
  <2>1. s[m] \in Stored /\ s[m].path \in Artifacts /\ s[m].size \in Nat
    BY <2>0, EntryTyped
  <2>2. g[m] = s[m].size + IF bare[s[m].path] = "none" THEN 0 ELSE SidecarSize
    BY <1>2, <2>1 DEF HeftBy
  <2>3. f[m] = s[m].size + IF sc[s[m].path] = "none" THEN 0 ELSE SidecarSize
    BY <1>1, <2>1 DEF HeftBy
  <2>4. bare[s[m].path] = IF s[m].path = p THEN "none" ELSE sc[s[m].path]
    BY <2>1
  <2> QED
    BY <2>1, <2>2, <2>3, <2>4, CacheAssumption
<1>5. bytes \in Nat
  BY CacheAssumption
<1> HIDE DEF f, g, bytes
<1>6. CASE \E k \in 1 .. Len(s) : s[k].path = p
  <2>1. PICK k \in 1 .. Len(s) : s[k].path = p
    BY <1>6
  <2>2. \A m \in 1 .. Len(s) : m # k => f[m] = g[m]
    BY <1>0, <1>4, <2>1 DEF OneEach
  <2>3. Total(f) + g[k] = Total(g) + f[k]
    <3>1. k \in 1 .. Len(f) /\ Len(f) = Len(g) /\ \A m \in 1 .. Len(f) : m # k => f[m] = g[m]
      BY <1>1, <1>2, <2>2
    <3> QED
      BY <1>1, <1>2, <3>1, TotalOneDiffers
  <2>4. f[k] = g[k] + bytes /\ g[k] \in Nat
    BY <1>2, <1>4, <2>1
  <2>5. Total(f) = Total(g) + bytes
    BY SMTT(30), <1>3, <1>5, <2>3, <2>4
  <2> QED
    BY <1>3, <1>5, <2>5 DEF Held, f, g, bytes
<1>7. CASE \A k \in 1 .. Len(s) : s[k].path # p
  <2>1. \A m \in 1 .. Len(s) : f[m] = g[m] /\ g[m] \in Nat
    BY <1>2, <1>4, <1>7
  <2>2. Total(f) <= Total(g)
    BY <1>1, <1>2, <2>1, TotalMonotone
  <2> QED
    BY <1>3, <1>5, <2>2 DEF Held, f, g, bytes
<1> QED
  BY <1>6, <1>7

\* A job at rest has freed nothing and counted nothing twice.
LEMMA NoUpkeepTyped ==
  /\ NoUpkeep \in UpkeepState
  /\ NoUpkeep.at = "idle" /\ NoUpkeep.freed = 0 /\ NoUpkeep.doubled = 0
<1>1. <<>> \in Seq(Listed)
  OBVIOUS
<1> QED
  BY <1>1 DEF NoUpkeep, UpkeepState

\* What an eviction counts is what is held.
LEMMA SidecarsCounted ==
  ASSUME stored \in Seq(Stored), sidecar \in [Artifacts -> Statuses]
  PROVE  /\ WithSidecars \in Seq(Listed) /\ Len(WithSidecars) = Len(stored)
         /\ \A i \in 1 .. Len(stored) : /\ WithSidecars[i].path = stored[i].path
                                        /\ WithSidecars[i].size = HeftBy(sidecar)[stored[i]]
         /\ Bytes(WithSidecars) = Held(stored, sidecar)
         /\ Held(stored, sidecar) \in Nat
<1>0. DOMAIN stored = 1 .. Len(stored) /\ Len(stored) \in Nat
  OBVIOUS
<1>1. ASSUME NEW e \in Stored
      PROVE  Sized(e) \in Listed /\ Sized(e).path = e.path /\ Sized(e).size = HeftBy(sidecar)[e]
  <2>1. e.path \in Artifacts /\ e.size \in Nat
    BY EntryTyped
  <2>2. HeftBy(sidecar)[e] = e.size + IF sidecar[e.path] = "none" THEN 0 ELSE SidecarSize
    BY DEF HeftBy
  <2>3. HeftBy(sidecar)[e] \in Nat
    BY HeftTyped
  <2>4. e = [path |-> e.path, size |-> e.size]
    BY DEF Stored
  <2>5. Sized(e) = [path |-> e.path, size |-> HeftBy(sidecar)[e]]
    BY <2>2, <2>4 DEF Sized
  <2> QED
    BY <2>1, <2>3, <2>5 DEF Listed
<1>2. \A i \in 1 .. Len(stored) : stored[i] \in Stored
  OBVIOUS
<1>3. WithSidecars = [i \in 1 .. Len(stored) |-> Sized(stored[i])]
  BY <1>0 DEF WithSidecars
<1>4. WithSidecars \in Seq(Listed) /\ Len(WithSidecars) = Len(stored)
  <2>1. \A i \in 1 .. Len(stored) : Sized(stored[i]) \in Listed
    BY <1>1, <1>2
  <2> QED
    BY <1>0, <1>3, <2>1
<1>5. \A i \in 1 .. Len(stored) : WithSidecars[i] = Sized(stored[i])
  BY <1>3
<1>6. [i \in DOMAIN WithSidecars |-> WithSidecars[i].size] = Weighed(stored, HeftBy(sidecar))
  <2>1. DOMAIN WithSidecars = 1 .. Len(stored)
    BY <1>3
  <2>2. \A i \in 1 .. Len(stored) : WithSidecars[i].size = HeftBy(sidecar)[stored[i]]
    BY <1>1, <1>2, <1>5
  <2> QED
    BY <1>0, <2>1, <2>2 DEF Weighed
<1>7. Held(stored, sidecar) \in Nat
  BY WeighedTyped, HeftTyped, TotalPrefixes DEF Held
<1> QED
  BY <1>1, <1>2, <1>4, <1>5, <1>6, <1>7 DEF Bytes, Held

\* A job that has just listed follows its listing.
LEMMA ListSound ==
  ASSUME stored \in Seq(Stored), OneEach(stored), sidecar \in [Artifacts -> Statuses],
         NEW u \in UpkeepState, u.at = "sidecar", u.listed = WithSidecars, u.total = Bytes(WithSidecars),
         u.freed = 0, u.doubled = 0
  PROVE  Sound(stored, sidecar, u)
<1> DEFINE heft == HeftBy(sidecar)
           place(p) == CHOOSE i \in DOMAIN stored : stored[i].path = p
           were == [p \in Artifacts |-> IF Present(p) THEN heft[stored[place(p)]] ELSE 0]
           w == [e \in Stored |-> were[e.path]]
<1>0. DOMAIN stored = 1 .. Len(stored) /\ Len(stored) \in Nat /\ \A i \in DOMAIN stored : stored[i] \in Stored
  OBVIOUS
<1>1. heft \in [Stored -> Nat]
  BY HeftTyped
<1>2. ASSUME NEW i \in DOMAIN stored
      PROVE  were[stored[i].path] = heft[stored[i]] /\ heft[stored[i]] \in Nat
  <2>1. stored[i].path \in Artifacts
    BY <1>0, EntryTyped
  <2>2. Present(stored[i].path) /\ place(stored[i].path) = i
    BY DEF Present, OneEach
  <2> QED
    BY <1>0, <1>1, <2>1, <2>2
<1>3. were \in [Artifacts -> Nat]
  <2>1. ASSUME NEW p \in Artifacts, Present(p) PROVE heft[stored[place(p)]] \in Nat
    <3>1. place(p) \in DOMAIN stored
      BY <2>1 DEF Present
    <3> QED
      BY <1>0, <1>1, <3>1
  <2> QED
    BY <2>1
<1> HIDE DEF were
<1>4. w \in [Stored -> Nat]
  BY <1>3, WereTyped
<1>5. Weighed(stored, w) = Weighed(stored, heft)
  BY <1>0, <1>2 DEF Weighed
<1>6. Total(Weighed(stored, w)) = u.total
  BY <1>5, SidecarsCounted DEF Held
<1>7. u.total \in Nat
  BY DEF UpkeepState
<1>8. /\ DOMAIN u.listed = DOMAIN stored
      /\ \A i \in DOMAIN stored : u.listed[i].path = stored[i].path /\ u.listed[i].size = heft[stored[i]]
  BY <1>0, SidecarsCounted
<1> HIDE DEF heft, w
<1>9. \A i \in DOMAIN stored : heft[stored[i]] <= were[stored[i].path]
  BY <1>2
<1>10. Total(Weighed(stored, w)) + u.freed <= u.total + u.doubled
  BY <1>6, <1>7
<1>11. \A k \in DOMAIN u.listed : u.listed[k].size = were[u.listed[k].path]
  BY <1>2, <1>8
<1>12. \A i, h \in DOMAIN stored, k, l \in DOMAIN u.listed :
         u.listed[k].path = stored[i].path /\ u.listed[l].path = stored[h].path /\ i < h => k < l
  BY <1>8 DEF OneEach
<1>13. Follows(stored, sidecar, u, were)
  BY <1>8, <1>9, <1>10, <1>11, <1>12 DEF Follows, heft, w
<1>14. u.total <= Held(stored, sidecar) + u.freed
  BY <1>7, SidecarsCounted
<1> QED
  BY <1>3, <1>13, <1>14 DEF Sound

\* One job moves, and leaves the others sound.
LEMMA JobMoves ==
  ASSUME CacheInv, NEW j \in Upkeepers, NEW u \in UpkeepState, upkeep' = [upkeep EXCEPT ![j] = u],
         stores' = stores, stored' \in Seq(Stored), OneEach(stored'),
         sidecar' \in [Artifacts -> Statuses],
         \A o \in Upkeepers \ {j} : Evicting(o) => Sound(stored', sidecar', upkeep[o]),
         u.at \in {"sidecar", "artifact"} =>
           Evicting(j) /\ u.alone = upkeep[j].alone /\ Sound(stored', sidecar', u)
  PROVE  CacheInv'
<1>1. upkeep \in [Upkeepers -> UpkeepState]
  BY DEF CacheInv
<1>2. /\ upkeep' \in [Upkeepers -> UpkeepState] /\ upkeep'[j] = u
      /\ \A o \in Upkeepers : o # j => upkeep'[o] = upkeep[o]
  BY <1>1
<1>3. ASSUME NEW o \in Upkeepers, Evicting(o)' PROVE Evicting(o) /\ upkeep'[o].alone = upkeep[o].alone
  BY <1>2, <1>3 DEF Evicting
<1>4. ASSUME NEW o \in Upkeepers, Evicting(o)'
      PROVE  /\ Sound(stored', sidecar', upkeep'[o])
             /\ upkeep'[o].alone => \A q \in Upkeepers : Evicting(q)' => q = o
  <2>1. Sound(stored', sidecar', upkeep'[o])
    BY <1>2, <1>3, <1>4 DEF Evicting
  <2>2. upkeep'[o].alone => \A q \in Upkeepers : Evicting(q)' => q = o
    BY <1>3, <1>4 DEF CacheInv
  <2> QED
    BY <2>1, <2>2
<1> QED
  BY <1>2, <1>4 DEF CacheInv

\* The cache changes under the jobs, and none of them is quiet any more.
LEMMA Disturbs ==
  ASSUME CacheInv, upkeep' \in [Upkeepers -> UpkeepState],
         stores' \in 0 .. MaxStores, stored' \in Seq(Stored), OneEach(stored'),
         sidecar' \in [Artifacts -> Statuses],
         \A o \in Upkeepers : /\ upkeep'[o].at = upkeep[o].at /\ upkeep'[o].alone = upkeep[o].alone
                              /\ Evicting(o) => upkeep'[o] = [upkeep[o] EXCEPT !.quiet = FALSE]
  PROVE  CacheInv'
<1>1. upkeep \in [Upkeepers -> UpkeepState]
  BY DEF CacheInv
<1>2. \A o \in Upkeepers : Evicting(o)' <=> Evicting(o)
  BY DEF Evicting
<1>3. ASSUME NEW o \in Upkeepers, Evicting(o)
      PROVE  /\ Sound(stored', sidecar', upkeep'[o])
             /\ upkeep'[o].alone => \A q \in Upkeepers : Evicting(q)' => q = o
  <2>1. Sound(stored, sidecar, upkeep[o])
    BY <1>3 DEF CacheInv
  <2>2. /\ upkeep'[o].quiet = FALSE /\ upkeep'[o].at = upkeep[o].at /\ upkeep'[o].listed = upkeep[o].listed
        /\ upkeep'[o].total = upkeep[o].total /\ upkeep'[o].freed = upkeep[o].freed
    BY <1>1, <1>3 DEF UpkeepState
  <2>3. Sound(stored', sidecar', upkeep'[o])
    BY <2>1, <2>2 DEF Sound
  <2>4. upkeep'[o].alone => \A q \in Upkeepers : Evicting(q)' => q = o
    BY <1>2, <1>3 DEF CacheInv
  <2> QED
    BY <2>3, <2>4
<1> QED
  BY <1>2, <1>3 DEF CacheInv

\* A store leaves the jobs as they are, but quiet no more.
LEMMA DisturbedTyped ==
  ASSUME upkeep \in [Upkeepers -> UpkeepState]
  PROVE  /\ Disturbed \in [Upkeepers -> UpkeepState]
         /\ \A o \in Upkeepers : /\ Disturbed[o] = [upkeep[o] EXCEPT !.quiet = FALSE]
                                 /\ Disturbed[o].at = upkeep[o].at /\ Disturbed[o].alone = upkeep[o].alone
<1>1. \A u \in UpkeepState : /\ [u EXCEPT !.quiet = FALSE] \in UpkeepState
                             /\ [u EXCEPT !.quiet = FALSE].at = u.at
                             /\ [u EXCEPT !.quiet = FALSE].alone = u.alone
  BY DEF UpkeepState
<1> QED
  BY <1>1 DEF Disturbed

\* An artifact is stored, in the place of an earlier one or at the end, and no
\* job is quiet any more.
LEMMA StoreArtifactStep ==
  ASSUME CacheInv, NEW p \in Artifacts, NEW size \in Sizes, NEW summed \in BOOLEAN,
         StoreArtifact(p, size, summed)
  PROVE  CacheInv'
<1> DEFINE d == Without(p)
           e == [path |-> p, size |-> size]
<1>1. stored \in Seq(Stored) /\ OneEach(stored) /\ sidecar \in [Artifacts -> Statuses]
      /\ upkeep \in [Upkeepers -> UpkeepState] /\ stores \in 0 .. MaxStores
  BY DEF CacheInv
<1>2. d \in Seq(Stored) /\ OneEach(d) /\ \A i \in DOMAIN d : d[i].path # p
  <2>1. d = Drop(stored, p)
    BY DEF Without, Drop
  <2> QED
    BY <1>1, <2>1, DropIs
<1>3. stored' = Append(d, e) /\ e \in Stored
  BY DEF StoreArtifact, Stored
<1> HIDE DEF d, e
<1>4. stored' \in Seq(Stored)
  BY <1>2, <1>3
<1>5. OneEach(stored')
  <2> DEFINE n == Len(d)
  <2>1. /\ n \in Nat /\ DOMAIN stored' = 1 .. n + 1 /\ stored'[n + 1] = e /\ DOMAIN d = 1 .. n
        /\ \A i \in 1 .. n : stored'[i] = d[i]
    BY <1>2, <1>3
  <2>2. e.path = p
    BY DEF e
  <2> HIDE DEF n
  <2>3. \A i \in 1 .. n + 1 : i = n + 1 \/ i \in 1 .. n
    BY <2>1
  <2> QED
    BY <1>2, <2>1, <2>2, <2>3 DEF OneEach
<1>6. sidecar' \in [Artifacts -> Statuses]
  BY <1>1 DEF StoreArtifact, Statuses
<1>7. stores' \in 0 .. MaxStores
  BY <1>1, CacheAssumption DEF StoreArtifact
<1>8. upkeep' = Disturbed
  BY DEF StoreArtifact
<1> QED
  BY <1>1, <1>4, <1>5, <1>6, <1>7, <1>8, DisturbedTyped, Disturbs

\* An artifact or a sidecar is cleared, and no job is quiet any more.
LEMMA ClearFileStep ==
  ASSUME CacheInv, NEW p \in Artifacts, ClearFile(p)
  PROVE  CacheInv'
<1>1. stored \in Seq(Stored) /\ OneEach(stored) /\ sidecar \in [Artifacts -> Statuses]
      /\ upkeep \in [Upkeepers -> UpkeepState] /\ stores \in 0 .. MaxStores
  BY DEF CacheInv
<1>2. Without(p) \in Seq(Stored) /\ OneEach(Without(p))
  <2>1. Without(p) = Drop(stored, p)
    BY DEF Without, Drop
  <2> QED
    BY <1>1, <2>1, DropIs
<1>3. stored' \in Seq(Stored) /\ OneEach(stored') /\ sidecar' \in [Artifacts -> Statuses]
  BY <1>1, <1>2 DEF ClearFile, Statuses
<1>4. upkeep' = Disturbed /\ stores' = stores
  BY DEF ClearFile
<1> QED
  BY <1>1, <1>3, <1>4, DisturbedTyped, Disturbs

\* A sweep deletes an empty or mismatched artifact, and so disturbs the others.
LEMMA ValidateStep ==
  ASSUME CacheInv, NEW j \in Upkeepers, NEW p \in Artifacts, Validate(j, p)
  PROVE  CacheInv'
<1>1. stored \in Seq(Stored) /\ OneEach(stored) /\ sidecar \in [Artifacts -> Statuses]
      /\ upkeep \in [Upkeepers -> UpkeepState] /\ stores \in 0 .. MaxStores
  BY DEF CacheInv
<1>2. Without(p) = Drop(stored, p)
  BY DEF Without, Drop
<1>3. Without(p) \in Seq(Stored) /\ OneEach(Without(p))
  BY <1>1, <1>2, DropIs
<1>4. Present(p) => Without(p) # stored
  <2> SUFFICES ASSUME NEW i \in DOMAIN stored, stored[i].path = p PROVE Without(p) # stored
    BY DEF Present
  <2> QED
    BY <1>1, <1>2, DropIs
<1>5. /\ stored' \in Seq(Stored) /\ OneEach(stored') /\ sidecar' \in [Artifacts -> Statuses]
      /\ stores' = stores
      /\ stored' = stored => sidecar' = sidecar
  BY <1>1, <1>3, <1>4 DEF Validate, Statuses
<1> DEFINE u == [upkeep[j] EXCEPT !.check = @ \ {p}]
<1>6. u \in UpkeepState /\ u.at = "check" /\ u.alone = upkeep[j].alone /\ upkeep[j].at = "check"
  <2>1. upkeep[j] \in UpkeepState /\ upkeep[j].at = "check"
    BY <1>1 DEF Validate
  <2> QED
    BY <2>1 DEF UpkeepState
<1>7. CASE stored' = stored
  <2>1. upkeep' = [upkeep EXCEPT ![j].check = @ \ {p}]
    BY <1>7 DEF Validate
  <2>2. upkeep' = [upkeep EXCEPT ![j] = u]
    BY <1>1, <2>1
  <2>3. \A o \in Upkeepers \ {j} : Evicting(o) => Sound(stored', sidecar', upkeep[o])
    BY <1>5, <1>7 DEF CacheInv
  <2> HIDE DEF u
  <2> QED
    BY <1>5, <1>6, <2>2, <2>3, JobMoves
<1>8. CASE stored' # stored
  <2>1. upkeep' = [Disturbed EXCEPT ![j] = u]
    BY <1>8 DEF Validate, Checked
  <2>2. /\ Disturbed \in [Upkeepers -> UpkeepState]
        /\ \A o \in Upkeepers : /\ Disturbed[o] = [upkeep[o] EXCEPT !.quiet = FALSE]
                                /\ Disturbed[o].at = upkeep[o].at /\ Disturbed[o].alone = upkeep[o].alone
    BY <1>1, DisturbedTyped
  <2> HIDE DEF u
  <2>3. upkeep' \in [Upkeepers -> UpkeepState]
    BY <1>6, <2>1, <2>2
  <2>4. \A o \in Upkeepers : /\ upkeep'[o].at = upkeep[o].at /\ upkeep'[o].alone = upkeep[o].alone
                             /\ Evicting(o) => upkeep'[o] = [upkeep[o] EXCEPT !.quiet = FALSE]
    <3> TAKE o \in Upkeepers
    <3>1. CASE o = j
      BY <1>6, <2>1, <2>2, <3>1 DEF Evicting
    <3>2. CASE o # j
      BY <2>1, <2>2, <3>2
    <3> QED
      BY <3>1, <3>2
  <2> QED
    BY <1>1, <1>5, <2>3, <2>4, Disturbs
<1> QED
  BY <1>7, <1>8

\* A job lists the cache, and is alone no longer than until another does.
LEMMA ListStep ==
  ASSUME CacheInv, NEW j \in Upkeepers, List(j)
  PROVE  CacheInv'
<1>1. stored \in Seq(Stored) /\ OneEach(stored) /\ sidecar \in [Artifacts -> Statuses]
      /\ upkeep \in [Upkeepers -> UpkeepState] /\ stores \in 0 .. MaxStores
  BY DEF CacheInv
<1>2. stored' = stored /\ sidecar' = sidecar /\ stores' = stores /\ upkeep[j].at = "list"
  BY DEF List
<1>3. CASE upkeep' = [upkeep EXCEPT ![j] = NoUpkeep]
  <2>1. \A o \in Upkeepers \ {j} : Evicting(o) => Sound(stored', sidecar', upkeep[o])
    BY <1>2 DEF CacheInv
  <2> QED
    BY <1>1, <1>2, <1>3, <2>1, NoUpkeepTyped, JobMoves
<1>4. CASE upkeep' = [k \in Upkeepers |->
                       IF k = j
                       THEN [NoUpkeep EXCEPT !.at = "sidecar", !.listed = Candidates,
                               !.total = Bytes(Candidates),
                               !.alone = \A o \in Upkeepers : ~Evicting(o)]
                       ELSE [upkeep[k] EXCEPT !.alone = FALSE]]
  <2> DEFINE nobody == \A o \in Upkeepers : ~Evicting(o)
             u == [NoUpkeep EXCEPT !.at = "sidecar", !.listed = WithSidecars,
                     !.total = Bytes(WithSidecars), !.alone = nobody]
  <2>1. WithSidecars \in Seq(Listed) /\ Bytes(WithSidecars) \in Nat
    BY <1>1, SidecarsCounted
  <2>2. u \in UpkeepState /\ u.at = "sidecar" /\ u.listed = WithSidecars /\ u.total = Bytes(WithSidecars)
        /\ u.freed = 0 /\ u.doubled = 0 /\ u.alone = nobody
    <3>1. nobody \in BOOLEAN
      OBVIOUS
    <3> HIDE DEF nobody
    <3> QED
      BY <2>1, <3>1, NoUpkeepTyped DEF NoUpkeep, UpkeepState
  <2>3. upkeep'[j] = u /\ \A o \in Upkeepers : o # j => upkeep'[o] = [upkeep[o] EXCEPT !.alone = FALSE]
    BY <1>4 DEF Candidates
  <2> HIDE DEF u
  <2>4. Sound(stored, sidecar, u)
    BY <1>1, <2>2, ListSound
  <2>5. ASSUME NEW o \in Upkeepers, o # j
        PROVE  /\ upkeep'[o] \in UpkeepState /\ upkeep'[o].alone = FALSE
               /\ Evicting(o)' <=> Evicting(o)
               /\ Sound(stored, sidecar, upkeep[o]) => Sound(stored, sidecar, upkeep'[o])
    <3>1. /\ upkeep'[o] = [upkeep[o] EXCEPT !.alone = FALSE] /\ upkeep[o] \in UpkeepState
      BY <1>1, <2>3, <2>5
    <3>2. /\ upkeep'[o] \in UpkeepState /\ upkeep'[o].alone = FALSE /\ upkeep'[o].quiet = upkeep[o].quiet
          /\ upkeep'[o].at = upkeep[o].at /\ upkeep'[o].listed = upkeep[o].listed
          /\ upkeep'[o].total = upkeep[o].total /\ upkeep'[o].freed = upkeep[o].freed
          /\ upkeep'[o].doubled = upkeep[o].doubled /\ upkeep'[o].stuck = upkeep[o].stuck
      BY <3>1 DEF UpkeepState
    <3>3. Evicting(o)' <=> Evicting(o)
      BY <3>2 DEF Evicting
    <3>4. ASSUME NEW were, Follows(stored, sidecar, upkeep[o], were)
          PROVE  Follows(stored, sidecar, upkeep'[o], were)
      BY <3>2, <3>4 DEF Follows
    <3>5. Sound(stored, sidecar, upkeep[o]) => Sound(stored, sidecar, upkeep'[o])
      BY <3>2, <3>4 DEF Sound
    <3> QED
      BY <3>2, <3>3, <3>5
  <2>6. upkeep' \in [Upkeepers -> UpkeepState]
    <3>1. \A o \in Upkeepers : upkeep'[o] \in UpkeepState
      BY <2>2, <2>3, <2>5
    <3>2. upkeep' = [o \in Upkeepers |-> upkeep'[o]]
      BY <1>4
    <3> QED
      BY <3>1, <3>2
  <2>7. ASSUME NEW o \in Upkeepers, Evicting(o)'
        PROVE  /\ Sound(stored', sidecar', upkeep'[o])
               /\ upkeep'[o].alone => \A q \in Upkeepers : Evicting(q)' => q = o
    <3>1. CASE o = j
      <4>1. Sound(stored', sidecar', upkeep'[o])
        BY <1>2, <2>3, <2>4, <3>1
      <4>2. upkeep'[o].alone => \A q \in Upkeepers : Evicting(q)' => q = o
        BY <2>2, <2>3, <2>5, <3>1
      <4> QED
        BY <4>1, <4>2
    <3>2. CASE o # j
      <4>1. Evicting(o) /\ upkeep'[o].alone = FALSE
        BY <2>5, <2>7, <3>2
      <4>2. Sound(stored, sidecar, upkeep[o])
        BY <4>1 DEF CacheInv
      <4> QED
        BY <1>2, <2>5, <3>2, <4>1, <4>2
    <3> QED
      BY <3>1, <3>2
  <2> QED
    BY <1>1, <1>2, <2>6, <2>7 DEF CacheInv
<1> QED
  BY <1>3, <1>4 DEF List

\* Another job at work finds a job that evicts not alone.
LEMMA NotAlone ==
  ASSUME CacheInv, NEW j \in Upkeepers, NEW o \in Upkeepers, o # j, Evicting(j), Evicting(o)
  PROVE  ~ upkeep[o].alone
BY DEF CacheInv

\* A sidecar is counted as freed, whether it goes or not.
LEMMA EvictSidecarStep ==
  ASSUME CacheInv, NEW j \in Upkeepers, EvictSidecar(j)
  PROVE  CacheInv'
<1>1. stored \in Seq(Stored) /\ OneEach(stored) /\ sidecar \in [Artifacts -> Statuses]
      /\ upkeep \in [Upkeepers -> UpkeepState] /\ stores \in 0 .. MaxStores
  BY DEF CacheInv
<1> DEFINE v == upkeep[j]
           p == Head(v.listed).path
           bytes == IF sidecar[p] = "none" THEN 0 ELSE SidecarSize
           u == [v EXCEPT !.at = "artifact", !.freed = @ + bytes, !.doubled = @ + bytes]
           bare == [sidecar EXCEPT ![p] = "none"]
<1>2. /\ stored' = stored /\ stores' = stores /\ Evicting(j) /\ v.at = "sidecar"
      /\ v.listed # <<>> /\ ~ (v.total <= MaxBytes + v.freed)
      /\ sidecar' \in {sidecar, bare}
      /\ upkeep' = [upkeep EXCEPT ![j].at = "artifact", ![j].freed = @ + bytes, ![j].doubled = @ + bytes]
  BY DEF EvictSidecar, Evicting, Enough
<1>3. v \in UpkeepState
  BY <1>1
<1>4. p \in Artifacts /\ bytes \in Nat /\ bytes <= SidecarSize
  <2>1. v.listed \in Seq(Listed)
    BY <1>3 DEF UpkeepState
  <2>2. Head(v.listed) \in Listed
    BY <1>2, <2>1
  <2> QED
    BY <2>2, CacheAssumption DEF Listed
<1>5. upkeep' = [upkeep EXCEPT ![j] = u]
  BY <1>1, <1>2
<1>6. sidecar' \in [Artifacts -> Statuses]
  BY <1>1, <1>2, <1>4 DEF Statuses
<1> HIDE DEF v, p, bytes, bare
<1>a. v.freed \in Nat /\ v.total \in Nat /\ v.doubled \in Nat
  BY <1>3 DEF UpkeepState
<1>b. v.freed + bytes \in Nat /\ v.doubled + bytes \in Nat
  BY <1>4, <1>a
<1>7. /\ u \in UpkeepState /\ u.at = "artifact" /\ u.listed = v.listed /\ u.total = v.total
      /\ u.freed = v.freed + bytes /\ u.doubled = v.doubled + bytes /\ u.stuck = v.stuck
      /\ u.quiet = v.quiet /\ u.alone = v.alone
      /\ v.freed \in Nat /\ v.total \in Nat /\ v.doubled \in Nat
  BY <1>3, <1>a, <1>b DEF UpkeepState
<1> HIDE DEF u
<1>8. ASSUME NEW q \in UpkeepState, NEW were \in [Artifacts -> Nat], Follows(stored, sidecar, q, were)
      PROVE  Follows(stored', sidecar', q, were)
  <2>1. Follows(stored, bare, q, were)
    BY <1>1, <1>4, <1>8, FollowsBare DEF bare
  <2> QED
    BY <1>2, <1>8, <2>1
<1>9. Held(stored, sidecar) <= Held(stored', sidecar') + bytes /\ Held(stored, sidecar) \in Nat
      /\ Held(stored', sidecar') \in Nat
  <2>1. /\ Held(stored, sidecar) <= Held(stored, bare) + bytes
        /\ Held(stored, sidecar) \in Nat /\ Held(stored, bare) \in Nat
    BY <1>1, <1>4, HeldBare DEF bare, bytes
  <2> QED
    BY <1>2, <1>4, <2>1
<1>10. Sound(stored, sidecar, v)
  BY <1>2 DEF CacheInv, v
<1>11. Sound(stored', sidecar', u)
  <2>1. u.listed # <<>> /\ u.total + SidecarSize > MaxBytes + u.freed
    BY <1>2, <1>4, <1>7, CacheAssumption
  <2>2. ASSUME u.quiet PROVE \E were \in [Artifacts -> Nat] : Follows(stored', sidecar', u, were)
    <3>1. PICK were \in [Artifacts -> Nat] : Follows(stored, sidecar, v, were)
      BY <1>7, <1>10, <2>2 DEF Sound
    <3>2. Follows(stored', sidecar', v, were)
      BY <1>3, <1>8, <3>1
    <3> DEFINE t == Total(Weighed(stored', [e \in Stored |-> were[e.path]]))
    <3>3. t + v.freed <= v.total + v.doubled
      BY <3>2 DEF Follows
    <3>4. t \in Nat
      BY <1>1, <1>2, WereTyped, WeighedTyped, TotalPrefixes
    <3> HIDE DEF t
    <3>5. t + u.freed <= u.total + u.doubled
      BY <1>4, <1>7, <3>3, <3>4
    <3>6. Follows(stored', sidecar', u, were)
      BY <1>7, <3>2, <3>5 DEF Follows, t
    <3> QED
      BY <3>6
  <2>3. ASSUME u.quiet, u.alone PROVE u.total <= Held(stored', sidecar') + u.freed
    <3>1. v.total <= Held(stored, sidecar) + v.freed
      BY <1>7, <1>10, <2>3 DEF Sound
    <3> QED
      BY <1>4, <1>7, <1>9, <3>1
  <2> QED
    BY <2>1, <2>2, <2>3 DEF Sound
<1>12. ASSUME NEW o \in Upkeepers \ {j}, Evicting(o) PROVE Sound(stored', sidecar', upkeep[o])
  <2>1. Sound(stored, sidecar, upkeep[o]) /\ upkeep[o] \in UpkeepState
    BY <1>1, <1>12 DEF CacheInv
  <2>2. ~ upkeep[o].alone
    BY <1>2, <1>12, NotAlone
  <2> QED
    BY <1>8, <2>1, <2>2 DEF Sound
<1>13. stored' \in Seq(Stored) /\ OneEach(stored')
  BY <1>1, <1>2
<1>14. u.alone = upkeep[j].alone
  BY <1>7 DEF v
<1> QED
  BY <1>2, <1>5, <1>6, <1>7, <1>11, <1>12, <1>13, <1>14, JobMoves

\* An artifact is deleted, and what it was listed with has been freed; or it
\* cannot be, and is given up.
LEMMA EvictArtifactStep ==
  ASSUME CacheInv, NEW j \in Upkeepers, EvictArtifact(j)
  PROVE  CacheInv'
<1>1. stored \in Seq(Stored) /\ OneEach(stored) /\ sidecar \in [Artifacts -> Statuses]
      /\ upkeep \in [Upkeepers -> UpkeepState] /\ stores \in 0 .. MaxStores
  BY DEF CacheInv
<1> DEFINE v == upkeep[j]
           e == Head(v.listed)
           next == [v EXCEPT !.at = "sidecar", !.listed = Tail(@)]
           gone == [next EXCEPT !.freed = @ + e.size]
           kept == [next EXCEPT !.stuck = @ \cup {e.path}]
<1>2. /\ sidecar' = sidecar /\ stores' = stores /\ Evicting(j) /\ v.at = "artifact"
      /\ \/ /\ Present(e.path) /\ stored' = Without(e.path) /\ upkeep' = [upkeep EXCEPT ![j] = gone]
         \/ stored' = stored /\ upkeep' = [upkeep EXCEPT ![j] = kept]
  BY DEF EvictArtifact, Evicting
<1>3. v \in UpkeepState
  BY <1>1
<1>4. Sound(stored, sidecar, v)
  BY <1>2 DEF CacheInv
<1>5. v.listed \in Seq(Listed) /\ v.listed # <<>>
  BY <1>2, <1>3, <1>4 DEF UpkeepState, Sound
<1>6. /\ e \in Listed /\ e.path \in Artifacts /\ e.size \in Nat /\ e = v.listed[1] /\ 1 \in DOMAIN v.listed
      /\ Tail(v.listed) \in Seq(Listed)
      /\ \A k \in DOMAIN Tail(v.listed) : k + 1 \in DOMAIN v.listed /\ Tail(v.listed)[k] = v.listed[k + 1]
      /\ \A k \in DOMAIN v.listed : k = 1 \/ (k - 1 \in DOMAIN Tail(v.listed) /\ k \in Nat)
  <2>1. /\ e \in Listed /\ e = v.listed[1] /\ 1 \in DOMAIN v.listed /\ Tail(v.listed) \in Seq(Listed)
    BY <1>5
  <2>2. \A k \in DOMAIN Tail(v.listed) : k + 1 \in DOMAIN v.listed /\ Tail(v.listed)[k] = v.listed[k + 1]
    BY <1>5
  <2>3. \A k \in DOMAIN v.listed : k = 1 \/ (k - 1 \in DOMAIN Tail(v.listed) /\ k \in Nat)
    BY <1>5
  <2> QED
    BY <2>1, <2>2, <2>3 DEF Listed
<1>a. v.freed \in Nat /\ v.total \in Nat /\ v.doubled \in Nat
  BY <1>3 DEF UpkeepState
<1>b. gone = [v EXCEPT !.at = "sidecar", !.listed = Tail(v.listed), !.freed = v.freed + e.size]
  BY <1>3 DEF UpkeepState
<1>7. /\ gone \in UpkeepState /\ gone.at = "sidecar" /\ gone.listed = Tail(v.listed)
      /\ gone.total = v.total /\ gone.freed = v.freed + e.size /\ gone.doubled = v.doubled
      /\ gone.stuck = v.stuck /\ gone.quiet = v.quiet /\ gone.alone = v.alone
      /\ v.freed \in Nat /\ v.total \in Nat /\ v.doubled \in Nat
  <2> HIDE DEF gone, next, e, v
  <2>1. v.freed + e.size \in Nat
    BY <1>a, <1>6
  <2> QED
    BY <1>3, <1>6, <1>a, <1>b, <2>1 DEF UpkeepState
<1>8. /\ kept \in UpkeepState /\ kept.at = "sidecar" /\ kept.listed = Tail(v.listed)
      /\ kept.total = v.total /\ kept.freed = v.freed /\ kept.doubled = v.doubled
      /\ kept.stuck = v.stuck \cup {e.path} /\ kept.quiet = v.quiet /\ kept.alone = v.alone
  BY <1>3, <1>6 DEF UpkeepState
<1> HIDE DEF v, e, next, gone, kept
<1>9. CASE Present(e.path) /\ stored' = Without(e.path) /\ upkeep' = [upkeep EXCEPT ![j] = gone]
  <2> DEFINE d == Drop(stored, e.path)
  <2>1. stored' = d
    BY <1>9 DEF Without, Drop
  <2>2. d \in Seq(Stored) /\ OneEach(d) /\ \A i \in DOMAIN d : d[i].path # e.path
    BY <1>1, DropIs
  <2>3. PICK h \in DOMAIN stored : stored[h].path = e.path
    BY <1>9 DEF Present
  <2>4. ASSUME NEW q \in UpkeepState, NEW were \in [Artifacts -> Nat], Follows(stored, sidecar, q, were)
        PROVE  /\ Follows(d, sidecar, q, were)
               /\ Total(Weighed(d, [x \in Stored |-> were[x.path]])) + were[e.path]
                    = Total(Weighed(stored, [x \in Stored |-> were[x.path]]))
    BY <1>1, <2>3, <2>4, FollowsDrop
  <2>5. ASSUME NEW o \in Upkeepers \ {j}, Evicting(o) PROVE Sound(stored', sidecar', upkeep[o])
    <3>1. Sound(stored, sidecar, upkeep[o]) /\ upkeep[o] \in UpkeepState
      BY <1>1, <2>5 DEF CacheInv
    <3>2. ~ upkeep[o].alone
      BY <1>2, <2>5, NotAlone
    <3>3. ASSUME upkeep[o].quiet PROVE \E were \in [Artifacts -> Nat] : Follows(d, sidecar, upkeep[o], were)
      <4>1. PICK were \in [Artifacts -> Nat] : Follows(stored, sidecar, upkeep[o], were)
        BY <3>1, <3>3 DEF Sound
      <4>2. Follows(d, sidecar, upkeep[o], were)
        BY <2>4, <3>1, <4>1
      <4> QED
        BY <4>2
    <3> HIDE DEF d
    <3> QED
      BY <1>2, <2>1, <3>1, <3>2, <3>3 DEF Sound
  <2>6. Sound(stored', sidecar', gone)
    <3>1. ASSUME gone.quiet
          PROVE  \E were \in [Artifacts -> Nat] :
                   Follows(d, sidecar, gone, were) /\ HeftBy(sidecar)[stored[h]] <= e.size
      <4>1. PICK were \in [Artifacts -> Nat] : Follows(stored, sidecar, v, were)
        BY <1>4, <1>7, <3>1 DEF Sound
      <4> DEFINE t == Total(Weighed(d, [x \in Stored |-> were[x.path]]))
                 a == Total(Weighed(stored, [x \in Stored |-> were[x.path]]))
      <4>2. Follows(d, sidecar, v, were) /\ t + were[e.path] = a
        BY <1>3, <2>4, <4>1
      <4>3. were[e.path] = e.size
        BY <1>6, <4>1 DEF Follows
      <4>4. t \in Nat /\ a \in Nat
        <5>1. [x \in Stored |-> were[x.path]] \in [Stored -> Nat]
          BY WereTyped
        <5> QED
          BY <1>1, <2>2, <5>1, WeighedTyped, TotalPrefixes
      <4>5. a + v.freed <= v.total + v.doubled
        BY <4>1 DEF Follows
      <4>6. HeftBy(sidecar)[stored[h]] <= e.size
        BY <2>3, <4>1, <4>3 DEF Follows
      <4>7. t + gone.freed <= gone.total + gone.doubled
        <5> HIDE DEF t, a
        <5> QED
          BY <1>6, <1>7, <4>2, <4>3, <4>4, <4>5
      <4>8. \A k \in DOMAIN gone.listed : gone.listed[k].size = were[gone.listed[k].path]
        BY <1>6, <1>7, <4>1 DEF Follows
      <4>9. ASSUME NEW i \in DOMAIN d
            PROVE  d[i].path \in gone.stuck \/ \E k \in DOMAIN gone.listed : gone.listed[k].path = d[i].path
        <5>1. CASE d[i].path \in v.stuck
          BY <1>7, <5>1
        <5>2. CASE \E k \in DOMAIN v.listed : v.listed[k].path = d[i].path
          <6>1. PICK k \in DOMAIN v.listed : v.listed[k].path = d[i].path
            BY <5>2
          <6>2. k # 1
            BY <1>6, <2>2, <6>1
          <6>3. k - 1 \in DOMAIN Tail(v.listed) /\ (k - 1) + 1 = k
            BY <1>6, <6>2
          <6> QED
            BY SMTT(30), <1>6, <1>7, <6>1, <6>3
        <5> QED
          BY <4>2, <5>1, <5>2 DEF Follows
      <4>10. ASSUME NEW i \in DOMAIN d, NEW m \in DOMAIN d,
                    NEW k \in DOMAIN gone.listed, NEW l \in DOMAIN gone.listed,
                    gone.listed[k].path = d[i].path, gone.listed[l].path = d[m].path, i < m
             PROVE  k < l
        <5>1. k + 1 \in DOMAIN v.listed /\ l + 1 \in DOMAIN v.listed
              /\ v.listed[k + 1].path = d[i].path /\ v.listed[l + 1].path = d[m].path
          BY <1>6, <1>7, <4>10
        <5>2. k + 1 < l + 1
          BY <4>2, <4>10, <5>1 DEF Follows
        <5>3. k \in Nat /\ l \in Nat
          BY <1>6, <1>7
        <5> QED
          BY <5>2, <5>3
      <4>11. \A i \in DOMAIN d : HeftBy(sidecar)[d[i]] <= were[d[i].path]
        BY <4>2 DEF Follows
      <4> HIDE DEF d
      <4>12. Follows(d, sidecar, gone, were)
        BY <4>7, <4>8, <4>9, <4>10, <4>11 DEF Follows, t
      <4> QED
        BY <4>6, <4>12
    <3>2. ASSUME gone.quiet, gone.alone PROVE gone.total <= Held(d, sidecar) + gone.freed
      <4>1. v.total <= Held(stored, sidecar) + v.freed
        BY <1>4, <1>7, <3>2 DEF Sound
      <4>2. HeftBy(sidecar)[stored[h]] <= e.size
        BY <3>1, <3>2
      <4>3. /\ Held(d, sidecar) + HeftBy(sidecar)[stored[h]] = Held(stored, sidecar)
            /\ HeftBy(sidecar)[stored[h]] \in Nat /\ Held(d, sidecar) \in Nat /\ Held(stored, sidecar) \in Nat
        <5>1. HeftBy(sidecar) \in [Stored -> Nat]
          BY HeftTyped
        <5> QED
          BY <1>1, <2>3, <5>1, DropTotal DEF Held
      <4> HIDE DEF d
      <4> QED
        BY SMTT(30), <1>6, <1>7, <4>1, <4>2, <4>3
    <3> HIDE DEF d
    <3> QED
      BY <1>2, <1>7, <2>1, <3>1, <3>2 DEF Sound
  <2>7. gone.alone = upkeep[j].alone
    BY <1>7 DEF v
  <2> HIDE DEF d
  <2> QED
    BY <1>1, <1>2, <1>7, <1>9, <2>1, <2>2, <2>5, <2>6, <2>7, JobMoves
<1>10. CASE stored' = stored /\ upkeep' = [upkeep EXCEPT ![j] = kept]
  <2>1. Sound(stored', sidecar', kept)
    <3>1. ASSUME kept.quiet PROVE \E were \in [Artifacts -> Nat] : Follows(stored, sidecar, kept, were)
      <4>1. PICK were \in [Artifacts -> Nat] : Follows(stored, sidecar, v, were)
        BY <1>4, <1>8, <3>1 DEF Sound
      <4>2. \A k \in DOMAIN kept.listed : kept.listed[k].size = were[kept.listed[k].path]
        BY <1>6, <1>8, <4>1 DEF Follows
      <4>3. ASSUME NEW i \in DOMAIN stored
            PROVE  \/ stored[i].path \in kept.stuck
                   \/ \E k \in DOMAIN kept.listed : kept.listed[k].path = stored[i].path
        <5>1. CASE stored[i].path \in v.stuck
          BY <1>8, <5>1
        <5>2. CASE \E k \in DOMAIN v.listed : v.listed[k].path = stored[i].path
          <6>1. PICK k \in DOMAIN v.listed : v.listed[k].path = stored[i].path
            BY <5>2
          <6>2. CASE k = 1
            <7>1. stored[i].path = e.path
              BY <1>6, <6>1, <6>2
            <7> QED
              BY <1>8, <7>1
          <6>3. CASE k # 1
            <7>1. k - 1 \in DOMAIN Tail(v.listed) /\ (k - 1) + 1 = k
              BY <1>6, <6>3
            <7>2. Tail(v.listed)[k - 1] = v.listed[k]
              BY <1>6, <7>1
            <7>3. k - 1 \in DOMAIN kept.listed /\ kept.listed[k - 1].path = stored[i].path
              BY <1>8, <6>1, <7>1, <7>2
            <7> QED
              BY <7>3
          <6> QED
            BY <6>2, <6>3
        <5> QED
          BY <4>1, <5>1, <5>2 DEF Follows
      <4>4. ASSUME NEW i \in DOMAIN stored, NEW m \in DOMAIN stored,
                   NEW k \in DOMAIN kept.listed, NEW l \in DOMAIN kept.listed,
                   kept.listed[k].path = stored[i].path, kept.listed[l].path = stored[m].path, i < m
            PROVE  k < l
        <5>1. k + 1 \in DOMAIN v.listed /\ l + 1 \in DOMAIN v.listed
              /\ v.listed[k + 1].path = stored[i].path /\ v.listed[l + 1].path = stored[m].path
          BY <1>6, <1>8, <4>4
        <5>2. k + 1 < l + 1
          BY <4>1, <4>4, <5>1 DEF Follows
        <5>3. k \in Nat /\ l \in Nat
          BY <1>6, <1>8
        <5> QED
          BY <5>2, <5>3
      <4>5. Follows(stored, sidecar, kept, were)
        BY <1>8, <4>1, <4>2, <4>3, <4>4 DEF Follows
      <4> QED
        BY <4>5
    <3>2. ASSUME kept.quiet, kept.alone PROVE kept.total <= Held(stored, sidecar) + kept.freed
      BY <1>4, <1>8, <3>2 DEF Sound
    <3> QED
      BY <1>2, <1>8, <1>10, <3>1, <3>2 DEF Sound
  <2>2. \A o \in Upkeepers \ {j} : Evicting(o) => Sound(stored', sidecar', upkeep[o])
    BY <1>2, <1>10 DEF CacheInv
  <2>3. kept.alone = upkeep[j].alone
    BY <1>8 DEF v
  <2> QED
    BY <1>1, <1>2, <1>8, <1>10, <2>1, <2>2, <2>3, JobMoves
<1> QED
  BY <1>2, <1>9, <1>10

\* The invariant holds of the empty cache.
LEMMA CacheInvInit == CacheInit => CacheInv
<1> SUFFICES ASSUME CacheInit PROVE CacheInv
  OBVIOUS
<1>1. stored \in Seq(Stored) /\ OneEach(stored)
  BY DEF CacheInit, OneEach
<1>2. sidecar \in [Artifacts -> Statuses] /\ stores \in 0 .. MaxStores
  BY CacheAssumption DEF CacheInit, Statuses
<1>3. \A j \in Upkeepers : upkeep[j] = NoUpkeep
  BY DEF CacheInit
<1>4. upkeep \in [Upkeepers -> UpkeepState]
  BY NoUpkeepTyped DEF CacheInit
<1>5. \A j \in Upkeepers : ~ Evicting(j)
  BY <1>3, NoUpkeepTyped DEF Evicting
<1> QED
  BY <1>1, <1>2, <1>4, <1>5 DEF CacheInv

\* A job moves outside an eviction.
LEMMA IdleStep ==
  ASSUME CacheInv, NEW j \in Upkeepers,
         BeginMaintenance(j) \/ BeginCover(j) \/ EndValidation(j) \/ EndEviction(j)
  PROVE  CacheInv'
<1>1. stored \in Seq(Stored) /\ OneEach(stored) /\ sidecar \in [Artifacts -> Statuses]
      /\ upkeep \in [Upkeepers -> UpkeepState] /\ stores \in 0 .. MaxStores
  BY DEF CacheInv
<1>2. stored' = stored /\ sidecar' = sidecar /\ stores' = stores
  BY DEF BeginMaintenance, BeginCover, EndValidation, EndEviction
<1>3. \E u \in UpkeepState : upkeep' = [upkeep EXCEPT ![j] = u] /\ u.at \notin {"sidecar", "artifact"}
  <2>1. CASE BeginMaintenance(j)
    <3> DEFINE u == [NoUpkeep EXCEPT !.at = "check", !.check = Artifacts]
    <3>1. u \in UpkeepState /\ u.at = "check"
      BY NoUpkeepTyped DEF UpkeepState
    <3> QED
      BY <2>1, <3>1 DEF BeginMaintenance
  <2>2. CASE BeginCover(j)
    <3> DEFINE u == [NoUpkeep EXCEPT !.at = "list"]
    <3>1. u \in UpkeepState /\ u.at = "list"
      BY NoUpkeepTyped DEF UpkeepState
    <3> QED
      BY <2>2, <3>1 DEF BeginCover
  <2>3. CASE EndValidation(j)
    <3> DEFINE u == [upkeep[j] EXCEPT !.at = "list"]
    <3>1. u \in UpkeepState /\ u.at = "list"
      BY <1>1 DEF UpkeepState
    <3> QED
      BY <2>3, <3>1 DEF EndValidation
  <2>4. CASE EndEviction(j)
    BY <2>4, NoUpkeepTyped DEF EndEviction
  <2> QED
    BY <2>1, <2>2, <2>3, <2>4
<1>4. PICK u \in UpkeepState : upkeep' = [upkeep EXCEPT ![j] = u] /\ u.at \notin {"sidecar", "artifact"}
  BY <1>3
<1>5. \A o \in Upkeepers \ {j} : Evicting(o) => Sound(stored', sidecar', upkeep[o])
  BY <1>2 DEF CacheInv
<1> QED
  BY <1>1, <1>2, <1>4, <1>5, JobMoves

\* Every step of a job or of a request keeps the invariant.
LEMMA CacheInvStep == CacheInv /\ [CacheNext]_cacheVars => CacheInv'
<1> SUFFICES ASSUME CacheInv, [CacheNext]_cacheVars PROVE CacheInv'
  OBVIOUS
<1>1. CASE UNCHANGED cacheVars
  <2>1. stored' = stored /\ sidecar' = sidecar /\ stores' = stores /\ upkeep' = upkeep
    BY <1>1 DEF cacheVars
  <2> QED
    BY <2>1 DEF CacheInv, Evicting
<1>2. CASE CacheNext
  BY <1>2, StoreArtifactStep, ClearFileStep, ValidateStep, ListStep, EvictSidecarStep,
    EvictArtifactStep, IdleStep DEF CacheNext
<1> QED
  BY <1>1, <1>2

\* What each job knows of the cache while it evicts, for any cache, limit and
\* number of jobs.
THEOREM CacheInvariant == CacheSpec => []CacheInv
BY CacheInvInit, CacheInvStep, PTL DEF CacheSpec

\* The state of the cache and of its upkeep has its type.
THEOREM CacheTypeCorrect == CacheSpec => []CacheTypeOK
<1>1. CacheInv => CacheTypeOK
  <2> SUFFICES ASSUME CacheInv PROVE CacheTypeOK
    OBVIOUS
  <2>1. \A j \in Upkeepers : upkeep[j] \in UpkeepState
    BY DEF CacheInv
  <2>2. \A j \in Upkeepers :
          /\ upkeep[j].at \in {"idle", "check", "list", "sidecar", "artifact"}
          /\ upkeep[j].listed \in Seq([path : Artifacts, size : Nat])
          /\ upkeep[j].freed \in Nat
    BY <2>1 DEF UpkeepState, Listed
  <2> QED
    BY <2>2 DEF CacheInv, CacheTypeOK, OneEach, Statuses
<1> QED
  BY <1>1, CacheInvariant, PTL

\* What could not be deleted weighs all that is held, if it is all there is.
LEMMA AllStuck ==
  ASSUME CacheInv, NEW j \in Upkeepers, \A i \in DOMAIN stored : stored[i].path \in upkeep[j].stuck
  PROVE  StuckBytes(j) = Bytes(WithSidecars)
<1> DEFINE all == WithSidecars
           good == {e \in Range(all) : e.path \in upkeep[j].stuck}
           size == [e \in Listed |-> e.size]
<1>1. /\ all \in Seq(Listed) /\ Len(all) = Len(stored)
      /\ \A i \in 1 .. Len(stored) : all[i].path = stored[i].path
  BY SidecarsCounted DEF CacheInv
<1>2. DOMAIN stored = 1 .. Len(stored) /\ DOMAIN all = 1 .. Len(all)
  BY <1>1 DEF CacheInv
<1>3. \A i \in DOMAIN all : all[i] \in good /\ all[i] \in Listed
  BY <1>1, <1>2 DEF Range
<1>4. size \in [Listed -> Nat]
  BY DEF Listed
<1> HIDE DEF all, good
<1>5. \A s \in Seq(Listed) : Bytes(s) = Total(Weighed(s, size))
  <2> TAKE s \in Seq(Listed)
  <2>1. \A i \in DOMAIN s : s[i] \in Listed
    OBVIOUS
  <2>2. [i \in DOMAIN s |-> s[i].size] = Weighed(s, size)
    BY <2>1 DEF Weighed
  <2> QED
    BY <2>2 DEF Bytes
<1> HIDE DEF size
<1>6. Kept(all, good) \in Seq(Listed)
  BY <1>1, KeptPositions
<1>7. Total(Weighed(Kept(all, good), size)) = Total(Weighed(all, size))
  <2>1. \A m \in DOMAIN all : all[m] \in good
    BY <1>3
  <2>2. all \in Seq(Listed)
    BY <1>1
  <2> QED
    BY <2>1, <2>2, <1>4, TotalAllKept
<1>9. Bytes(Kept(all, good)) = Bytes(all)
  BY <1>1, <1>5, <1>6, <1>7
<1> QED
  BY <1>9 DEF StuckBytes, all, good

\* What could not be deleted weighs a number of bytes.
LEMMA StuckTyped ==
  ASSUME CacheInv, NEW j \in Upkeepers
  PROVE  StuckBytes(j) \in Nat
<1> DEFINE all == WithSidecars
           good == {e \in Range(all) : e.path \in upkeep[j].stuck}
           s == Kept(all, good)
<1>1. all \in Seq(Listed)
  BY SidecarsCounted DEF CacheInv
<1>2. s \in Seq(Listed)
  <2> HIDE DEF all, good
  <2> QED
    BY <1>1, KeptPositions
<1> HIDE DEF s
<1>3. [i \in DOMAIN s |-> s[i].size] \in Seq(Nat)
  <2>1. \A i \in 1 .. Len(s) : s[i].size \in Nat
    <3> SUFFICES ASSUME NEW i \in 1 .. Len(s) PROVE s[i].size \in Nat
      OBVIOUS
    <3>1. s[i] \in Listed
      BY <1>2
    <3> QED
      BY <3>1 DEF Listed
  <2> QED
    BY <1>2, <2>1
<1>4. Bytes(s) \in Nat
  BY <1>3, TotalPrefixes DEF Bytes
<1> QED
  BY <1>4 DEF s, StuckBytes

\* An eviction that ends leaves no more than the limit, but for what it could
\* not delete and for the sidecars it has counted twice.
LEMMA EndFits ==
  ASSUME CacheInv, NEW j \in Upkeepers, upkeep[j].quiet, EndEviction(j)
  PROVE  Bytes(WithSidecars) <= MaxBytes + StuckBytes(j) + upkeep[j].doubled
<1> DEFINE v == upkeep[j]
<1>0. /\ stored \in Seq(Stored) /\ sidecar \in [Artifacts -> Statuses]
      /\ v \in UpkeepState /\ Evicting(j)
  BY DEF CacheInv, EndEviction, Evicting
<1>1. StuckBytes(j) \in Nat /\ MaxBytes \in Nat /\ v.doubled \in Nat /\ v.freed \in Nat /\ v.total \in Nat
  BY <1>0, StuckTyped, CacheAssumption DEF UpkeepState
<1>2. Bytes(WithSidecars) = Held(stored, sidecar) /\ Held(stored, sidecar) \in Nat
  BY <1>0, SidecarsCounted
<1>3. PICK were \in [Artifacts -> Nat] : Follows(stored, sidecar, v, were)
  BY <1>0 DEF CacheInv, Sound
<1>4. CASE v.listed = <<>>
  <2>1. \A i \in DOMAIN stored : stored[i].path \in v.stuck
    BY <1>3, <1>4 DEF Follows
  <2>2. StuckBytes(j) = Bytes(WithSidecars)
    BY <2>1, AllStuck
  <2> QED
    BY <1>1, <1>2, <2>2
<1>5. CASE v.total <= MaxBytes + v.freed
  <2> DEFINE w == [e \in Stored |-> were[e.path]]
             f == Weighed(stored, HeftBy(sidecar))
             g == Weighed(stored, w)
  <2>1. f \in Seq(Nat) /\ Len(f) = Len(stored) /\ \A i \in 1 .. Len(stored) : f[i] = HeftBy(sidecar)[stored[i]]
    BY <1>0, WeighedTyped, HeftTyped
  <2>2. w \in [Stored -> Nat]
    BY WereTyped
  <2>3. g \in Seq(Nat) /\ Len(g) = Len(stored) /\ \A i \in 1 .. Len(stored) : g[i] = w[stored[i]]
    BY SMTT(30), <1>0, <2>2, WeighedTyped
  <2>4. \A i \in 1 .. Len(stored) : stored[i] \in Stored /\ i \in DOMAIN stored
    BY <1>0
  <2>5. \A i \in 1 .. Len(stored) : f[i] <= g[i]
    BY <1>3, <2>1, <2>3, <2>4 DEF Follows
  <2>6. Total(g) \in Nat /\ Total(g) + v.freed <= v.total + v.doubled
    BY <1>3, <2>3, TotalPrefixes DEF Follows
  <2> HIDE DEF f, g
  <2>7. Total(f) <= Total(g)
    BY <2>1, <2>3, <2>5, TotalMonotone
  <2>8. Held(stored, sidecar) = Total(f)
    BY DEF Held, f
  <2> QED
    BY <1>1, <1>2, <1>5, <2>6, <2>7, <2>8
<1> QED
  BY <1>4, <1>5 DEF EndEviction, Enough

\* An eviction deletes the oldest artifact that it has not tried and, if it is
\* alone, deletes none once the cache fits.
LEMMA EvictsOldest ==
  ASSUME CacheInv, NEW j \in Upkeepers, upkeep[j].quiet, EvictArtifact(j), stored' # stored
  PROVE  /\ \A i \in DOMAIN stored : stored[i].path \notin upkeep[j].stuck =>
              i >= CHOOSE k \in DOMAIN stored : stored[k].path = Head(upkeep[j].listed).path
         /\ upkeep[j].alone => Bytes(WithSidecars) + SidecarSize > MaxBytes
<1> DEFINE v == upkeep[j]
           p == Head(v.listed).path
           place == CHOOSE k \in DOMAIN stored : stored[k].path = p
<1>0. /\ stored \in Seq(Stored) /\ sidecar \in [Artifacts -> Statuses] /\ v \in UpkeepState
      /\ Evicting(j) /\ v.at = "artifact"
  BY DEF CacheInv, EvictArtifact, Evicting
<1>1. Sound(stored, sidecar, v)
  BY <1>0 DEF CacheInv
<1>2. PICK were \in [Artifacts -> Nat] : Follows(stored, sidecar, v, were)
  BY <1>1 DEF Sound
<1>3. v.listed \in Seq(Listed) /\ v.listed # <<>>
  BY <1>0, <1>1 DEF Sound, UpkeepState
<1>4. 1 \in DOMAIN v.listed /\ v.listed[1].path = p /\ \A k \in DOMAIN v.listed : ~ (k < 1)
  BY <1>3
<1>5. place \in DOMAIN stored /\ stored[place].path = p
  BY DEF EvictArtifact, Present
<1>6. DOMAIN stored = 1 .. Len(stored)
  BY <1>0
<1> HIDE DEF place
<1>7. ASSUME NEW i \in DOMAIN stored, stored[i].path \notin v.stuck PROVE i >= place
  <2>1. PICK k \in DOMAIN v.listed : v.listed[k].path = stored[i].path
    BY <1>2, <1>7 DEF Follows
  <2>2. ~ (i < place)
    BY <1>2, <1>4, <1>5, <2>1 DEF Follows
  <2> QED
    BY <1>5, <1>6, <2>2
<1>8. ASSUME v.alone PROVE Bytes(WithSidecars) + SidecarSize > MaxBytes
  <2>1. Bytes(WithSidecars) = Held(stored, sidecar) /\ Held(stored, sidecar) \in Nat
    BY <1>0, SidecarsCounted
  <2>2. v.total + SidecarSize > MaxBytes + v.freed /\ v.total <= Held(stored, sidecar) + v.freed
    BY <1>0, <1>1, <1>8 DEF Sound
  <2>3. v.total \in Nat /\ v.freed \in Nat /\ MaxBytes \in Nat /\ SidecarSize \in Nat
    BY <1>0, CacheAssumption DEF UpkeepState
  <2> QED
    BY <2>1, <2>2, <2>3
<1> QED
  BY <1>7, <1>8 DEF place

\* The cache fits its limit when a quiet eviction ends, and the eviction takes
\* the oldest first and not more than it must.
THEOREM Fits == CacheSpec => EvictionFits
<1> DEFINE Fit == \A j \in Upkeepers : upkeep[j].quiet =>
       /\ EndEviction(j) => Bytes(WithSidecars) <= MaxBytes + StuckBytes(j) + upkeep[j].doubled
       /\ EvictArtifact(j) /\ stored' # stored =>
            /\ \A i \in DOMAIN stored : stored[i].path \notin upkeep[j].stuck =>
                 i >= CHOOSE k \in DOMAIN stored : stored[k].path = Head(upkeep[j].listed).path
            /\ upkeep[j].alone =>
                 Bytes(WithSidecars) + SidecarSize > MaxBytes
<1>1. CacheInv => Fit
  BY EndFits, EvictsOldest
<1>2. CacheInv => [Fit]_cacheVars
  BY <1>1
<1> QED
  BY <1>2, CacheInvariant, PTL DEF EvictionFits
=============================================================================
