---------------------------- MODULE CacheEviction ----------------------------
(***************************************************************************)
(* The upkeep of the artifact cache (services/cache.py): the maintenance   *)
(* job, which sweeps the cache and then evicts, and the cover job, which   *)
(* evicts after it has stored its cover (jobs/handlers.py).  Both are in a *)
(* pool of two threads, so that two of them may run at a time, beside the  *)
(* threads that store new artifacts.                                       *)
(*                                                                         *)
(* An eviction lists what is there, and then deletes from that list; what  *)
(* it deletes may have gone by then, or have been stored again.  Symbolic  *)
(* links and staging files are left out (RepresentationCache has the sweep *)
(* of the latter).                                                         *)
(***************************************************************************)
EXTENDS Naturals, Sequences, SequencesExt, Selections

CONSTANTS
  Artifacts,    \* paths in the cache
  Sizes,        \* sizes of artifacts, in bytes
  SidecarSize,  \* size of a checksum sidecar
  MaxBytes,     \* settings.cache_max_bytes, 0 for unlimited
  Upkeepers,    \* the jobs at a time
  MaxStores     \* bound on the artifacts stored

ASSUME CacheAssumption ==
  /\ Sizes \subseteq Nat
  /\ SidecarSize \in Nat /\ MaxBytes \in Nat /\ MaxStores \in Nat

VARIABLES
  stored,       \* the artifacts, by mtime, the oldest first
  sidecar,      \* what the checksum file beside each path says of it
  stores,       \* how many artifacts have been stored
  upkeep        \* the local state of each job

cacheVars == <<stored, sidecar, stores, upkeep>>

Stored == [path : Artifacts, size : Sizes]

\* "listed" are the artifacts still to be looked at, with their sizes, of
\* which all added up to "total"; "doubled" and "stuck" are of no use to the
\* job: the bytes of sidecars it has counted twice, and what it could not
\* delete.  "quiet" says that nothing was stored or cleared since it listed,
\* "alone" that no other job evicted.
NoUpkeep == [at |-> "idle", check |-> {}, listed |-> <<>>, total |-> 0, freed |-> 0,
             doubled |-> 0, stuck |-> {}, quiet |-> TRUE, alone |-> TRUE]

CacheTypeOK ==
  /\ stored \in Seq(Stored)
  /\ \A i, j \in DOMAIN stored : stored[i].path = stored[j].path => i = j
  /\ sidecar \in [Artifacts -> {"none", "right", "wrong"}]
  /\ stores \in 0..MaxStores
  /\ \A j \in Upkeepers :
       /\ upkeep[j].at \in {"idle", "check", "list", "sidecar", "artifact"}
       /\ upkeep[j].listed \in Seq([path : Artifacts, size : Nat])
       /\ upkeep[j].freed \in Nat

CacheInit ==
  /\ stored = <<>>
  /\ sidecar = [p \in Artifacts |-> "none"]
  /\ stores = 0
  /\ upkeep = [j \in Upkeepers |-> NoUpkeep]

Present(p) == \E i \in DOMAIN stored : stored[i].path = p
Without(p) == Kept(stored, {e \in Range(stored) : e.path # p})

Sized(e) == [e EXCEPT !.size = @ + IF sidecar[e.path] = "none" THEN 0 ELSE SidecarSize]
Bytes(entries) == Total([i \in DOMAIN entries |-> entries[i].size])
WithSidecars == [i \in DOMAIN stored |-> Sized(stored[i])]

Disturbed == [j \in Upkeepers |-> [upkeep[j] EXCEPT !.quiet = FALSE]]

-----------------------------------------------------------------------------
(* Other users of the cache.                                               *)

\* An artifact is renamed into place, over the one that was there.  Its
\* caller may write a checksum for it; a sidecar that is left over tells the
\* one of another content.
StoreArtifact(p, size, summed) ==
  /\ stores < MaxStores
  /\ stored' = Append(Without(p), [path |-> p, size |-> size])
  /\ sidecar' = [sidecar EXCEPT ![p] = IF summed THEN "right" ELSE IF @ = "none" THEN @ ELSE "wrong"]
  /\ stores' = stores + 1
  /\ upkeep' = Disturbed

\* clear unlinks the files of the cache one by one, in any order.
ClearFile(p) ==
  /\ \/ Present(p) /\ stored' = Without(p) /\ UNCHANGED sidecar
     \/ sidecar[p] # "none" /\ sidecar' = [sidecar EXCEPT ![p] = "none"] /\ UNCHANGED stored
  /\ upkeep' = Disturbed
  /\ UNCHANGED stores

-----------------------------------------------------------------------------
(* validate.                                                               *)

BeginMaintenance(j) ==
  /\ upkeep[j].at = "idle"
  /\ upkeep' = [upkeep EXCEPT ![j] = [NoUpkeep EXCEPT !.at = "check", !.check = Artifacts]]
  /\ UNCHANGED <<stored, sidecar, stores>>

\* The job is past p; what it does to the disk disturbs the others.
Checked(j, p) ==
  upkeep' = [Disturbed EXCEPT ![j] = [upkeep[j] EXCEPT !.check = @ \ {p}]]

\* An empty artifact goes, an artifact that its sidecar belies goes with it.
Validate(j, p) ==
  LET entry == CHOOSE e \in Range(stored) : e.path = p IN
  /\ upkeep[j].at = "check" /\ p \in upkeep[j].check
  /\ IF Present(p) /\ entry.size = 0
     THEN stored' = Without(p) /\ UNCHANGED sidecar
     ELSE IF Present(p) /\ sidecar[p] = "wrong"
     THEN stored' = Without(p) /\ sidecar' = [sidecar EXCEPT ![p] = "none"]
     ELSE UNCHANGED <<stored, sidecar>>
  /\ IF stored' = stored THEN upkeep' = [upkeep EXCEPT ![j].check = @ \ {p}] ELSE Checked(j, p)
  /\ UNCHANGED stores

EndValidation(j) ==
  /\ upkeep[j].at = "check" /\ upkeep[j].check = {}
  /\ upkeep' = [upkeep EXCEPT ![j].at = "list"]
  /\ UNCHANGED <<stored, sidecar, stores>>

-----------------------------------------------------------------------------
(* enforce_limit and evict.                                                *)

\* The cover job comes here without a validation.
BeginCover(j) ==
  /\ upkeep[j].at = "idle"
  /\ upkeep' = [upkeep EXCEPT ![j] = [NoUpkeep EXCEPT !.at = "list"]]
  /\ UNCHANGED <<stored, sidecar, stores>>

\* Mutant of Candidates: without their sidecars.
CandidatesBare == Reverse(stored)

\* The artifacts, with the sizes of their sidecars, the oldest first.
Candidates == WithSidecars

Evicting(j) == upkeep[j].at \in {"sidecar", "artifact"}

List(j) ==
  /\ upkeep[j].at = "list"
  /\ upkeep' = IF MaxBytes = 0 \/ Bytes(Candidates) <= MaxBytes
               THEN [upkeep EXCEPT ![j] = NoUpkeep]
               ELSE [k \in Upkeepers |->
                       IF k = j
                       THEN [NoUpkeep EXCEPT !.at = "sidecar", !.listed = Candidates,
                               !.total = Bytes(Candidates),
                               !.alone = \A o \in Upkeepers : ~Evicting(o)]
                       ELSE [upkeep[k] EXCEPT !.alone = FALSE]]
  /\ UNCHANGED <<stored, sidecar, stores>>

Enough(j) == upkeep[j].listed = <<>> \/ upkeep[j].total <= MaxBytes + upkeep[j].freed

\* The sidecar's bytes are counted as freed, and it is unlinked.
EvictSidecar(j) ==
  LET p == Head(upkeep[j].listed).path
      bytes == IF sidecar[p] = "none" THEN 0 ELSE SidecarSize
  IN
  /\ upkeep[j].at = "sidecar"
  /\ ~Enough(j)
  /\ upkeep' = [upkeep EXCEPT ![j].at = "artifact", ![j].freed = @ + bytes,
                              ![j].doubled = @ + bytes]
  /\ sidecar' \in {sidecar, [sidecar EXCEPT ![p] = "none"]}
  /\ UNCHANGED <<stored, stores>>

\* The artifact is unlinked; its bytes count only if that succeeds, which it
\* does not if the file has gone.
EvictArtifact(j) ==
  LET e == Head(upkeep[j].listed)
      next == [upkeep[j] EXCEPT !.at = "sidecar", !.listed = Tail(@)]
  IN
  /\ upkeep[j].at = "artifact"
  /\ \/ /\ Present(e.path)
        /\ stored' = Without(e.path)
        /\ upkeep' = [upkeep EXCEPT ![j] = [next EXCEPT !.freed = @ + e.size]]
     \/ /\ upkeep' = [upkeep EXCEPT ![j] = [next EXCEPT !.stuck = @ \cup {e.path}]]
        /\ UNCHANGED stored
  /\ UNCHANGED <<sidecar, stores>>

EndEviction(j) ==
  /\ upkeep[j].at = "sidecar"
  /\ Enough(j)
  /\ upkeep' = [upkeep EXCEPT ![j] = NoUpkeep]
  /\ UNCHANGED <<stored, sidecar, stores>>

CacheNext ==
  \/ \E p \in Artifacts :
       \/ ClearFile(p)
       \/ \E size \in Sizes, summed \in BOOLEAN : StoreArtifact(p, size, summed)
  \/ \E j \in Upkeepers :
       \/ BeginMaintenance(j) \/ BeginCover(j) \/ EndValidation(j)
       \/ \E p \in Artifacts : Validate(j, p)
       \/ List(j) \/ EvictSidecar(j) \/ EvictArtifact(j) \/ EndEviction(j)

CacheSpec == CacheInit /\ [][CacheNext]_cacheVars

-----------------------------------------------------------------------------
(* Properties.                                                             *)

StuckBytes(j) ==
  Bytes(Kept(WithSidecars, {e \in Range(WithSidecars) : e.path \in upkeep[j].stuck}))

\* An eviction during which nothing is stored or cleared leaves a cache that
\* fits its limit, but for what it could not delete and for the bytes of the
\* sidecars it met, which the code takes off twice.  It deletes no artifact
\* before it has tried all the older ones and, if no other job evicts at the
\* time, none once the cache fits.
EvictionFits ==
  [][\A j \in Upkeepers : upkeep[j].quiet =>
       /\ EndEviction(j) => Bytes(WithSidecars) <= MaxBytes + StuckBytes(j) + upkeep[j].doubled
       /\ EvictArtifact(j) /\ stored' # stored =>
            /\ \A i \in DOMAIN stored : stored[i].path \notin upkeep[j].stuck =>
                 i >= CHOOSE k \in DOMAIN stored : stored[k].path = Head(upkeep[j].listed).path
            /\ upkeep[j].alone =>
                 Bytes(WithSidecars) + SidecarSize > MaxBytes]_cacheVars
=============================================================================
