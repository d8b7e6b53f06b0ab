---------------------------- MODULE MetadataProofs ----------------------------
(***************************************************************************)
(* Proofs about MetadataCuration.  Two arguments:                          *)
(*                                                                         *)
(* However enrichments and edits overlap, what a user entered survives:    *)
(* an enrichment reads the provenance under the write lock and keeps the   *)
(* lock until its commit, so what it read is still so when it writes.      *)
(*                                                                         *)
(* A session that no other overlaps commits on the book it loaded, so that *)
(* missing means missing, an edit has its effect, and the index is brought *)
(* in step, whatever overlapping sessions did before.                      *)
(***************************************************************************)
EXTENDS MetadataCuration, TLAPS

Enriching(s) == session[s].kind = "enrich"

\* The lock is held by an enrichment past its flush, and by nobody else.
LockHeld ==
  \A s \in Sessions :
    /\ At(s, "locked") => Enriching(s)
    /\ At(s, "locked") \/ (At(s, "planned") /\ Enriching(s)) => lock = s

\* An enrichment about to commit has left out what is the user's now.
PlanRespectsUser ==
  \A s \in Sessions : At(s, "planned") /\ Enriching(s) =>
    \A f \in Written(s) : prov[f] # "user"

KindsRun == \A s \in Sessions : ~At(s, "idle") => session[s].kind \in Kinds

IInv == CurationTypeOK /\ LockHeld /\ PlanRespectsUser /\ KindsRun

-----------------------------------------------------------------------------

\* Every decision fills in a value, a blank or nothing for each field.
LEMMA DecisionTypes ==
  ASSUME NEW s \in Sessions, NEW new \in Decisions(s)
  PROVE  new \in [Fields -> Values \cup {Empty, Keep}]
  BY DEF Decisions, Nothing

\* Automation decides to write only fields that are not the user's.
LEMMA DecisionRespectsUser ==
  ASSUME NEW s \in Sessions, NEW new \in Decisions(s), session[s].kind # "edit"
  PROVE  \A f \in Fields : new[f] # Keep => prov[f] # "user"
<1>1. PICK F \in SUBSET Fields, offer \in [Fields -> Values] :
        new = [f \in Fields |-> IF f \in Applicable(s, F) THEN offer[f] ELSE Keep]
  BY DEF Decisions
<1> QED
  BY <1>1 DEF Applicable

\* The variables start with values of their types.
LEMMA TypedInit == CurationInit => CurationTypeOK
  BY CurationAssumption
     DEF CurationInit, CurationTypeOK, Contents, Provenance, Sources, Locals, Rest, Blank, Unmarked,
          Nothing

\* No step of a session takes a variable out of its type.
LEMMA TypedStep ==
  ASSUME CurationTypeOK, [CurationNext]_curationVars
  PROVE  CurationTypeOK'
<1>1. CASE UNCHANGED curationVars
  BY <1>1 DEF CurationTypeOK, curationVars
<1>2. ASSUME NEW s \in Sessions, NEW kind \in Kinds, Load(s, kind)
      PROVE  CurationTypeOK'
  <2>1. \A t \in Sessions : session'[t] \in Locals
    <3>1. Rest \in Locals
      BY DEF Rest, Locals, Contents, Provenance, Sources, Blank, Unmarked, Nothing
    <3>2. \A t \in Sessions \ {s} : session'[t] \in Locals
      BY <1>2, ZenonT(40) DEF Load, CurationTypeOK, Locals
    <3>3. session'[s] = [Rest EXCEPT !.at = "loaded", !.kind = kind, !.loaded = value,
                                     !.alone = \A u \in Sessions : At(u, "idle")]
      BY <1>2 DEF Load
    <3>4. session'[s] \in Locals
      BY <3>1, <3>3, CurationAssumption, ZenonT(40) DEF CurationTypeOK, Locals
    <3> QED
      BY <3>2, <3>4
  <2> QED
    BY <1>2, <2>1 DEF Load, CurationTypeOK
<1>3. ASSUME NEW s \in Sessions, StoreCandidates(s)
      PROVE  CurationTypeOK'
  <2>1. session'[s] \in Locals
    BY <1>3 DEF StoreCandidates, CurationTypeOK, Locals
  <2> QED
    BY <1>3, <2>1 DEF StoreCandidates, CurationTypeOK
<1>4. ASSUME NEW s \in Sessions, Plan(s)
      PROVE  CurationTypeOK'
  <2>1. PICK new \in Decisions(s) :
          session' = [session EXCEPT ![s].at = "planned", ![s].known = prov, ![s].new = new]
    BY <1>4 DEF Plan
  <2>2. new \in [Fields -> Values \cup {Empty, Keep}]
    BY DecisionTypes
  <2>3. session'[s] \in Locals
    BY <2>1, <2>2, ZenonT(40) DEF CurationTypeOK, Locals
  <2> QED
    BY <1>4, <2>1, <2>3 DEF Plan, CurationTypeOK
<1>5. ASSUME NEW s \in Sessions, Close(s)
      PROVE  lock' \in Sessions \cup {Nobody} /\ session' \in [Sessions -> Locals]
  <2>1. Rest \in Locals
    BY DEF Rest, Locals, Contents, Provenance, Sources, Blank, Unmarked, Nothing
  <2> QED
    BY <1>5, <2>1 DEF Close, CurationTypeOK
<1>6. ASSUME NEW s \in Sessions, Commit(s)
      PROVE  CurationTypeOK'
  <2>1. session[s].new \in [Fields -> Values \cup {Empty, Keep}] /\ session[s].loaded \in Contents
    BY DEF CurationTypeOK, Locals
  <2>2. value' \in Contents
    BY <1>6, <2>1 DEF Commit, CurationTypeOK, Contents, Written
  <2>3. prov' \in Provenance
    BY <1>6 DEF Commit, CurationTypeOK, Provenance, Sources, MarkedAs, SourceOf
  <2>4. index' \in Contents
    BY <1>6, <2>1 DEF Commit, CurationTypeOK, Contents, Written, Reindexed
  <2> QED
    BY <1>5, <1>6, <2>2, <2>3, <2>4 DEF Commit, CurationTypeOK
<1>7. ASSUME NEW s \in Sessions, Abandon(s)
      PROVE  CurationTypeOK'
  BY <1>5, <1>7 DEF Abandon, CurationTypeOK
<1> QED
  BY <1>1, <1>2, <1>3, <1>4, <1>6, <1>7 DEF CurationNext

\* Ending a session gives up its lock and leaves the others as they were.
LEMMA CloseLocal ==
  ASSUME CurationTypeOK, NEW s \in Sessions, Close(s)
  PROVE  /\ session'[s] = Rest
         /\ \A t \in Sessions \ {s} : session'[t] = session[t]
         /\ lock' = IF lock = s THEN Nobody ELSE lock
  BY DEF Close, CurationTypeOK

\* The lock keeps every other session from committing between an
\* enrichment's reading of the provenance and its own commit.
LEMMA StepInvariant == IInv /\ [CurationNext]_curationVars => IInv'
<1> SUFFICES ASSUME IInv, [CurationNext]_curationVars PROVE IInv'
  OBVIOUS
<1> USE DEF IInv
<1>1. CurationTypeOK'
  BY TypedStep
<1>2. CASE UNCHANGED curationVars
  BY <1>1, <1>2 DEF curationVars, LockHeld, PlanRespectsUser, KindsRun, At, Enriching, Written
<1>3. ASSUME NEW s \in Sessions, NEW kind \in Kinds, Load(s, kind)
      PROVE  IInv'
  <2>1. /\ session'[s].at = "loaded" /\ session'[s].kind = kind
        /\ \A t \in Sessions \ {s} : /\ session'[t].at = session[t].at
                                    /\ session'[t].kind = session[t].kind
                                    /\ session'[t].new = session[t].new
        /\ prov' = prov /\ lock' = lock
    BY <1>3 DEF Load, CurationTypeOK, Locals, Rest
  <2> QED
    BY <1>1, <2>1 DEF LockHeld, PlanRespectsUser, KindsRun, At, Enriching, Written
<1>4. ASSUME NEW s \in Sessions, StoreCandidates(s)
      PROVE  IInv'
  <2>1. /\ session[s].at = "loaded" /\ session[s].kind = "enrich" /\ lock = Nobody
        /\ session'[s].at = "locked" /\ session'[s].kind = "enrich" /\ lock' = s
        /\ \A t \in Sessions \ {s} : session'[t] = session[t]
        /\ prov' = prov
    BY <1>4 DEF StoreCandidates, CurationTypeOK, Locals, At
  <2>2. LockHeld'
    BY <2>1, CurationAssumption DEF LockHeld, At, Enriching
  <2> QED
    BY <1>1, <2>1, <2>2 DEF PlanRespectsUser, KindsRun, At, Enriching, Written
<1>5. ASSUME NEW s \in Sessions, Plan(s)
      PROVE  IInv'
  <2>1. PICK new \in Decisions(s) :
          session' = [session EXCEPT ![s].at = "planned", ![s].known = prov, ![s].new = new]
    BY <1>5 DEF Plan
  <2>2. /\ session'[s].at = "planned" /\ session'[s].kind = session[s].kind
        /\ session'[s].new = new
        /\ \A t \in Sessions \ {s} : session'[t] = session[t]
        /\ prov' = prov /\ lock' = lock
        /\ ~At(s, "idle") /\ (Enriching(s) => At(s, "locked"))
    BY <1>5, <2>1 DEF Plan, CurationTypeOK, Locals, At, Enriching
  <2>3. LockHeld' /\ KindsRun'
    BY <2>2 DEF LockHeld, KindsRun, At, Enriching
  <2>4. PlanRespectsUser'
    BY <2>2, DecisionRespectsUser DEF PlanRespectsUser, At, Enriching, Written
  <2> QED
    BY <1>1, <2>3, <2>4
<1>6. ASSUME NEW s \in Sessions, Commit(s) \/ Abandon(s)
      PROVE  IInv'
  <2>1. Close(s)
    BY <1>6 DEF Commit, Abandon
  <2>2. /\ session'[s].at = "idle"
        /\ \A t \in Sessions \ {s} : session'[t] = session[t]
        /\ lock' = IF lock = s THEN Nobody ELSE lock
    BY <2>1, CloseLocal DEF Rest
  <2>3. LockHeld' /\ KindsRun'
    BY <2>2 DEF LockHeld, KindsRun, At, Enriching
  <2>4. CASE Abandon(s)
    BY <1>1, <2>2, <2>3, <2>4 DEF Abandon, PlanRespectsUser, At, Enriching, Written
  <2>5. CASE Commit(s)
    <3>1. \A t \in Sessions \ {s} : ~(At(t, "planned") /\ Enriching(t))
      BY <2>5, CurationAssumption DEF Commit, LockHeld
    <3> QED
      BY <1>1, <2>2, <2>3, <3>1 DEF PlanRespectsUser, At, Enriching, Written
  <2> QED
    BY <1>6, <2>4, <2>5
<1> QED
  BY <1>2, <1>3, <1>4, <1>5, <1>6 DEF CurationNext

\* The invariant holds however sessions overlap.
THEOREM InvariantHolds == CurationSpec => []IInv
<1>1. CurationInit => IInv
  BY TypedInit DEF CurationInit, IInv, LockHeld, PlanRespectsUser, KindsRun, At, Rest
<1> QED
  BY <1>1, StepInvariant, PTL DEF CurationSpec

\* Every variable keeps its type, whatever overlaps.
THEOREM TypeCorrect == CurationSpec => []CurationTypeOK
  BY InvariantHolds, PTL DEF IInv

-----------------------------------------------------------------------------
(* Sessions that no other overlaps.                                        *)

Alone(s) == ~At(s, "idle") /\ session[s].alone

\* A session alone has the book as it still is, its provenance from the
\* moment of the decision, has found what it fills to be missing, and has
\* left out what is the user's.
AloneInv ==
  /\ CurationTypeOK
  /\ \A s, t \in Sessions : Alone(s) /\ ~At(t, "idle") => s = t
  /\ \A s \in Sessions : Alone(s) => session[s].loaded = value
  /\ \A s \in Sessions : Alone(s) /\ At(s, "planned") =>
       /\ session[s].known = prov
       /\ session[s].kind \in {"enrich", "missing"} => \A f \in Written(s) : value[f] = Empty
       /\ session[s].kind # "edit" => \A f \in Written(s) : prov[f] # "user"

\* With missing_only a session decides to write only fields it takes for empty.
LEMMA DecisionFillsEmpty ==
  ASSUME NEW s \in Sessions, NEW new \in Decisions(s),
         session[s].kind \in {"enrich", "missing"}
  PROVE  \A f \in Fields : new[f] # Keep => session[s].loaded[f] = Empty
<1>1. PICK F \in SUBSET Fields, offer \in [Fields -> Values] :
        new = [f \in Fields |-> IF f \in Applicable(s, F) THEN offer[f] ELSE Keep]
  BY DEF Decisions
<1> QED
  BY <1>1 DEF Applicable

\* While a session is alone nobody else changes the book under it.
LEMMA StepAlone == AloneInv /\ [CurationNext]_curationVars => AloneInv'
<1> SUFFICES ASSUME AloneInv, [CurationNext]_curationVars PROVE AloneInv'
  OBVIOUS
<1> USE DEF AloneInv
<1>1. CurationTypeOK'
  BY TypedStep
<1>2. CASE UNCHANGED curationVars
  BY <1>1, <1>2 DEF curationVars, At, Alone, Written
<1>3. ASSUME NEW s \in Sessions, NEW kind \in Kinds, Load(s, kind)
      PROVE  AloneInv'
  <2>1. /\ session'[s].at = "loaded" /\ session'[s].loaded = value
        /\ session'[s].alone = \A u \in Sessions : At(u, "idle")
        /\ \A t \in Sessions \ {s} : session'[t].at = session[t].at /\ ~session'[t].alone
        /\ UNCHANGED <<value, prov, index>>
    BY <1>3 DEF Load, CurationTypeOK, Locals, Rest
  <2> QED
    BY <1>1, <2>1, ZenonT(40) DEF At, Alone, Written
<1>4. ASSUME NEW s \in Sessions, StoreCandidates(s)
      PROVE  AloneInv'
  <2>1. /\ ~At(s, "idle") /\ session'[s].at = "locked"
        /\ session'[s].loaded = session[s].loaded /\ session'[s].alone = session[s].alone
        /\ \A t \in Sessions \ {s} : session'[t] = session[t]
        /\ UNCHANGED <<value, prov, index>>
    BY <1>4 DEF StoreCandidates, CurationTypeOK, Locals, At
  <2> QED
    BY <1>1, <2>1 DEF At, Alone, Written
<1>5. ASSUME NEW s \in Sessions, Plan(s)
      PROVE  AloneInv'
  <2>1. PICK new \in Decisions(s) :
          session' = [session EXCEPT ![s].at = "planned", ![s].known = prov, ![s].new = new]
    BY <1>5 DEF Plan
  <2>2. /\ session'[s].at = "planned" /\ session'[s].kind = session[s].kind
        /\ session'[s].new = new /\ session'[s].known = prov
        /\ session'[s].loaded = session[s].loaded /\ session'[s].alone = session[s].alone
        /\ \A t \in Sessions \ {s} : session'[t] = session[t]
        /\ UNCHANGED <<value, prov, index>>
        /\ ~At(s, "idle")
    BY <1>5, <2>1 DEF Plan, CurationTypeOK, Locals, At
  <2>3. Alone(s) /\ session[s].kind \in {"enrich", "missing"} =>
          \A f \in Fields : new[f] # Keep => value[f] = Empty
    BY DecisionFillsEmpty
  <2>4. session[s].kind # "edit" => \A f \in Fields : new[f] # Keep => prov[f] # "user"
    BY DecisionRespectsUser
  <2> QED
    BY <1>1, <2>2, <2>3, <2>4 DEF At, Alone, Written
<1>6. ASSUME NEW s \in Sessions, Commit(s) \/ Abandon(s)
      PROVE  AloneInv'
  <2>1. Close(s) /\ ~At(s, "idle")
    BY <1>6 DEF Commit, Abandon, At
  <2>2. /\ session'[s].at = "idle"
        /\ \A t \in Sessions \ {s} : session'[t] = session[t] /\ ~Alone(t)
    BY <2>1, CloseLocal DEF Rest
  <2>3. \A t \in Sessions : ~Alone(t)'
    BY <2>2 DEF Alone, At
  <2> QED
    BY <1>1, <2>3
<1> QED
  BY <1>2, <1>3, <1>4, <1>5, <1>6 DEF CurationNext

\* The invariant of sessions alone holds, whatever overlaps elsewhere.
THEOREM AloneHolds == CurationSpec => []AloneInv
<1>1. CurationInit => AloneInv
  BY TypedInit DEF CurationInit, AloneInv, Alone, At, Rest
<1> QED
  BY <1>1, StepAlone, PTL DEF CurationSpec

\* A commit is the step of one session, which it closes.
LEMMA OneCommits ==
  ASSUME CurationTypeOK, NEW s \in Sessions, Commit(s)
  PROVE  \A kinds : Stepping(kinds) = {t \in {s} : session[t].kind \in kinds}
<1>1. session'[s] # session[s] /\ \A t \in Sessions \ {s} : session'[t] = session[t]
  BY CloseLocal DEF Commit, At, Rest
<1> QED
  BY <1>1 DEF Stepping

\* Whatever overlaps, an enrichment changes nothing that a user entered, and
\* a review changes none that no session overlaps.
THEOREM Yields == CurationSpec => AutomationYields
<1> DEFINE Yield ==
      (\A s \in Stepping({"missing", "fields"}) : session[s].alone) /\ Stepping({"edit"}) = {} =>
         \A f \in Fields : prov[f] = "user" => value'[f] = value[f] /\ prov'[f] = "user"
<1>1. IInv /\ AloneInv /\ [CurationNext]_curationVars => [Yield]_curationVars
  <2> SUFFICES ASSUME IInv, AloneInv, [CurationNext]_curationVars, Stepping({"edit"}) = {},
                      \A s \in Stepping({"missing", "fields"}) : session[s].alone,
                      NEW f \in Fields, prov[f] = "user"
               PROVE  value'[f] = value[f] /\ prov'[f] = "user"
    OBVIOUS
  <2>1. CASE UNCHANGED <<value, prov>>
    BY <2>1
  <2>2. ASSUME NEW s \in Sessions, Commit(s)
        PROVE  value'[f] = value[f] /\ prov'[f] = "user"
    <3>1. At(s, "planned") /\ session[s].kind \in {"enrich", "missing", "fields", "edit"}
      BY <2>2 DEF Commit, IInv, CurationTypeOK, Locals
    <3>2. session[s].kind # "edit"
      BY <2>2, OneCommits DEF IInv
    <3>3. session[s].kind \in {"missing", "fields"} => session[s].alone
      BY <2>2, OneCommits DEF IInv
    <3>4. f \notin Written(s)
      <4>1. CASE Enriching(s)
        BY <3>1, <4>1 DEF IInv, PlanRespectsUser
      <4>2. CASE session[s].alone
        BY <3>1, <3>2, <4>2 DEF AloneInv, Alone, At
      <4> QED
        BY <3>1, <3>2, <3>3, <4>1, <4>2 DEF Enriching
    <3> QED
      BY <2>2, <3>4 DEF Commit
  <2> QED
    BY <2>1, <2>2 DEF CurationNext, Load, StoreCandidates, Plan, Abandon, curationVars
<1> QED
  BY <1>1, InvariantHolds, AloneHolds, PTL DEF CurationSpec, AutomationYields

\* Of enrichments and edits in any number and order, none but an edit changes
\* what a user entered.
THEOREM UserEdits ==
  ASSUME Kinds \subseteq {"enrich", "edit"}
  PROVE  CurationSpec => UserEditsSurvive
<1> DEFINE Survives == Stepping({"edit"}) = {} =>
             \A f \in Fields : prov[f] = "user" => value'[f] = value[f] /\ prov'[f] = "user"
<1>1. IInv /\ [CurationNext]_curationVars => [Survives]_curationVars
  <2> SUFFICES ASSUME IInv, [CurationNext]_curationVars, Stepping({"edit"}) = {},
                      NEW f \in Fields, prov[f] = "user"
               PROVE  value'[f] = value[f] /\ prov'[f] = "user"
    OBVIOUS
  <2>1. CASE UNCHANGED <<value, prov>>
    BY <2>1
  <2>2. ASSUME NEW s \in Sessions, Commit(s)
        PROVE  value'[f] = value[f] /\ prov'[f] = "user"
    <3>1. Enriching(s) /\ At(s, "planned")
      <4>1. At(s, "planned") /\ session[s].kind \in Kinds
        BY <2>2 DEF IInv, KindsRun, Commit, At
      <4>2. session[s].kind # "edit"
        BY <2>2, OneCommits DEF IInv
      <4> QED
        BY <4>1, <4>2 DEF Enriching
    <3>2. f \notin Written(s)
      BY <3>1 DEF IInv, PlanRespectsUser
    <3> QED
      BY <2>2, <3>2 DEF Commit
  <2> QED
    BY <2>1, <2>2 DEF CurationNext, Load, StoreCandidates, Plan, Abandon, curationVars
<1> QED
  BY <1>1, InvariantHolds, PTL DEF CurationSpec, UserEditsSurvive

\* A session alone that writes leaves the search index as the catalog is.
THEOREM InSync == CurationSpec => IndexInSync
<1> DEFINE Syncs == \A s \in Sessions : Commit(s) /\ session[s].alone /\ Written(s) # {} =>
             index' = value'
<1>1. AloneInv => Syncs
  <2> SUFFICES ASSUME AloneInv, NEW s \in Sessions, Commit(s), session[s].alone, Written(s) # {}
               PROVE  index' = value'
    OBVIOUS
  <2>1. session[s].loaded = value
    BY DEF AloneInv, Alone, Commit, At
  <2>2. \A f \in Fields : (IF f \in Written(s) /\ session[s].new[f] # session[s].loaded[f]
                           THEN session[s].new[f] ELSE value[f])
                        = (IF f \in Written(s) THEN session[s].new[f]
                           ELSE session[s].loaded[f])
    BY <2>1
  <2> QED
    BY <2>2 DEF Commit, Reindexed
<1> QED
  BY <1>1, AloneHolds, PTL DEF IndexInSync

\* A session alone that fills what is missing changes no existing value.
THEOREM FillsEmpty == CurationSpec => MissingOnlyFillsEmpty
<1> DEFINE Fills == \A s \in Stepping({"enrich", "missing"}) : session[s].alone =>
             \A f \in Fields : value[f] # Empty => value'[f] = value[f]
<1>1. AloneInv /\ [CurationNext]_curationVars => [Fills]_curationVars
  <2> SUFFICES ASSUME AloneInv, [CurationNext]_curationVars, NEW f \in Fields, value[f] # Empty,
                      NEW t \in Stepping({"enrich", "missing"}), session[t].alone
               PROVE  value'[f] = value[f]
    OBVIOUS
  <2>1. CASE UNCHANGED value
    BY <2>1
  <2>2. ASSUME NEW s \in Sessions, Commit(s)
        PROVE  value'[f] = value[f]
    <3>1. t = s /\ session[s].kind \in {"enrich", "missing"}
      BY <2>2, OneCommits DEF AloneInv
    <3>2. f \notin Written(s)
      BY <2>2, <3>1 DEF AloneInv, Alone, Commit, At
    <3> QED
      BY <2>2, <3>2 DEF Commit
  <2> QED
    BY <2>1, <2>2 DEF CurationNext, Load, StoreCandidates, Plan, Abandon, curationVars
<1> QED
  BY <1>1, AloneHolds, PTL DEF CurationSpec, MissingOnlyFillsEmpty

\* A session alone that edits leaves each field it names as it asked, and
\* marked as the user's.
THEOREM EditEffect == CurationSpec => EditTakesEffect
<1> DEFINE Takes == \A s \in Stepping({"edit"}) : Commit(s) /\ session[s].alone =>
             \A f \in Written(s) : value'[f] = session[s].new[f] /\ prov'[f] = "user"
<1>1. AloneInv => Takes
  <2> SUFFICES ASSUME AloneInv, NEW s \in Stepping({"edit"}), Commit(s), session[s].alone,
                      NEW f \in Written(s)
               PROVE  value'[f] = session[s].new[f] /\ prov'[f] = "user"
    OBVIOUS
  <2>1. /\ s \in Sessions /\ session[s].kind = "edit" /\ f \in Fields
        /\ session[s].loaded = value /\ session[s].known = prov
    BY DEF Stepping, AloneInv, Alone, Commit, At, Written
  <2>2. value'[f] = session[s].new[f]
    BY <2>1 DEF Commit
  <2>3. prov'[f] = "user"
    BY <2>1 DEF Commit, MarkedAs, SourceOf
  <2> QED
    BY <2>2, <2>3
<1> QED
  BY <1>1, AloneHolds, PTL DEF EditTakesEffect
=============================================================================
