---------------------------- MODULE StageProposals ----------------------------
(* The proposals of a project's stages: versions that are generated, reviewed, *)
(* approved, rejected or made stale, the canonical rows an approval writes,    *)
(* and the generations that run outside any transaction.  Handlers are serial  *)
(* transactions; only the runtime call of a generation lies between two.       *)
EXTENDS Integers, Sequences, FiniteSets

CONSTANTS LastStage,      \* how far the project has got
          MaxVersions,    \* bound: stage -> its versions
          Generations,    \* requests that may be in the runtime at once
          ByHand,         \* stages whose proposals are posted by hand
          Calls,          \* <<stage, kind>>: the generations asked for
          Traced          \* whether what a version was made from is kept

Discover == 1
Define   == 2
Design   == 3
Tools    == 4
Memory   == 5

ASSUME StageAssumption ==
    /\ LastStage \in Discover .. Memory
    /\ MaxVersions \in [Discover .. LastStage -> Nat \ {0}]
    /\ ByHand \subseteq Discover .. LastStage
    /\ Calls \subseteq (Discover .. LastStage) \X {"proposal", "draft"}
    /\ Traced \in BOOLEAN

VARIABLES
    art,      \* stage -> its versions in order
    canon,    \* stage -> what its canonical row holds
    gen       \* generation -> what it read, while in the runtime
vars == <<art, canon, gen>>

Stages == Discover .. LastStage
(* The stages whose rows are sections of the one blueprint. *)
Sections == Stages \cap {Design, Tools, Memory}

Approved  == {"approved", "approved_legacy"}
Immutable == Approved \cup {"rejected", "stale", "needs_review_legacy"}
States    == Immutable \cup {"generated", "reviewed"}

(* A row holds nothing, a version, or a text no approval put there; a discovery *)
(* may lack the answers a backfill asks for.                                   *)
Nothing == 0
Draft   == -1
Partial == -2
Written(s) == {Draft} \cup (IF s = Discover THEN {Partial} ELSE {})

(* fresh is history: nothing the version was made from had changed when it was stored. *)
Version(state, fresh) == [state |-> state, superseded |-> 0, fresh |-> fresh]

VersionsOf(a, s)  == 1 .. Len(a[s])
ApprovedOf(a, s)  == {v \in VersionsOf(a, s) : a[s][v].state \in Approved}
HasApproved(a, s) == ApprovedOf(a, s) # {}
(* _latest_approved_record: the approved version with the highest number, if any. *)
InForce(a, s) == {v \in ApprovedOf(a, s) : \A w \in ApprovedOf(a, s) : w <= v}

Idle == [stage |-> 0, kind |-> "none", read |-> [s \in Stages |-> {}]]
--------------------------------------------------------------------------------
(* StageProposalService.  Each operator is the effect of a method on the      *)
(* versions; the stages after the one it touches are invalidated.             *)

(* Mutant: only the stage right after is invalidated. *)
InvalidateNext(a, s) == [p \in Stages |->
    IF p # s + 1 THEN a[p] ELSE [v \in VersionsOf(a, p) |-> [a[p][v] EXCEPT !.state = "stale"]]]

InvalidateDownstream(a, s) == [p \in Stages |->
    IF p <= s THEN a[p] ELSE [v \in VersionsOf(a, p) |-> [a[p][v] EXCEPT !.state = "stale"]]]

(* create: a first version invalidates nothing. *)
Created(a, s, fresh) ==
    LET stored == [a EXCEPT ![s] = Append(@, Version("generated", fresh))]
    IN  IF Len(a[s]) = 0 THEN stored ELSE InvalidateDownstream(stored, s)

(* _replace: the new version is reviewed, whatever the state of the old one. *)
Replaced(a, s, v) ==
    [a EXCEPT ![s] = Append([@ EXCEPT ![v].superseded = Len(a[s]) + 1],
                            Version("reviewed", a[s][v].fresh))]

(* patch: in place, unless the version may not be edited. *)
Patched(a, s, v) ==
    InvalidateDownstream(IF a[s][v].state \in Immutable THEN Replaced(a, s, v)
                         ELSE [a EXCEPT ![s][v].state = "reviewed"], s)

PatchFits(s, v) == art[s][v].state \in Immutable => Len(art[s]) < MaxVersions[s]

(* Mutant: the stage before is enough. *)
LastPredecessorApproved(a, s) == (s - 1) \in Stages => HasApproved(a, s - 1)

(* _ensure_required_predecessors_approved *)
PredecessorsApproved(a, s) == \A p \in Stages : p < s => HasApproved(a, p)

(* Mutant: a stale version may be approved. *)
MayApproveStale(a, s, v) ==
    /\ PredecessorsApproved(a, s)
    /\ v = Len(a[s])
    /\ a[s][v].state # "rejected"

MayApprove(a, s, v) ==
    /\ PredecessorsApproved(a, s)
    /\ v = Len(a[s])
    /\ a[s][v].state \notin {"stale", "rejected"}

(* Mutant: the versions before are left as they are. *)
PriorKept(versions, v) == versions

(* _mark_prior_versions_superseded *)
PriorSuperseded(versions, v) == [w \in DOMAIN versions |->
    IF w < v /\ versions[w].superseded = 0 /\ versions[w].state \in Approved
    THEN [versions[w] EXCEPT !.superseded = v] ELSE versions[w]]

ApprovedBy(a, s, v) ==
    InvalidateDownstream([a EXCEPT ![s] = PriorSuperseded([@ EXCEPT ![v].state = "approved"], v)], s)

(* _project_to_canonical: a first blueprint comes with empty memory sections. *)
Projected(rows, s, v) == [p \in Stages |->
    CASE p = s -> v
      [] p = Memory /\ s = Design /\ rows[p] = Nothing -> Draft
      [] OTHER -> rows[p]]

Rejected(a, s, v) == InvalidateDownstream([a EXCEPT ![s][v].state = "rejected"], s)
--------------------------------------------------------------------------------
(* JourneyStageMigrationService.backfill_session: a row without proposals      *)
(* becomes version 1, approved or to be reviewed by what the row says.  An     *)
(* incomplete discovery is left out; design and memory share the blueprint's   *)
(* readiness.                                                                  *)
Missing == {s \in Stages : art[s] = <<>> /\ canon[s] \notin {Nothing, Partial}}

(* Mutant: the readiness is stored as it is. *)
LegacyStatesRaw(s) == IF s \in {Discover, Define} THEN {"approved_legacy"}
                      ELSE {"complete", "partial"}

LegacyStates(s) == IF s \in {Discover, Define} THEN {"approved_legacy"}
                   ELSE {"approved_legacy", "needs_review_legacy"}

Backfills == {legacy \in [Missing -> UNION {LegacyStates(s) : s \in Stages}] :
                 /\ \A s \in Missing : legacy[s] \in LegacyStates(s)
                 /\ {Design, Memory} \subseteq Missing => legacy[Design] = legacy[Memory]}

Backfilled(legacy) == [s \in Stages |->
    IF s \in DOMAIN legacy THEN <<Version(legacy[s], TRUE)>> ELSE art[s]]
RowsAfter(legacy)  == [s \in Stages |-> IF s \in DOMAIN legacy THEN 1 ELSE canon[s]]
--------------------------------------------------------------------------------
(* A new project, or one whose rows are older than the proposals. *)
Init ==
    /\ art = [s \in Stages |-> <<>>]
    /\ \/ canon = [s \in Stages |-> Nothing]
       \/ \E row \in Written(Discover) :
              canon = [s \in Stages |-> IF s = Discover THEN row ELSE Draft]
    /\ gen = [t \in Generations |-> Idle]

(* The stage routes of sessions.py. *)
Create(s) ==
    /\ s \in ByHand
    /\ Len(art[s]) < MaxVersions[s]
    /\ art' = Created(art, s, TRUE)
    /\ UNCHANGED <<canon, gen>>

Patch(s, v) ==
    /\ PatchFits(s, v)
    /\ art' = Patched(art, s, v)
    /\ UNCHANGED <<canon, gen>>

Approve(s, v) ==
    /\ MayApprove(art, s, v)
    /\ art' = ApprovedBy(art, s, v)
    /\ canon' = Projected(canon, s, v)
    /\ UNCHANGED gen

Reject(s, v) ==
    /\ art' = Rejected(art, s, v)
    /\ UNCHANGED <<canon, gen>>

(* approve-memory-profile: backfill; an artifact that can be built again is    *)
(* refreshed by a patch; the latest version is approved, in one transaction.   *)
ApproveMemory ==
    /\ Memory \in Stages
    /\ \E legacy \in Backfills :
       LET a == Backfilled(legacy) latest == Len(a[Memory]) IN
       /\ HasApproved(a, Tools)
       /\ latest > 0 /\ a[Memory][latest].state \notin Approved
       /\ \E refreshed \in {a, Patched(a, Memory, latest)} :
          LET v == Len(refreshed[Memory]) IN
          /\ v <= MaxVersions[Memory]
          /\ MayApprove(refreshed, Memory, v)
          /\ art' = ApprovedBy(refreshed, Memory, v)
          /\ canon' = Projected(RowsAfter(legacy), Memory, v)
    /\ UNCHANGED gen

(* What a generation route requires to be approved, and the row it compares   *)
(* with the approved version.                                                 *)
Required(s) == CASE s = Discover -> {}
                 [] s = Define   -> {Discover}
                 [] s = Design   -> {Define}
                 [] s = Tools    -> {Define, Design}
                 [] s = Memory   -> {Discover, Define, Design, Tools}
Compared(s) == CASE s = Define -> {Discover} [] s = Design -> {Define} [] OTHER -> {}

(* Mutant: the row is loaded again before its columns are set, so the design of *)
(* the request, one version older, is written too.                              *)
RemediatedWhole(rows) == [s \in Stages |->
    CASE s \in {Tools, Memory} -> Draft
      [] s = Design /\ rows[s] \in Nat /\ rows[s] > 1 -> rows[s] - 1
      [] OTHER -> rows[s]]

(* _promote_memory_tool_remediation: the tools that memory needs are added to  *)
(* the approved ones.  The request sets every column of the blueprint to what  *)
(* it read before the call, but commit_without_expiring left the row loaded:   *)
(* the UPDATE has the columns that changed, and those of the design did not.   *)
(* The delivery package, which keeps the old design, is not modelled.          *)
Remediated(rows) == [s \in Stages |-> IF s \in {Tools, Memory} THEN Draft ELSE rows[s]]

(* define-requirements, propose-design, recommend-tools, recommend-memory and  *)
(* build-canvas, build-blueprint: backfill, check, and commit before the call. *)
StartGeneration(t, s, kind) ==
    /\ gen[t] = Idle
    /\ s # Discover /\ (kind = "draft" => s \in {Define, Design})
    /\ \E legacy \in Backfills :
       LET a == Backfilled(legacy) rows == RowsAfter(legacy) IN
       /\ \A p \in Required(s) : HasApproved(a, p)
       /\ \A p \in Compared(s) : rows[p] \in InForce(a, p)
       /\ art' = a
       /\ \/ canon' = rows
          \/ s = Memory /\ canon' = Remediated(rows)
       /\ gen' = [gen EXCEPT ![t] =
              [stage |-> s, kind |-> kind,
               read  |-> [p \in Stages |-> IF Traced /\ p \in Required(s)
                                          THEN InForce(a, p) ELSE {}]]]

(* analyze-discovery and normalize-discovery have nothing to check. *)
StartDiscovery(t, kind) ==
    /\ gen[t] = Idle
    /\ gen' = [gen EXCEPT ![t] = [Idle EXCEPT !.stage = Discover, !.kind = kind]]
    /\ UNCHANGED <<art, canon>>

Unchanged(t) == Traced => \A p \in Required(gen[t].stage) : InForce(art, p) = gen[t].read[p]

(* The answer is stored as it comes: nothing read before the call is read again. *)
StoreProposal(t) ==
    /\ gen[t].kind = "proposal"
    /\ Len(art[gen[t].stage]) < MaxVersions[gen[t].stage]
    /\ art' = Created(art, gen[t].stage, Unchanged(t))
    /\ gen' = [gen EXCEPT ![t] = Idle]
    /\ \/ UNCHANGED canon
       \/ gen[t].stage = Memory /\ canon' = Remediated(canon)

StoreDraft(t) ==
    /\ gen[t].kind = "draft"
    /\ \E row \in Written(gen[t].stage) : canon' = [s \in Stages |->
           IF s = gen[t].stage \/ (gen[t].stage = Design /\ s \in Sections) THEN row ELSE canon[s]]
    /\ gen' = [gen EXCEPT ![t] = Idle]
    /\ UNCHANGED art

(* The runtime fails, or the process stops. *)
LoseGeneration(t) ==
    /\ gen[t] # Idle
    /\ gen' = [gen EXCEPT ![t] = Idle]
    /\ UNCHANGED <<art, canon>>

(* PATCH blueprint and enrich-blueprint rewrite the blueprint, whatever its stages say. *)
EditBlueprint ==
    /\ Sections # {} /\ canon[Design] # Nothing
    /\ canon[Discover] # Nothing /\ canon[Define] # Nothing
    /\ canon' = [s \in Stages |-> IF s \in Sections THEN Draft ELSE canon[s]]
    /\ UNCHANGED <<art, gen>>

Handler(s) ==
    \/ Create(s)
    \/ \E v \in VersionsOf(art, s) : Patch(s, v) \/ Approve(s, v) \/ Reject(s, v)

Generation(t) ==
    \/ \E call \in Calls : StartGeneration(t, call[1], call[2])
    \/ \E call \in Calls : call[1] = Discover /\ StartDiscovery(t, call[2])
    \/ StoreProposal(t)
    \/ StoreDraft(t)
    \/ LoseGeneration(t)

Next ==
    \/ \E s \in Stages : Handler(s)
    \/ ApproveMemory
    \/ EditBlueprint
    \/ \E t \in Generations : Generation(t)

Spec == Init /\ [][Next]_vars
--------------------------------------------------------------------------------
(* The versions, rows and generations have their types. *)
StageTypeOK ==
    /\ art \in [Stages -> Seq([state : States, superseded : Nat, fresh : BOOLEAN])]
    /\ \A s \in Stages : Len(art[s]) <= MaxVersions[s]
    /\ canon \in [Stages -> Nat \cup {Draft, Partial}]
    /\ gen \in [Generations -> [stage : 0 .. LastStage, kind : {"none", "proposal", "draft"},
                                read : [Stages -> SUBSET Nat]]]

(* A stage approved by a person rests on stages that are approved now: whatever *)
(* takes back an earlier stage has made it stale (_invalidate_downstream).      *)
ApprovedOnApproved ==
    \A s \in Stages : \A v \in VersionsOf(art, s) :
        art[s][v].state = "approved" => \A p \in Stages : p < s => HasApproved(art, p)

(* Of the approved versions of a stage at most one is not superseded            *)
(* (_mark_prior_versions_superseded, _replace).                                 *)
OneUnsuperseded ==
    \A s \in Stages : \A v, w \in ApprovedOf(art, s) :
        art[s][v].superseded = 0 /\ art[s][w].superseded = 0 => v = w

(* While the latest version of a stage is approved, the stage's canonical row   *)
(* (for the last three, its columns of the blueprint) holds it or a text a      *)
(* route wrote over it later, never another version: also when an answer that   *)
(* was asked for before the approval is stored after it.                        *)
RowHolds(s) == \A v \in VersionsOf(art, s) :
    v = Len(art[s]) /\ art[s][v].state = "approved" => canon[s] \in {v} \cup Written(s)
RowFollowsApproval == \A s \in Stages : RowHolds(s)

(* A version that was rejected or became stale is never approved, reviewed or   *)
(* generated again: what replaces it is a new version.                          *)
NoRevival == [][\A s \in Stages : \A v \in VersionsOf(art, s) :
    art[s][v].state \in {"rejected", "stale"} => art'[s][v].state \in {"rejected", "stale"}]_vars

(* Every step is one the journey of the stages allows: a stage is approved only *)
(* when all before it stand, and touching a stage reopens those after it.       *)
Standing(s) == IF \E v \in VersionsOf(art, s) : art[s][v].state = "approved" THEN "accepted"
               ELSE IF HasApproved(art, s) THEN "adopted" ELSE "open"
Journey == INSTANCE StageJourney WITH standing <- [s \in Stages |-> Standing(s)]
ImplementsJourney == Journey!Spec

(* A proposal that is not stale was made from what is approved.  TLC refutes it: *)
(* a stage approved again while a later one is being generated.                  *)
MadeFromApproved ==
    \A s \in Stages : \A v \in VersionsOf(art, s) : art[s][v].state # "stale" => art[s][v].fresh
================================================================================
