------------------------- MODULE StageProposalsProofs -------------------------
(* Proofs about StageProposals for any number of versions, generations and     *)
(* calls, whichever stages a project has reached.                              *)
EXTENDS StageProposals, SequenceTheorems, TLAPS

Ver  == [state : States, superseded : Nat, fresh : BOOLEAN]
Arts == [Stages -> Seq(Ver)]

(* The versions y a step leaves of x: none is lost, and a dead one stays dead. *)
Dead == {"rejected", "stale"}
Grown(x, y) ==
    /\ Len(x) <= Len(y)
    /\ \A v \in 1 .. Len(x) : x[v].state \in Dead => y[v].state \in Dead

(* What is approved in y was so in x, and superseded if it was.                *)
Withdrawn(x, y) ==
    \A v \in 1 .. Len(y) : y[v].state \in Approved =>
        /\ v \in 1 .. Len(x)
        /\ x[v].state = y[v].state
        /\ y[v].superseded = 0 => x[v].superseded = 0

(* A method that approves nothing touched stage s.                             *)
Reopened(b, s) == \A p \in Stages : p > s =>
    \A v \in VersionsOf(b, p) : b[p][v].state = "stale"
Touched(a, b, s) ==
    /\ b \in Arts
    /\ \A p \in Stages : Grown(a[p], b[p]) /\ Withdrawn(a[p], b[p])
    /\ \A p \in Stages : p < s => b[p] = a[p]
    /\ \A p \in Stages : p # s => Len(b[p]) = Len(a[p])
    /\ \/ Reopened(b, s)
       \/ /\ \A p \in Stages : p # s => b[p] = a[p]
          /\ ApprovedOf(a, s) = {}

(* An approval of version v of stage s, the latest one.                        *)
Approves(a, b, s, v) ==
    /\ b \in Arts
    /\ \A p \in Stages : Grown(a[p], b[p]) /\ Len(b[p]) = Len(a[p])
    /\ \A p \in Stages : p < s => b[p] = a[p]
    /\ Reopened(b, s)
    /\ v = Len(b[s]) /\ v \in VersionsOf(b, s) /\ b[s][v].state = "approved"
    /\ \A w \in ApprovedOf(b, s) : b[s][w].superseded = 0 => w = v

(* Versions were backfilled, or nothing happened to a stage.                   *)
AdoptedAt(a, b, p) ==
    \/ b[p] = a[p]
    \/ /\ ApprovedOf(a, p) = {}
       /\ \A v \in VersionsOf(b, p) : b[p][v].state # "approved"

(* A stage was accepted on stages that stand.                                  *)
AcceptedAt(a, b, s) ==
    /\ \A p \in Stages : p < s => AdoptedAt(a, b, p) /\ HasApproved(b, p)
    /\ \E v \in VersionsOf(b, s) : b[s][v].state = "approved"
    /\ Reopened(b, s)

(* All a step may do to the versions.                                          *)
Effect(a, b) ==
    /\ \A s \in Stages : Grown(a[s], b[s])
    /\ \/ \A s \in Stages : AdoptedAt(a, b, s)
       \/ \E s \in Stages : Touched(a, b, s) \/ AcceptedAt(a, b, s)

(* The state invariants, of any versions and rows.                             *)
OnApproved(a) == \A s \in Stages : \A v \in VersionsOf(a, s) :
    a[s][v].state = "approved" => \A p \in Stages : p < s => HasApproved(a, p)
OneOpen(a) == \A s \in Stages : \A v, w \in ApprovedOf(a, s) :
    a[s][v].superseded = 0 /\ a[s][w].superseded = 0 => v = w
Follows(a, rows) == \A s \in Stages : \A v \in VersionsOf(a, s) :
    v = Len(a[s]) /\ a[s][v].state = "approved" => rows[s] \in {v} \cup Written(s)
Bounded(a) == \A s \in Stages : Len(a[s]) <= MaxVersions[s]
RowsOK(rows) == /\ rows \in [Stages -> Nat \cup {Draft, Partial}]
                /\ \A s \in Stages : rows[s] = Partial => s = Discover
Sound(a, rows) == a \in Arts /\ OnApproved(a) /\ OneOpen(a) /\ Follows(a, rows)

(* What a generation keeps; one that is under way is of a stage.               *)
Read   == [stage : 0 .. LastStage, kind : {"none", "proposal", "draft"},
           read : [Stages -> SUBSET Nat]]
GenInv == /\ gen \in [Generations -> Read]
          /\ \A t \in Generations : gen[t].kind # "none" => gen[t].stage \in Stages

IInv == Sound(art, canon) /\ Bounded(art) /\ RowsOK(canon) /\ GenInv

-------------------------------------------------------------------------------
(* A function on 1 .. n is a sequence of length n.                             *)
LEMMA FunctionIsSeq ==
    ASSUME NEW S, NEW n \in Nat, NEW f \in [1 .. n -> S]
    PROVE  f \in Seq(S) /\ Len(f) = n
<1>1. f \in Seq(S)
  BY SeqDef
<1>2. DOMAIN f = 1 .. Len(f) /\ Len(f) \in Nat
  BY <1>1, LenProperties
<1>3. 1 .. Len(f) = 1 .. n
  BY <1>2
<1> QED BY <1>1, <1>2, <1>3

(* _invalidate_downstream: the later stages keep their versions, all stale.    *)
LEMMA InvalidateEffect ==
    ASSUME NEW a \in Arts, NEW s \in Stages
    PROVE  /\ InvalidateDownstream(a, s) \in Arts
           /\ \A p \in Stages : p <= s => InvalidateDownstream(a, s)[p] = a[p]
           /\ \A p \in Stages : p > s =>
                 /\ Len(InvalidateDownstream(a, s)[p]) = Len(a[p])
                 /\ \A v \in 1 .. Len(a[p]) :
                       /\ InvalidateDownstream(a, s)[p][v].state = "stale"
                       /\ InvalidateDownstream(a, s)[p][v].superseded = a[p][v].superseded
<1> DEFINE b == InvalidateDownstream(a, s)
           new(p) == [v \in VersionsOf(a, p) |-> [a[p][v] EXCEPT !.state = "stale"]]
<1>0. s \in Int /\ \A p \in Stages : p \in Int
  BY DEF Stages, Discover
<1>1. ASSUME NEW p \in Stages
      PROVE  /\ new(p) \in Seq(Ver) /\ Len(new(p)) = Len(a[p])
             /\ \A v \in 1 .. Len(a[p]) : /\ new(p)[v].state = "stale"
                                          /\ new(p)[v].superseded = a[p][v].superseded
  <2>1. a[p] \in Seq(Ver) /\ Len(a[p]) \in Nat
    BY DEF Arts
  <2>2. \A v \in 1 .. Len(a[p]) : a[p][v] \in Ver
    BY <2>1
  <2>3. \A v \in 1 .. Len(a[p]) : /\ [a[p][v] EXCEPT !.state = "stale"] \in Ver
                                  /\ [a[p][v] EXCEPT !.state = "stale"].state = "stale"
                                  /\ [a[p][v] EXCEPT !.state = "stale"].superseded = a[p][v].superseded
    BY <2>2 DEF Ver, States, Immutable
  <2>4. new(p) \in [1 .. Len(a[p]) -> Ver]
    BY <2>3 DEF VersionsOf
  <2>5. new(p) \in Seq(Ver) /\ Len(new(p)) = Len(a[p])
    BY <2>1, <2>4, FunctionIsSeq
  <2> QED BY <2>3, <2>5 DEF VersionsOf
<1>2. \A p \in Stages : b[p] = IF p <= s THEN a[p] ELSE new(p)
  BY DEF InvalidateDownstream
<1>3. b \in Arts
  <2>1. \A p \in Stages : (IF p <= s THEN a[p] ELSE new(p)) \in Seq(Ver)
    BY <1>1 DEF Arts
  <2>2. b = [p \in Stages |-> IF p <= s THEN a[p] ELSE new(p)]
    BY DEF InvalidateDownstream
  <2> QED BY <2>1, <2>2 DEF Arts
<1>4. \A p \in Stages : p <= s => b[p] = a[p]
  BY <1>2
<1>5. \A p \in Stages : p > s => b[p] = new(p)
  BY <1>0, <1>2
<1> HIDE DEF new, b
<1> QED BY <1>1, <1>3, <1>4, <1>5 DEF b

(* If one stage has been changed and the later ones are invalidated, the whole *)
(* is a touch of that stage.                                                   *)
LEMMA InvalidateTouches ==
    ASSUME NEW a \in Arts, NEW b \in Arts, NEW s \in Stages,
           \A p \in Stages : p # s => b[p] = a[p],
           Grown(a[s], b[s]), Withdrawn(a[s], b[s])
    PROVE  /\ Touched(a, InvalidateDownstream(b, s), s)
           /\ InvalidateDownstream(b, s)[s] = b[s]
<1> DEFINE i == InvalidateDownstream(b, s)
<1>0. s \in Int /\ \A p \in Stages : p \in Int
  BY DEF Stages, Discover
<1>1. /\ i \in Arts
      /\ \A p \in Stages : p <= s => i[p] = b[p]
      /\ \A p \in Stages : p > s =>
            /\ Len(i[p]) = Len(b[p])
            /\ \A v \in 1 .. Len(b[p]) : i[p][v].state = "stale"
  BY InvalidateEffect
<1> HIDE DEF i
<1>2. ASSUME NEW p \in Stages
      PROVE  Grown(a[p], i[p]) /\ Withdrawn(a[p], i[p])
  <2>0. Len(a[p]) \in Nat
    BY DEF Arts
  <2>1. CASE p = s
    BY <1>0, <1>1, <2>1
  <2>2. CASE p < s
    <3>1. i[p] = a[p]
      BY <1>0, <1>1, <2>2
    <3> QED BY <2>0, <3>1 DEF Grown, Withdrawn
  <2>3. CASE p > s
    <3>0. b[p] = a[p]
      BY <1>0, <2>3
    <3>1. Len(i[p]) = Len(a[p]) /\ \A v \in 1 .. Len(a[p]) : i[p][v].state = "stale"
      BY <1>1, <2>3, <3>0
    <3>2. \A v \in 1 .. Len(a[p]) : i[p][v].state \in Dead /\ i[p][v].state \notin Approved
      BY <3>1 DEF Dead, Approved
    <3>3. Grown(a[p], i[p])
      BY <2>0, <3>1, <3>2 DEF Grown
    <3> QED BY <3>1, <3>2, <3>3 DEF Withdrawn
  <2>4. p \in Int /\ s \in Int
    BY <1>0
  <2> QED BY <2>1, <2>2, <2>3, <2>4
<1>3. Reopened(i, s)
  BY <1>1 DEF Reopened, VersionsOf
<1>4. \A p \in Stages : p < s => i[p] = a[p]
  BY <1>0, <1>1
<1>5. \A p \in Stages : p # s => Len(i[p]) = Len(a[p])
  <2> SUFFICES ASSUME NEW p \in Stages, p # s PROVE Len(i[p]) = Len(b[p])
    OBVIOUS
  <2> QED BY <1>0, <1>1
<1>6. Touched(a, i, s)
  BY <1>1, <1>2, <1>3, <1>4, <1>5 DEF Touched
<1> QED BY <1>0, <1>1, <1>6 DEF i

-------------------------------------------------------------------------------
(* create adds a version that is not approved.                                 *)
LEMMA CreatedTouches ==
    ASSUME NEW a \in Arts, NEW s \in Stages, NEW fresh \in BOOLEAN
    PROVE  /\ Touched(a, Created(a, s, fresh), s)
           /\ Len(Created(a, s, fresh)[s]) = Len(a[s]) + 1
<1> DEFINE e == Version("generated", fresh)
           y == Append(a[s], e)
           b == [a EXCEPT ![s] = Append(@, e)]
<1>1. e \in Ver /\ e.state = "generated"
  BY DEF Version, Ver, States
<1>2. a[s] \in Seq(Ver) /\ Len(a[s]) \in Nat
  BY DEF Arts
<1>3. /\ y \in Seq(Ver) /\ Len(y) = Len(a[s]) + 1
      /\ \A v \in 1 .. Len(a[s]) : y[v] = a[s][v]
      /\ y[Len(a[s]) + 1] = e
  BY <1>1, <1>2, AppendProperties
<1>4. b \in Arts /\ b[s] = y /\ \A p \in Stages : p # s => b[p] = a[p]
  BY <1>3 DEF Arts
<1> HIDE DEF b, e, y
<1>5. Grown(a[s], b[s])
  BY <1>2, <1>3, <1>4 DEF Grown
<1>6. Withdrawn(a[s], b[s])
  <2> SUFFICES ASSUME NEW v \in 1 .. Len(y), y[v].state \in Approved
               PROVE  v \in 1 .. Len(a[s]) /\ y[v] = a[s][v]
    BY <1>4 DEF Withdrawn
  <2>1. v # Len(a[s]) + 1
    BY <1>1, <1>3 DEF Approved
  <2> QED BY <1>2, <1>3, <2>1
<1>7. CASE Len(a[s]) = 0
  <2>1. Created(a, s, fresh) = b
    BY <1>7 DEF Created, b, e
  <2>2. ApprovedOf(a, s) = {}
    BY <1>7 DEF ApprovedOf, VersionsOf
  <2>3. \A p \in Stages : Grown(a[p], b[p]) /\ Withdrawn(a[p], b[p])
    <3>1. \A p \in Stages : Len(a[p]) \in Nat
      BY DEF Arts
    <3>2. ASSUME NEW p \in Stages, p # s PROVE Grown(a[p], b[p]) /\ Withdrawn(a[p], b[p])
      <4>1. b[p] = a[p] /\ Len(a[p]) \in Nat
        BY <1>4, <3>1, <3>2
      <4> QED BY <4>1 DEF Grown, Withdrawn
    <3> QED BY <1>5, <1>6, <3>2
  <2>4. \A p \in Stages : p < s => b[p] = a[p]
    BY <1>4 DEF Stages, Discover
  <2> QED BY <1>3, <1>4, <2>1, <2>2, <2>3, <2>4 DEF Touched
<1>8. CASE Len(a[s]) # 0
  <2>1. Created(a, s, fresh) = InvalidateDownstream(b, s)
    BY <1>8 DEF Created, b, e
  <2> QED BY <1>3, <1>4, <1>5, <1>6, <2>1, InvalidateTouches
<1> QED BY <1>7, <1>8

(* patch and _replace: what was approved is reviewed or superseded.            *)
LEMMA PatchedTouches ==
    ASSUME NEW a \in Arts, NEW s \in Stages, NEW v \in VersionsOf(a, s)
    PROVE  /\ Touched(a, Patched(a, s, v), s)
           /\ Len(Patched(a, s, v)[s]) = IF a[s][v].state \in Immutable
                                         THEN Len(a[s]) + 1 ELSE Len(a[s])
<1> DEFINE x == a[s]
<1>1. x \in Seq(Ver) /\ Len(x) \in Nat /\ v \in 1 .. Len(x) /\ x[v] \in Ver
  BY DEF Arts, VersionsOf
<1>2. CASE x[v].state \in Immutable
  <2> DEFINE o == [x[v] EXCEPT !.superseded = Len(x) + 1]
             m == [x EXCEPT ![v] = o]
             e == Version("reviewed", x[v].fresh)
             y == Append(m, e)
             b == [a EXCEPT ![s] = y]
  <2>1. o \in Ver /\ o.state = x[v].state /\ o.superseded # 0
    <3>1. \A n \in Nat : [x[v] EXCEPT !.superseded = n] \in Ver
             /\ [x[v] EXCEPT !.superseded = n].state = x[v].state
             /\ [x[v] EXCEPT !.superseded = n].superseded = n
      BY <1>1 DEF Ver
    <3>2. Len(x) + 1 \in Nat /\ Len(x) + 1 # 0
      BY <1>1
    <3> QED BY <3>1, <3>2
  <2>2. e \in Ver /\ e.state = "reviewed"
    BY <1>1 DEF Version, Ver, States
  <2>3. /\ m \in Seq(Ver) /\ Len(m) = Len(x)
        /\ \A w \in 1 .. Len(x) : m[w] = IF w = v THEN o ELSE x[w]
    BY <1>1, <2>1, ExceptSeq
  <2>4. /\ y \in Seq(Ver) /\ Len(y) = Len(x) + 1
        /\ \A w \in 1 .. Len(x) : y[w] = m[w]
        /\ y[Len(x) + 1] = e
    BY <2>2, <2>3, AppendProperties
  <2>5. b \in Arts /\ b[s] = y /\ \A p \in Stages : p # s => b[p] = a[p]
    BY <2>4 DEF Arts
  <2>6. Patched(a, s, v) = InvalidateDownstream(b, s)
    BY <1>2 DEF Patched, Replaced
  <2> HIDE DEF b, e, y, m, o
  <2>7. Grown(a[s], b[s])
    BY <1>1, <2>1, <2>3, <2>4, <2>5 DEF Grown
  <2>8. Withdrawn(a[s], b[s])
    <3> SUFFICES ASSUME NEW w \in 1 .. Len(y), y[w].state \in Approved
                 PROVE  /\ w \in 1 .. Len(x) /\ x[w].state = y[w].state
                        /\ y[w].superseded = 0 => x[w].superseded = 0
      BY <2>5 DEF Withdrawn
    <3>1. w # Len(x) + 1
      BY <2>2, <2>4 DEF Approved
    <3>2. w \in 1 .. Len(x)
      BY <1>1, <2>4, <3>1
    <3> QED BY <2>1, <2>3, <2>4, <3>2
  <2> QED BY <1>2, <2>4, <2>5, <2>6, <2>7, <2>8, InvalidateTouches
<1>3. CASE x[v].state \notin Immutable
  <2> DEFINE o == [x[v] EXCEPT !.state = "reviewed"]
             y == [x EXCEPT ![v] = o]
             b == [a EXCEPT ![s] = y]
  <2>1. o \in Ver /\ o.state = "reviewed"
    BY <1>1 DEF Ver, States
  <2>2. /\ y \in Seq(Ver) /\ Len(y) = Len(x)
        /\ \A w \in 1 .. Len(x) : y[w] = IF w = v THEN o ELSE x[w]
    BY <1>1, <2>1, ExceptSeq
  <2>3. b \in Arts /\ b[s] = y /\ \A p \in Stages : p # s => b[p] = a[p]
    BY <2>2 DEF Arts
  <2>4. Patched(a, s, v) = InvalidateDownstream(b, s)
    BY <1>3 DEF Patched
  <2> HIDE DEF b, y, o
  <2>5. Grown(a[s], b[s])
    BY <1>1, <1>3, <2>2, <2>3 DEF Grown, Dead, Immutable
  <2>6. Withdrawn(a[s], b[s])
    BY <2>1, <2>2, <2>3 DEF Withdrawn, Approved
  <2> QED BY <1>3, <2>2, <2>3, <2>4, <2>5, <2>6, InvalidateTouches
<1> QED BY <1>2, <1>3

(* reject: the version is dead.                                                *)
LEMMA RejectedTouches ==
    ASSUME NEW a \in Arts, NEW s \in Stages, NEW v \in VersionsOf(a, s)
    PROVE  /\ Touched(a, Rejected(a, s, v), s)
           /\ Len(Rejected(a, s, v)[s]) = Len(a[s])
<1> DEFINE x == a[s]
           o == [x[v] EXCEPT !.state = "rejected"]
           y == [x EXCEPT ![v] = o]
           b == [a EXCEPT ![s] = y]
<1>1. x \in Seq(Ver) /\ Len(x) \in Nat /\ v \in 1 .. Len(x) /\ x[v] \in Ver
  BY DEF Arts, VersionsOf
<1>2. o \in Ver /\ o.state = "rejected"
  BY <1>1 DEF Ver, States, Immutable
<1>3. /\ y \in Seq(Ver) /\ Len(y) = Len(x)
      /\ \A w \in 1 .. Len(x) : y[w] = IF w = v THEN o ELSE x[w]
  BY <1>1, <1>2, ExceptSeq
<1>4. b \in Arts /\ b[s] = y /\ \A p \in Stages : p # s => b[p] = a[p]
  BY <1>3 DEF Arts
<1>5. Rejected(a, s, v) = InvalidateDownstream(b, s)
  BY DEF Rejected
<1> HIDE DEF b, y, o
<1>6. Grown(a[s], b[s])
  BY <1>1, <1>2, <1>3, <1>4 DEF Grown, Dead
<1>7. Withdrawn(a[s], b[s])
  BY <1>2, <1>3, <1>4 DEF Withdrawn, Approved
<1> QED BY <1>3, <1>4, <1>5, <1>6, <1>7, InvalidateTouches

(* approve: the prior approved versions are superseded, and only they.         *)
LEMMA ApprovedApproves ==
    ASSUME NEW a \in Arts, NEW s \in Stages, NEW v \in VersionsOf(a, s), MayApprove(a, s, v)
    PROVE  Approves(a, ApprovedBy(a, s, v), s, v)
<1> DEFINE x == a[s]
           o == [x[v] EXCEPT !.state = "approved"]
           m == [x EXCEPT ![v] = o]
           mark(w) == IF w < v /\ m[w].superseded = 0 /\ m[w].state \in Approved
                      THEN [m[w] EXCEPT !.superseded = v] ELSE m[w]
           y == [w \in DOMAIN m |-> mark(w)]
           b == [a EXCEPT ![s] = y]
           i == InvalidateDownstream(b, s)
<1>0. s \in Int /\ \A p \in Stages : p \in Int
  BY DEF Stages, Discover
<1>1. /\ x \in Seq(Ver) /\ Len(x) \in Nat /\ v \in 1 .. Len(x) /\ x[v] \in Ver
      /\ v = Len(x) /\ x[v].state \notin Dead
  BY DEF Arts, VersionsOf, MayApprove, Dead
<1>2. o \in Ver /\ o.state = "approved" /\ o.superseded = x[v].superseded
  BY <1>1 DEF Ver, States, Immutable, Approved
<1>3. /\ m \in Seq(Ver) /\ Len(m) = Len(x)
      /\ \A w \in 1 .. Len(x) : m[w] = IF w = v THEN o ELSE x[w]
  BY <1>1, <1>2, ExceptSeq
<1>4. DOMAIN m = 1 .. Len(x)
  BY <1>3, LenProperties
<1>5. ApprovedBy(a, s, v) = i
  BY DEF ApprovedBy, PriorSuperseded
<1> HIDE DEF m, o
<1>6. \A w \in 1 .. Len(x) : mark(w) \in Ver /\ mark(w).state = m[w].state
  <2> SUFFICES ASSUME NEW w \in 1 .. Len(x)
               PROVE  mark(w) \in Ver /\ mark(w).state = m[w].state
    OBVIOUS
  <2>1. m[w] \in Ver /\ v \in Nat
    BY <1>1, <1>3
  <2>2. /\ [m[w] EXCEPT !.superseded = v] \in Ver
        /\ [m[w] EXCEPT !.superseded = v].state = m[w].state
    BY <2>1 DEF Ver
  <2> QED BY <2>1, <2>2
<1>7. \A w \in 1 .. Len(x) :
          w < v /\ mark(w).state \in Approved => mark(w).superseded # 0
  <2> SUFFICES ASSUME NEW w \in 1 .. Len(x), w < v, mark(w).state \in Approved
               PROVE  mark(w).superseded # 0
    OBVIOUS
  <2>1. m[w] \in Ver /\ v # 0 /\ m[w].state \in Approved
    BY <1>1, <1>3, <1>6
  <2>2. [m[w] EXCEPT !.superseded = v].superseded = v
    BY <2>1 DEF Ver
  <2> QED BY <2>1, <2>2
<1>8. y \in [1 .. Len(x) -> Ver] /\ \A w \in 1 .. Len(x) : y[w] = mark(w)
  BY <1>4, <1>6
<1> HIDE DEF y, mark
<1>9. y \in Seq(Ver) /\ Len(y) = Len(x)
  BY <1>1, <1>8, FunctionIsSeq
<1>10. b \in Arts /\ b[s] = y /\ \A p \in Stages : p # s => b[p] = a[p]
  BY <1>9 DEF Arts
<1>11. /\ i \in Arts
       /\ \A p \in Stages : p <= s => i[p] = b[p]
       /\ \A p \in Stages : p > s =>
             /\ Len(i[p]) = Len(b[p])
             /\ \A w \in 1 .. Len(b[p]) : i[p][w].state = "stale"
  <2>1. b \in Arts
    BY <1>10
  <2> HIDE DEF b
  <2> QED BY <2>1, InvalidateEffect
<1> HIDE DEF b, i
<1>12. i[s] = y
  BY <1>0, <1>10, <1>11
<1>13. Grown(x, y)
  BY <1>1, <1>3, <1>6, <1>8, <1>9 DEF Grown
<1>14. \A p \in Stages : Grown(a[p], i[p]) /\ Len(i[p]) = Len(a[p])
  <2> SUFFICES ASSUME NEW p \in Stages PROVE Grown(a[p], i[p]) /\ Len(i[p]) = Len(a[p])
    OBVIOUS
  <2>0. Len(a[p]) \in Nat
    BY DEF Arts
  <2>1. CASE p = s
    BY <1>9, <1>12, <1>13, <2>1
  <2>2. CASE p < s
    <3>1. i[p] = a[p]
      BY <1>0, <1>10, <1>11, <2>2
    <3> QED BY <2>0, <3>1 DEF Grown
  <2>3. CASE p > s
    <3>1. b[p] = a[p]
      BY <1>0, <1>10, <2>3
    <3>2. Len(i[p]) = Len(a[p]) /\ \A w \in 1 .. Len(a[p]) : i[p][w].state = "stale"
      BY <1>11, <2>3, <3>1
    <3> QED BY <2>0, <3>2 DEF Grown, Dead
  <2>4. p \in Int /\ s \in Int
    BY <1>0
  <2> QED BY <2>1, <2>2, <2>3, <2>4
<1>15. \A p \in Stages : p < s => i[p] = a[p]
  BY <1>0, <1>10, <1>11
<1>16. Reopened(i, s)
  BY <1>11 DEF Reopened, VersionsOf
<1>17. v = Len(y) /\ v \in 1 .. Len(y) /\ y[v].state = "approved"
  BY <1>1, <1>2, <1>3, <1>6, <1>8, <1>9
<1>18. \A w \in 1 .. Len(y) : y[w].state \in Approved /\ y[w].superseded = 0 => w = v
  BY <1>1, <1>7, <1>8, <1>9
<1>19. Approves(a, i, s, v)
  BY <1>11, <1>12, <1>14, <1>15, <1>16, <1>17, <1>18
     DEF Approves, VersionsOf, ApprovedOf
<1> QED BY <1>5, <1>19

-------------------------------------------------------------------------------
(* A method that approves nothing keeps the approved stages on approved ones,  *)
(* and the rows that follow them.                                              *)
LEMMA TouchedKeeps ==
    ASSUME NEW a, NEW b, NEW s \in Stages, NEW rows, Sound(a, rows), Touched(a, b, s)
    PROVE  Sound(b, rows)
<1>0. s \in Int /\ \A p \in Stages : p \in Int /\ Len(a[p]) \in Nat /\ Len(b[p]) \in Nat
  BY DEF Stages, Discover, Sound, Touched, Arts
<1>1. \A q \in Stages : \A v \in ApprovedOf(b, q) :
          /\ v \in ApprovedOf(a, q) /\ a[q][v].state = b[q][v].state
          /\ b[q][v].superseded = 0 => a[q][v].superseded = 0
  BY <1>0 DEF Touched, Withdrawn, ApprovedOf, VersionsOf
<1>2. OnApproved(b)
  <2> SUFFICES ASSUME NEW q \in Stages, NEW v \in VersionsOf(b, q), b[q][v].state = "approved",
                      NEW p \in Stages, p < q
               PROVE  HasApproved(b, p)
    BY DEF OnApproved
  <2>1. v \in ApprovedOf(a, q) /\ a[q][v].state = "approved"
    BY <1>1 DEF ApprovedOf, Approved
  <2>2. HasApproved(a, p)
    BY <2>1 DEF Sound, OnApproved, ApprovedOf
  <2>3. CASE p < s
    BY <2>2, <2>3 DEF Touched, HasApproved, ApprovedOf, VersionsOf
  <2>4. CASE p >= s
    <3>1. ~Reopened(b, s)
      BY <1>0, <2>4 DEF Reopened
    <3>2. \A r \in Stages : r # s => b[r] = a[r]
      BY <3>1 DEF Touched
    <3>3. p # s
      BY <2>2, <3>1 DEF Touched, HasApproved
    <3> QED BY <2>2, <3>2, <3>3 DEF HasApproved, ApprovedOf, VersionsOf
  <2> QED BY <1>0, <2>3, <2>4
<1>3. OneOpen(b)
  BY <1>1 DEF Sound, OneOpen
<1>4. Follows(b, rows)
  <2> SUFFICES ASSUME NEW q \in Stages, NEW v \in VersionsOf(b, q),
                      v = Len(b[q]), b[q][v].state = "approved"
               PROVE  rows[q] \in {v} \cup Written(q)
    BY DEF Follows
  <2>1. v \in ApprovedOf(a, q) /\ a[q][v].state = "approved"
    BY <1>1 DEF ApprovedOf, Approved
  <2>2. Len(a[q]) <= Len(b[q])
    BY DEF Touched, Grown
  <2>3. v = Len(a[q])
    BY <1>0, <2>1, <2>2 DEF ApprovedOf, VersionsOf
  <2> QED BY <2>1, <2>3 DEF Sound, Follows, ApprovedOf
<1> QED BY <1>2, <1>3, <1>4 DEF Sound, Touched

(* An approval does too, when the row it writes is its own.                    *)
LEMMA ApprovalKeeps ==
    ASSUME NEW a, NEW b, NEW s \in Stages, NEW v, NEW rows, NEW after,
           Sound(a, rows), PredecessorsApproved(a, s), Approves(a, b, s, v),
           after[s] = v, \A p \in Stages : p < s => after[p] \in {rows[p]} \cup Written(p)
    PROVE  Sound(b, after)
<1>0. s \in Int /\ \A p \in Stages : p \in Int /\ Len(a[p]) \in Nat /\ Len(b[p]) \in Nat
  BY DEF Stages, Discover, Sound, Approves, Arts
<1>1. \A p \in Stages : p < s => HasApproved(b, p)
  BY DEF PredecessorsApproved, Approves, HasApproved, ApprovedOf, VersionsOf
<1>2. \A q \in Stages : q > s => ApprovedOf(b, q) = {}
  BY DEF Approves, Reopened, ApprovedOf, Approved
<1>3. \A q \in Stages : q < s => b[q] = a[q]
  BY DEF Approves
<1>4. OnApproved(b)
  <2> SUFFICES ASSUME NEW q \in Stages, NEW w \in VersionsOf(b, q), b[q][w].state = "approved",
                      NEW p \in Stages, p < q
               PROVE  HasApproved(b, p)
    BY DEF OnApproved
  <2>1. q <= s
    BY <1>0, <1>2 DEF ApprovedOf, Approved
  <2>2. p \in Int /\ q \in Int /\ s \in Int
    BY <1>0
  <2>3. p < s
    BY <2>1, <2>2
  <2> QED BY <1>1, <2>3
<1>5. OneOpen(b)
  <2> SUFFICES ASSUME NEW q \in Stages, NEW u \in ApprovedOf(b, q), NEW w \in ApprovedOf(b, q),
                      b[q][u].superseded = 0, b[q][w].superseded = 0
               PROVE  u = w
    BY DEF OneOpen
  <2>1. CASE q = s
    BY <2>1 DEF Approves
  <2>2. CASE q < s
    BY <1>3, <2>2 DEF Sound, OneOpen, ApprovedOf, VersionsOf
  <2> QED BY <1>0, <1>2, <2>1, <2>2
<1>6. Follows(b, after)
  <2> SUFFICES ASSUME NEW q \in Stages, NEW w \in VersionsOf(b, q),
                      w = Len(b[q]), b[q][w].state = "approved"
               PROVE  after[q] \in {w} \cup Written(q)
    BY DEF Follows
  <2>1. CASE q = s
    BY <2>1 DEF Approves
  <2>2. CASE q < s
    BY <1>0, <1>3, <2>2 DEF Sound, Follows, VersionsOf
  <2>3. ~(q > s)
    BY <1>2 DEF ApprovedOf, Approved
  <2>4. q = s \/ q < s
    BY <1>0, <2>3
  <2> QED BY <2>1, <2>2, <2>4
<1> QED BY <1>4, <1>5, <1>6 DEF Sound, Approves

(* backfill_session: where there were no versions, one that nobody approved.   *)
LEMMA BackfillKeeps ==
    ASSUME NEW legacy \in Backfills, Sound(art, canon),
           Bounded(art)
    PROVE  /\ Sound(Backfilled(legacy), RowsAfter(legacy))
           /\ Bounded(Backfilled(legacy))
           /\ \A s \in Stages : HasApproved(art, s) => HasApproved(Backfilled(legacy), s)
           /\ \A s \in Stages : Grown(art[s], Backfilled(legacy)[s])
           /\ \A s \in Stages : AdoptedAt(art, Backfilled(legacy), s)
<1> DEFINE a == Backfilled(legacy)
           one(s) == <<Version(legacy[s], TRUE)>>
<1>1. DOMAIN legacy = Missing
  BY DEF Backfills
<1>2. ASSUME NEW s \in Missing
      PROVE  /\ Version(legacy[s], TRUE) \in Ver
             /\ Version(legacy[s], TRUE).state # "approved"
  <2>1. legacy[s] \in {"approved_legacy", "needs_review_legacy"}
    BY DEF Backfills, LegacyStates
  <2> QED BY <2>1 DEF Version, Ver, States, Immutable, Approved
<1> HIDE DEF Version
<1>3. ASSUME NEW s \in Missing
      PROVE  /\ one(s) \in Seq(Ver) /\ Len(one(s)) = 1
             /\ one(s)[1].state # "approved"
  <2> DEFINE e == Version(legacy[s], TRUE)
  <2>1. e \in Ver /\ e.state # "approved"
    BY <1>2
  <2> HIDE DEF e
  <2>2. <<e>> \in Seq(Ver) /\ Len(<<e>>) = 1 /\ <<e>>[1] = e
    BY <2>1
  <2> QED BY <2>1, <2>2 DEF e
<1>4. \A s \in Stages : a[s] = IF s \in Missing THEN one(s) ELSE art[s]
  BY <1>1 DEF Backfilled
<1>5. a \in Arts
  <2>1. \A s \in Stages : (IF s \in Missing THEN one(s) ELSE art[s]) \in Seq(Ver)
    BY <1>3 DEF Sound, Arts
  <2>2. a = [s \in Stages |-> IF s \in Missing THEN one(s) ELSE art[s]]
    BY <1>1 DEF Backfilled
  <2> QED BY <2>1, <2>2 DEF Arts
<1>6. \A s \in Missing : art[s] = <<>> /\ s \in Stages
  BY DEF Missing
<1> HIDE DEF a, one
<1>7. \A s \in Missing : VersionsOf(a, s) = {1} /\ a[s][1].state # "approved"
  <2> SUFFICES ASSUME NEW s \in Missing
               PROVE  VersionsOf(a, s) = {1} /\ a[s][1].state # "approved"
    OBVIOUS
  <2>1. a[s] = one(s) /\ Len(a[s]) = 1
    BY <1>3, <1>4, <1>6
  <2>2. 1 .. 1 = {1}
    OBVIOUS
  <2> QED BY <1>3, <2>1, <2>2 DEF VersionsOf
<1>8. \A s \in Stages \ Missing : a[s] = art[s]
  BY <1>4
<1>9. \A s \in Stages : HasApproved(art, s) => HasApproved(a, s)
  <2> SUFFICES ASSUME NEW s \in Stages, HasApproved(art, s) PROVE HasApproved(a, s)
    OBVIOUS
  <2>1. s \notin Missing
    BY <1>6 DEF HasApproved, ApprovedOf, VersionsOf
  <2> QED BY <1>8, <2>1 DEF HasApproved, ApprovedOf, VersionsOf
<1>10. Bounded(a)
  <2> SUFFICES ASSUME NEW s \in Stages PROVE Len(a[s]) <= MaxVersions[s]
    BY DEF Bounded
  <2>1. MaxVersions[s] \in Nat \ {0}
    BY StageAssumption DEF Stages
  <2>2. CASE s \in Missing
    <3>1. Len(a[s]) = 1
      BY <1>3, <1>4, <2>2
    <3> QED BY <2>1, <3>1
  <2>3. CASE s \notin Missing
    BY <1>8, <2>3 DEF Bounded
  <2> QED BY <2>2, <2>3
<1>11. OnApproved(a)
  <2> SUFFICES ASSUME NEW s \in Stages, NEW v \in VersionsOf(a, s), a[s][v].state = "approved",
                      NEW p \in Stages, p < s
               PROVE  HasApproved(a, p)
    BY DEF OnApproved
  <2>1. s \notin Missing
    BY <1>7
  <2> QED BY <1>8, <1>9, <2>1 DEF Sound, OnApproved, VersionsOf
<1>12. OneOpen(a)
  <2> SUFFICES ASSUME NEW s \in Stages, NEW v \in ApprovedOf(a, s), NEW w \in ApprovedOf(a, s),
                      a[s][v].superseded = 0, a[s][w].superseded = 0
               PROVE  v = w
    BY DEF OneOpen
  <2>1. CASE s \in Missing
    BY <1>7, <2>1 DEF ApprovedOf
  <2>2. CASE s \notin Missing
    BY <1>8, <2>2 DEF Sound, OneOpen, ApprovedOf, VersionsOf
  <2> QED BY <2>1, <2>2
<1>13. Follows(a, RowsAfter(legacy))
  <2> SUFFICES ASSUME NEW s \in Stages, NEW v \in VersionsOf(a, s),
                      v = Len(a[s]), a[s][v].state = "approved"
               PROVE  RowsAfter(legacy)[s] \in {v} \cup Written(s)
    BY DEF Follows
  <2>1. s \notin Missing
    BY <1>7
  <2>2. RowsAfter(legacy)[s] = canon[s]
    BY <1>1, <2>1 DEF RowsAfter
  <2> QED BY <1>8, <2>1, <2>2 DEF Sound, Follows, VersionsOf
<1>14. \A s \in Stages : Grown(art[s], a[s])
  <2> SUFFICES ASSUME NEW s \in Stages PROVE Grown(art[s], a[s])
    OBVIOUS
  <2>1. Len(art[s]) \in Nat /\ (s \in Missing => Len(art[s]) = 0 /\ Len(a[s]) = 1)
    BY <1>3, <1>4, <1>6 DEF Sound, Arts
  <2> QED BY <1>8, <2>1 DEF Grown
<1>15. \A s \in Stages : AdoptedAt(art, a, s)
  <2> SUFFICES ASSUME NEW s \in Stages, s \in Missing PROVE AdoptedAt(art, a, s)
    BY <1>8 DEF AdoptedAt
  <2>1. ApprovedOf(art, s) = {}
    BY <1>6 DEF ApprovedOf, VersionsOf
  <2> QED BY <1>7, <2>1 DEF AdoptedAt
<1> QED BY <1>5, <1>9, <1>10, <1>11, <1>12, <1>13, <1>14, <1>15 DEF Sound, a

-------------------------------------------------------------------------------
(* The rows the routes write.                                                  *)
LEMMA RowsWritten ==
    ASSUME NEW rows, RowsOK(rows)
    PROVE  /\ \A legacy \in Backfills : RowsOK(canon) => RowsOK(RowsAfter(legacy))
           /\ \A s \in Stages, v \in Nat : RowsOK(Projected(rows, s, v))
           /\ RowsOK(Remediated(rows))
           /\ \A s \in Stages : \A row \in Written(s) : \A q \in SUBSET Sections :
                 RowsOK([p \in Stages |-> IF p = s \/ (s = Design /\ p \in q) THEN row ELSE rows[p]])
           /\ RowsOK([p \in Stages |-> IF p \in Sections THEN Draft ELSE rows[p]])
<1> USE DEF RowsOK, Draft, Partial
<1>1. \A legacy \in Backfills : RowsOK(canon) => RowsOK(RowsAfter(legacy))
  BY DEF RowsAfter
<1>2. \A s \in Stages, v \in Nat : RowsOK(Projected(rows, s, v))
  BY DEF Projected
<1>3. RowsOK(Remediated(rows))
  BY DEF Remediated, Tools, Memory, Discover
<1>4. \A s \in Stages : \A row \in Written(s) : \A q \in SUBSET Sections :
         RowsOK([p \in Stages |-> IF p = s \/ (s = Design /\ p \in q) THEN row ELSE rows[p]])
  BY DEF Written, Design, Discover
<1>5. RowsOK([p \in Stages |-> IF p \in Sections THEN Draft ELSE rows[p]])
  OBVIOUS
<1> QED BY <1>1, <1>2, <1>3, <1>4, <1>5

(* Only an approval puts a version into a row; what else is written is a text. *)
LEMMA RowsOfSections ==
    ASSUME NEW rows
    PROVE  /\ \A p \in Stages : Remediated(rows)[p] \in {rows[p]} \cup Written(p)
           /\ \A s \in Stages : \A v :
                 /\ Projected(rows, s, v)[s] = v
                 /\ \A p \in Stages : p # s =>
                       Projected(rows, s, v)[p] \in {rows[p]} \cup Written(p)
<1>1. \A p \in Stages : Draft \in Written(p)
  BY DEF Written
<1>2. \A p \in Stages : Remediated(rows)[p] \in {rows[p]} \cup Written(p)
  BY <1>1 DEF Remediated
<1>3. \A s \in Stages : \A v : Projected(rows, s, v)[s] = v
  BY DEF Projected, Memory, Design, Discover
<1>4. \A s \in Stages : \A v : \A p \in Stages : p # s =>
         Projected(rows, s, v)[p] \in {rows[p]} \cup Written(p)
  BY <1>1 DEF Projected
<1> QED BY <1>2, <1>3, <1>4

(* Other rows do no harm if they are texts no approval put there.              *)
LEMMA OtherRows ==
    ASSUME NEW a, NEW rows, NEW after, Sound(a, rows),
           \A p \in Stages : after[p] \in {rows[p]} \cup Written(p)
    PROVE  Sound(a, after)
<1>1. Follows(a, after)
  BY DEF Sound, Follows
<1> QED BY <1>1 DEF Sound

(* The bound on the versions, after a method that touched one stage.           *)
LEMMA TouchedBounded ==
    ASSUME NEW a, NEW b, NEW s \in Stages, Bounded(a), Touched(a, b, s), Len(b[s]) <= MaxVersions[s]
    PROVE  Bounded(b)
BY DEF Bounded, Touched

-------------------------------------------------------------------------------
(* What every action does to versions and rows.                                *)
Kept == Sound(art', canon') /\ Bounded(art') /\ RowsOK(canon') /\ Effect(art, art')

(* Nothing happens to the versions.                                            *)
LEMMA Same == IInv /\ art' = art => Effect(art, art')
<1> SUFFICES ASSUME IInv, art' = art PROVE Effect(art, art')
  OBVIOUS
<1>1. \A s \in Stages : Len(art[s]) \in Nat
  BY DEF IInv, Sound, Arts
<1>2. \A s \in Stages : Grown(art[s], art'[s])
  BY <1>1 DEF Grown
<1> QED BY <1>2 DEF Effect, AdoptedAt

(* A touch of one stage that leaves the rows as they are.                      *)
LEMMA TouchedStep ==
    ASSUME IInv, NEW s \in Stages, Touched(art, art', s), Len(art'[s]) <= MaxVersions[s],
           RowsOK(canon'), \A p \in Stages : canon'[p] \in {canon[p]} \cup Written(p)
    PROVE  Kept
<1>1. Sound(art', canon)
  BY TouchedKeeps DEF IInv
<1>2. Sound(art', canon')
  BY <1>1, OtherRows
<1>3. Bounded(art')
  BY TouchedBounded DEF IInv
<1>4. Effect(art, art')
  BY DEF Effect, Touched
<1> QED BY <1>2, <1>3, <1>4 DEF Kept

(* A proposal posted by hand.                                                  *)
LEMMA CreateStep ==
    ASSUME IInv, NEW s \in Stages, Create(s)
    PROVE  Kept
<1>1. art \in Arts /\ Len(art[s]) \in Nat /\ Len(art[s]) < MaxVersions[s]
  BY DEF IInv, Sound, Arts, Create
<1>2. Touched(art, art', s) /\ Len(art'[s]) = Len(art[s]) + 1
  BY <1>1, CreatedTouches DEF Create
<1>3. MaxVersions[s] \in Nat
  BY StageAssumption DEF Stages
<1>4. Len(art'[s]) <= MaxVersions[s]
  BY <1>1, <1>2, <1>3
<1> QED BY <1>2, <1>4, TouchedStep DEF Create, IInv

(* An edit, in place or as a new version.                                      *)
LEMMA PatchStep ==
    ASSUME IInv, NEW s \in Stages, NEW v \in VersionsOf(art, s), Patch(s, v)
    PROVE  Kept
<1>1. art \in Arts /\ Len(art[s]) \in Nat /\ Len(art[s]) <= MaxVersions[s]
  BY DEF IInv, Sound, Arts, Bounded
<1>2. /\ Touched(art, art', s)
      /\ Len(art'[s]) = IF art[s][v].state \in Immutable THEN Len(art[s]) + 1 ELSE Len(art[s])
  BY <1>1, PatchedTouches DEF Patch
<1>3. MaxVersions[s] \in Nat
  BY StageAssumption DEF Stages
<1>4. Len(art'[s]) <= MaxVersions[s]
  BY <1>1, <1>2, <1>3 DEF Patch, PatchFits
<1> QED BY <1>2, <1>4, TouchedStep DEF Patch, IInv

(* A rejection.                                                                *)
LEMMA RejectStep ==
    ASSUME IInv, NEW s \in Stages, NEW v \in VersionsOf(art, s), Reject(s, v)
    PROVE  Kept
<1>1. art \in Arts /\ Len(art[s]) <= MaxVersions[s]
  BY DEF IInv, Sound, Bounded
<1>2. Touched(art, art', s) /\ Len(art'[s]) = Len(art[s])
  BY <1>1, RejectedTouches DEF Reject
<1> QED BY <1>1, <1>2, TouchedStep DEF Reject, IInv

(* An approval, on stages that are approved, with its row.                     *)
LEMMA ApproveStep ==
    ASSUME IInv, NEW s \in Stages, NEW v \in VersionsOf(art, s), Approve(s, v)
    PROVE  Kept
<1>1. art \in Arts /\ v \in Nat
  BY DEF IInv, Sound, Arts, VersionsOf
<1>2. Approves(art, art', s, v) /\ PredecessorsApproved(art, s)
  BY <1>1, ApprovedApproves DEF Approve, MayApprove
<1>3. canon' = Projected(canon, s, v)
  BY DEF Approve
<1>4. Sound(art', canon')
  <2>1. \A p \in Stages : p < s => p # s
    BY DEF Stages, Discover
  <2>2. canon'[s] = v /\ \A p \in Stages : p < s => canon'[p] \in {canon[p]} \cup Written(p)
    BY <1>3, <2>1, RowsOfSections
  <2> QED BY <1>2, <2>2, ApprovalKeeps DEF IInv
<1>5. Bounded(art')
  BY <1>2 DEF IInv, Bounded, Approves
<1>6. RowsOK(canon')
  BY <1>1, <1>3, RowsWritten DEF IInv
<1>7. AcceptedAt(art, art', s)
  BY <1>2 DEF Approves, PredecessorsApproved, AcceptedAt, AdoptedAt, HasApproved,
     ApprovedOf, VersionsOf
<1>8. Effect(art, art')
  BY <1>2, <1>7 DEF Effect, Approves
<1> QED BY <1>4, <1>5, <1>6, <1>8 DEF Kept

(* What grew twice grew.                                                       *)
LEMMA GrownOn ==
    ASSUME NEW x, NEW y, NEW z, NEW u, Grown(x, y), Grown(y, z), Grown(z, u),
           Len(x) \in Nat, Len(y) \in Nat, Len(z) \in Nat, Len(u) \in Nat
    PROVE  Grown(x, u)
<1>1. Len(x) <= Len(u)
  BY DEF Grown
<1>2. ASSUME NEW v \in 1 .. Len(x), x[v].state \in Dead PROVE u[v].state \in Dead
  <2>1. v \in 1 .. Len(y) /\ y[v].state \in Dead
    BY <1>2 DEF Grown
  <2>2. v \in 1 .. Len(z) /\ z[v].state \in Dead
    BY <2>1 DEF Grown
  <2> QED BY <2>2 DEF Grown
<1> QED BY <1>1, <1>2 DEF Grown

(* approve-memory-profile: backfill, refresh and approval in one step.         *)
LEMMA ApproveMemoryStep ==
    ASSUME IInv, ApproveMemory
    PROVE  Kept
<1>0. Memory \in Stages /\ MaxVersions[Memory] \in Nat
  BY StageAssumption DEF ApproveMemory, Stages
<1> DEFINE a(legacy) == Backfilled(legacy)
<1>1. PICK legacy \in Backfills :
        /\ Len(a(legacy)[Memory]) > 0
        /\ \E refreshed \in {a(legacy), Patched(a(legacy), Memory, Len(a(legacy)[Memory]))} :
              /\ Len(refreshed[Memory]) <= MaxVersions[Memory]
              /\ MayApprove(refreshed, Memory, Len(refreshed[Memory]))
              /\ art' = ApprovedBy(refreshed, Memory, Len(refreshed[Memory]))
              /\ canon' = Projected(RowsAfter(legacy), Memory, Len(refreshed[Memory]))
  BY DEF ApproveMemory
<1> DEFINE b == Backfilled(legacy)
           rows == RowsAfter(legacy)
<1>2. /\ Sound(b, rows) /\ Bounded(b) /\ RowsOK(rows)
      /\ \A s \in Stages : Grown(art[s], b[s]) /\ AdoptedAt(art, b, s)
  BY BackfillKeeps, RowsWritten DEF IInv
<1>3. b \in Arts /\ Len(b[Memory]) \in Nat /\ Len(b[Memory]) \in VersionsOf(b, Memory)
  BY <1>0, <1>1, <1>2 DEF Sound, Arts, VersionsOf
<1> HIDE DEF b, rows
<1>4. PICK refreshed \in {b, Patched(b, Memory, Len(b[Memory]))} :
        /\ Len(refreshed[Memory]) <= MaxVersions[Memory]
        /\ MayApprove(refreshed, Memory, Len(refreshed[Memory]))
        /\ art' = ApprovedBy(refreshed, Memory, Len(refreshed[Memory]))
        /\ canon' = Projected(rows, Memory, Len(refreshed[Memory]))
  BY <1>1 DEF b, rows
<1> DEFINE v == Len(refreshed[Memory])
<1>5. /\ Sound(refreshed, rows) /\ Bounded(refreshed) /\ v > 0
      /\ \A s \in Stages : Grown(b[s], refreshed[s])
      /\ \A s \in Stages : s < Memory => refreshed[s] = b[s]
  <2>1. CASE refreshed = b
    <3>1. \A s \in Stages : Len(b[s]) \in Nat
      BY <1>3 DEF Arts
    <3> QED BY <1>1, <1>2, <2>1, <3>1 DEF Grown, b
  <2>2. CASE refreshed = Patched(b, Memory, Len(b[Memory]))
    <3>1. /\ Touched(b, refreshed, Memory)
          /\ Len(refreshed[Memory]) \in {Len(b[Memory]), Len(b[Memory]) + 1}
      BY <1>0, <1>3, <2>2, PatchedTouches
    <3>2. Sound(refreshed, rows)
      BY <1>0, <1>2, <3>1, TouchedKeeps
    <3>3. Bounded(refreshed)
      BY <1>0, <1>2, <1>4, <3>1, TouchedBounded
    <3>4. v > 0
      BY <1>3, <3>1 DEF VersionsOf
    <3> QED BY <3>1, <3>2, <3>3, <3>4 DEF Touched
  <2> QED BY <1>4, <2>1, <2>2
<1>6. refreshed \in Arts /\ v \in Nat /\ v \in VersionsOf(refreshed, Memory)
  BY <1>0, <1>5 DEF Sound, Arts, VersionsOf
<1>7. Approves(refreshed, art', Memory, v) /\ PredecessorsApproved(refreshed, Memory)
  BY <1>0, <1>4, <1>6, ApprovedApproves DEF MayApprove
<1> HIDE DEF v
<1>8. canon' = Projected(rows, Memory, v)
  BY <1>4 DEF v
<1>9. Sound(art', canon')
  <2>1. \A p \in Stages : p < Memory => p # Memory
    BY DEF Stages, Memory, Discover
  <2>2. /\ canon'[Memory] = v
        /\ \A p \in Stages : p < Memory => canon'[p] \in {rows[p]} \cup Written(p)
    BY <1>0, <1>8, <2>1, RowsOfSections
  <2> QED BY <1>0, <1>5, <1>7, <2>2, ApprovalKeeps
<1>10. Bounded(art')
  BY <1>5, <1>7 DEF Bounded, Approves
<1>11. RowsOK(canon')
  BY <1>0, <1>2, <1>6, <1>8, RowsWritten
<1>12. \A s \in Stages : Grown(art[s], art'[s])
  <2> SUFFICES ASSUME NEW s \in Stages PROVE Grown(art[s], art'[s])
    OBVIOUS
  <2>1. Grown(art[s], b[s]) /\ Grown(b[s], refreshed[s]) /\ Grown(refreshed[s], art'[s])
    BY <1>2, <1>5, <1>7 DEF Approves
  <2>2. /\ Len(art[s]) \in Nat /\ Len(b[s]) \in Nat /\ Len(refreshed[s]) \in Nat
        /\ Len(art'[s]) \in Nat
    <3>1. art \in Arts /\ b \in Arts /\ refreshed \in Arts /\ art' \in Arts
      BY <1>3, <1>6, <1>7 DEF IInv, Sound, Approves
    <3> QED BY <3>1 DEF Arts
  <2> QED BY <2>1, <2>2, GrownOn
<1>13. AcceptedAt(art, art', Memory)
  <2>1. \A p \in Stages : p < Memory => /\ art'[p] = refreshed[p] /\ refreshed[p] = b[p]
                                        /\ HasApproved(refreshed, p)
    BY <1>5, <1>7 DEF Approves, PredecessorsApproved
  <2>2. \A p \in Stages : p < Memory => AdoptedAt(art, art', p) /\ HasApproved(art', p)
    BY <1>2, <2>1 DEF AdoptedAt, HasApproved, ApprovedOf, VersionsOf
  <2> QED BY <1>7, <2>2 DEF AcceptedAt, Approves
<1> QED BY <1>0, <1>9, <1>10, <1>11, <1>12, <1>13 DEF Kept, Effect

(* A generation starts: backfill, and the tools that memory needs.             *)
LEMMA StartStep ==
    ASSUME IInv, NEW t \in Generations, NEW call \in Calls, StartGeneration(t, call[1], call[2])
    PROVE  Kept /\ GenInv'
<1> DEFINE s == call[1]
           kind == call[2]
<1>1. s \in Stages /\ kind \in {"proposal", "draft"}
  BY StageAssumption DEF Stages
<1>2. PICK legacy \in Backfills :
        /\ art' = Backfilled(legacy)
        /\ \/ canon' = RowsAfter(legacy)
           \/ s = Memory /\ canon' = Remediated(RowsAfter(legacy))
        /\ gen' = [gen EXCEPT ![t] =
               [stage |-> s, kind |-> kind,
                read  |-> [p \in Stages |-> IF Traced /\ p \in Required(s)
                                           THEN InForce(art', p) ELSE {}]]]
  BY DEF StartGeneration
<1> DEFINE rows == RowsAfter(legacy)
<1>3. /\ Sound(art', rows) /\ Bounded(art') /\ RowsOK(rows)
      /\ \A p \in Stages : Grown(art[p], art'[p]) /\ AdoptedAt(art, art', p)
  BY <1>2, BackfillKeeps, RowsWritten DEF IInv
<1> HIDE DEF rows, s, kind
<1>5. RowsOK(canon')
  BY <1>2, <1>3, RowsWritten DEF rows
<1>6. Sound(art', canon')
  <2>1. \A p \in Stages : canon'[p] \in {rows[p]} \cup Written(p)
    BY <1>2, RowsOfSections DEF rows
  <2> QED BY <1>3, <2>1, OtherRows
<1>7. Kept
  BY <1>3, <1>5, <1>6 DEF Kept, Effect
<1>8. GenInv'
  <2> DEFINE r == [stage |-> s, kind |-> kind,
                   read  |-> [p \in Stages |-> IF Traced /\ p \in Required(s)
                                              THEN InForce(art', p) ELSE {}]]
  <2>1. \A p \in Stages : InForce(art', p) \subseteq Nat
    BY DEF InForce, ApprovedOf, VersionsOf
  <2>2. s \in 0 .. LastStage
    BY <1>1, StageAssumption DEF Stages, Discover
  <2>3. r \in Read /\ r.stage \in Stages
    BY <1>1, <2>1, <2>2 DEF Read
  <2>4. gen' = [gen EXCEPT ![t] = r]
    BY <1>2 DEF rows
  <2> HIDE DEF r
  <2> QED BY <2>3, <2>4 DEF IInv, GenInv
<1> QED BY <1>7, <1>8

(* Idle is a state a generation may be in.                                     *)
LEMMA IdleType == Idle \in Read /\ Idle.kind = "none"
BY StageAssumption DEF Idle, Read, Nothing, Discover, Memory

(* A generation of the first stage starts.                                     *)
LEMMA StartDiscoveryStep ==
    ASSUME IInv, NEW t \in Generations, NEW call \in Calls, call[1] = Discover,
           StartDiscovery(t, call[2])
    PROVE  Kept /\ GenInv'
<1>1. Discover \in Stages /\ call[2] \in {"proposal", "draft"} /\ Discover \in 0 .. LastStage
  BY StageAssumption DEF Stages, Discover, Memory
<1> DEFINE r == [Idle EXCEPT !.stage = Discover, !.kind = call[2]]
<1>2. r \in Read /\ r.stage \in Stages
  BY <1>1, IdleType DEF Read
<1>3. gen' = [gen EXCEPT ![t] = r]
  BY DEF StartDiscovery
<1> HIDE DEF r
<1>4. GenInv'
  BY <1>2, <1>3 DEF IInv, GenInv
<1>5. art' = art /\ canon' = canon
  BY DEF StartDiscovery
<1>6. Effect(art, art')
  BY <1>5, Same
<1> QED BY <1>4, <1>5, <1>6 DEF IInv, Kept

(* An answer is stored as a new version, whatever happened meanwhile.          *)
LEMMA StoreProposalStep ==
    ASSUME IInv, NEW t \in Generations, StoreProposal(t)
    PROVE  Kept /\ GenInv'
<1> DEFINE s == gen[t].stage
<1>1. s \in Stages /\ gen[t] \in Read
  BY DEF IInv, GenInv, StoreProposal
<1>2. art \in Arts /\ Len(art[s]) \in Nat /\ Len(art[s]) < MaxVersions[s]
  BY <1>1 DEF IInv, Sound, Arts, StoreProposal
<1>3. Unchanged(t) \in BOOLEAN
  BY DEF Unchanged
<1>4. Touched(art, art', s) /\ Len(art'[s]) = Len(art[s]) + 1
  BY <1>1, <1>2, <1>3, CreatedTouches DEF StoreProposal
<1>5. Len(art'[s]) <= MaxVersions[s]
  <2>1. MaxVersions[s] \in Nat
    BY <1>1, StageAssumption DEF Stages
  <2> QED BY <1>2, <1>4, <2>1
<1>6. canon' = canon \/ canon' = Remediated(canon)
  BY DEF StoreProposal
<1>7. RowsOK(canon')
  BY <1>6, RowsWritten DEF IInv
<1>8. \A p \in Stages : canon'[p] \in {canon[p]} \cup Written(p)
  BY <1>6, RowsOfSections
<1>9. Kept
  BY <1>1, <1>4, <1>5, <1>7, <1>8, TouchedStep
<1>10. GenInv'
  BY IdleType DEF IInv, GenInv, StoreProposal
<1> QED BY <1>9, <1>10

(* An answer is stored as a row.                                               *)
LEMMA StoreDraftStep ==
    ASSUME IInv, NEW t \in Generations, StoreDraft(t)
    PROVE  Kept /\ GenInv'
<1> DEFINE s == gen[t].stage
<1>1. s \in Stages
  BY DEF IInv, GenInv, StoreDraft
<1>2. PICK row \in Written(s) : canon' =
        [p \in Stages |-> IF p = s \/ (s = Design /\ p \in Sections) THEN row ELSE canon[p]]
  BY DEF StoreDraft
<1> HIDE DEF s
<1>3. art' = art /\ gen' = [gen EXCEPT ![t] = Idle]
  BY DEF StoreDraft
<1>4. RowsOK(canon')
  <2>1. RowsOK(canon) /\ row \in Written(s) /\ Sections \in SUBSET Sections
    BY DEF IInv
  <2>2. \A q \in SUBSET Sections :
           RowsOK([p \in Stages |-> IF p = s \/ (s = Design /\ p \in q) THEN row ELSE canon[p]])
    BY <1>1, <2>1, RowsWritten
  <2>3. RowsOK([p \in Stages |->
           IF p = s \/ (s = Design /\ p \in Sections) THEN row ELSE canon[p]])
    BY <2>1, <2>2
  <2> QED BY <1>2, <2>3
<1>5. \A p \in Stages : canon'[p] \in {canon[p]} \cup Written(p)
  <2>1. \A p \in Sections : s = Design => row \in Written(p)
    BY DEF Written, Design, Discover
  <2> QED BY <1>2, <2>1
<1>6. Sound(art', canon')
  BY <1>3, <1>5, OtherRows DEF IInv
<1>7. Effect(art, art')
  BY <1>3, Same
<1>8. GenInv'
  BY <1>3, IdleType DEF IInv, GenInv
<1> QED BY <1>3, <1>4, <1>6, <1>7, <1>8 DEF IInv, Kept

(* A generation is lost.                                                       *)
LEMMA LoseStep ==
    ASSUME IInv, NEW t \in Generations, LoseGeneration(t)
    PROVE  Kept /\ GenInv'
<1>1. art' = art /\ canon' = canon /\ gen' = [gen EXCEPT ![t] = Idle]
  BY DEF LoseGeneration
<1>2. Effect(art, art')
  BY <1>1, Same
<1>3. GenInv'
  BY <1>1, IdleType DEF IInv, GenInv
<1> QED BY <1>1, <1>2, <1>3 DEF IInv, Kept

(* The blueprint is rewritten.                                                 *)
LEMMA EditStep ==
    ASSUME IInv, EditBlueprint
    PROVE  Kept
<1>1. art' = art /\ canon' = [s \in Stages |-> IF s \in Sections THEN Draft ELSE canon[s]]
  BY DEF EditBlueprint
<1>2. RowsOK(canon')
  BY <1>1, RowsWritten DEF IInv
<1>3. \A p \in Stages : canon'[p] \in {canon[p]} \cup Written(p)
  BY <1>1 DEF Written
<1>4. Sound(art', canon')
  BY <1>1, <1>3, OtherRows DEF IInv
<1>5. Effect(art, art')
  BY <1>1, Same
<1> QED BY <1>1, <1>2, <1>4, <1>5 DEF IInv, Kept

-------------------------------------------------------------------------------
(* A project that starts, new or older than the proposals, has no versions.    *)
LEMMA InitIInv == Init => IInv
<1> SUFFICES ASSUME Init PROVE IInv
  OBVIOUS
<1>1. \A s \in Stages : art[s] = <<>> /\ VersionsOf(art, s) = {} /\ Len(art[s]) = 0
  BY DEF Init, VersionsOf
<1>2. art \in Arts
  BY DEF Init, Arts
<1>3. Sound(art, canon)
  BY <1>1, <1>2 DEF Sound, OnApproved, OneOpen, Follows, ApprovedOf
<1>4. Bounded(art)
  BY <1>1, StageAssumption DEF Bounded, Stages
<1>5. RowsOK(canon)
  BY DEF Init, RowsOK, Written, Nothing, Draft, Partial
<1>6. GenInv
  BY IdleType DEF Init, GenInv
<1> QED BY <1>3, <1>4, <1>5, <1>6 DEF IInv

(* Every step keeps the invariant and does to the versions what a stage's      *)
(* journey knows.                                                              *)
LEMMA NextStep ==
    ASSUME IInv, Next
    PROVE  IInv' /\ Effect(art, art')
<1>1. Kept /\ GenInv'
  <2>1. ASSUME NEW s \in Stages, Handler(s) PROVE Kept /\ GenInv'
    <3>1. CASE Create(s)
      <4>1. gen' = gen
        BY <3>1 DEF Create
      <4> QED BY <3>1, <4>1, CreateStep DEF IInv, GenInv
    <3>2. CASE \E v \in VersionsOf(art, s) : Patch(s, v) \/ Approve(s, v) \/ Reject(s, v)
      <4>1. PICK v \in VersionsOf(art, s) : Patch(s, v) \/ Approve(s, v) \/ Reject(s, v)
        BY <3>2
      <4>2. gen' = gen
        BY <4>1 DEF Patch, Approve, Reject
      <4> QED BY <4>1, <4>2, PatchStep, ApproveStep, RejectStep DEF IInv, GenInv
    <3> QED BY <2>1, <3>1, <3>2 DEF Handler
  <2>2. ASSUME NEW t \in Generations, Generation(t) PROVE Kept /\ GenInv'
    BY <2>2, StartStep, StartDiscoveryStep, StoreProposalStep, StoreDraftStep, LoseStep
       DEF Generation
  <2>3. CASE ApproveMemory
    <3>1. gen' = gen
      BY <2>3 DEF ApproveMemory
    <3> QED BY <2>3, <3>1, ApproveMemoryStep DEF IInv, GenInv
  <2>4. CASE EditBlueprint
    <3>1. gen' = gen
      BY <2>4 DEF EditBlueprint
    <3> QED BY <2>4, <3>1, EditStep DEF IInv, GenInv
  <2> QED BY <2>1, <2>2, <2>3, <2>4 DEF Next
<1> QED BY <1>1 DEF Kept, IInv

(* Steps and stutters keep the invariant.                                      *)
LEMMA StepIInv == IInv /\ [Next]_vars => IInv'
<1>1. IInv /\ UNCHANGED vars => IInv'
  BY DEF vars, IInv, GenInv
<1> QED BY <1>1, NextStep

(* The conjunction of it all is an invariant of the stages.                    *)
LEMMA InductiveInvariant == Spec => []IInv
BY InitIInv, StepIInv, PTL DEF Spec

(* Versions, rows and generations have their types, and no stage has more      *)
(* versions than the bound.                                                    *)
THEOREM StageTypeInvariant == Spec => []StageTypeOK
<1>1. IInv => StageTypeOK
  BY DEF IInv, Sound, Arts, Ver, Bounded, RowsOK, GenInv, Read, StageTypeOK
<1> QED BY <1>1, InductiveInvariant, PTL

(* Whatever handlers, approvals, rejections and late generations do, a stage   *)
(* that a person approved rests on approved stages.                            *)
THEOREM ApprovedOnApprovedInvariant == Spec => []ApprovedOnApproved
<1>1. IInv => ApprovedOnApproved
  BY DEF IInv, Sound, OnApproved, ApprovedOnApproved
<1> QED BY <1>1, InductiveInvariant, PTL

(* Of the approved versions of a stage at most one is in force.                *)
THEOREM OneUnsupersededInvariant == Spec => []OneUnsuperseded
<1>1. IInv => OneUnsuperseded
  BY DEF IInv, Sound, OneOpen, OneUnsuperseded
<1> QED BY <1>1, InductiveInvariant, PTL

(* No canonical row holds another version than the approved one, whatever      *)
(* generations began before the approval.                                      *)
THEOREM RowFollowsApprovalInvariant == Spec => []RowFollowsApproval
<1>1. IInv => RowFollowsApproval
  BY DEF IInv, Sound, Follows, RowFollowsApproval, RowHolds
<1> QED BY <1>1, InductiveInvariant, PTL

(* A rejected or stale version stays dead, whichever methods run on it.        *)
THEOREM NoRevivalHolds == Spec => NoRevival
<1> DEFINE A == \A s \in Stages : \A v \in VersionsOf(art, s) :
        art[s][v].state \in {"rejected", "stale"} => art'[s][v].state \in {"rejected", "stale"}
<1>1. IInv /\ [Next]_vars => [A]_vars
  BY NextStep DEF Effect, Grown, Dead, VersionsOf
<1> QED BY <1>1, InductiveInvariant, PTL DEF Spec, NoRevival

-------------------------------------------------------------------------------
(* The refinement of StageJourney.                                             *)
StandingIn(a, s) ==
    IF \E v \in VersionsOf(a, s) : a[s][v].state = "approved" THEN "accepted"
    ELSE IF HasApproved(a, s) THEN "adopted" ELSE "open"

(* A backfill at most adopts a stage that was open.                            *)
LEMMA AdoptedStanding ==
    ASSUME NEW a, NEW b, NEW s, AdoptedAt(a, b, s)
    PROVE  StandingIn(b, s) \in {StandingIn(a, s)} \cup
               (IF StandingIn(a, s) = "open" THEN {"adopted"} ELSE {})
<1>1. CASE b[s] = a[s]
  BY <1>1 DEF StandingIn, HasApproved, ApprovedOf, VersionsOf
<1>2. CASE b[s] # a[s]
  <2>1. ApprovedOf(a, s) = {} /\ \A v \in VersionsOf(b, s) : b[s][v].state # "approved"
    BY <1>2 DEF AdoptedAt
  <2>2. \A v \in VersionsOf(a, s) : a[s][v].state # "approved"
    BY <2>1 DEF ApprovedOf, Approved
  <2> QED BY <2>1, <2>2 DEF StandingIn, HasApproved
<1> QED BY <1>1, <1>2

(* A touch of a stage keeps what stands before it, reopens what comes after,   *)
(* and leaves the stage no better than it was.                                 *)
LEMMA TouchedStanding ==
    ASSUME NEW a \in Arts, NEW b, NEW s \in Stages, Touched(a, b, s)
    PROVE  \/ \A p \in Stages : StandingIn(b, p) = StandingIn(a, p)
           \/ /\ StandingIn(b, s) \in Journey!Fallback(StandingIn(a, s))
              /\ \A p \in Stages : p < s => StandingIn(b, p) = StandingIn(a, p)
              /\ \A p \in Stages : p > s => StandingIn(b, p) = "open"
<1>1. \A v \in VersionsOf(b, s) : b[s][v].state \in Approved =>
          v \in VersionsOf(a, s) /\ a[s][v].state = b[s][v].state
  BY DEF Touched, Withdrawn, VersionsOf
<1>2. CASE Reopened(b, s)
  <2>1. \A p \in Stages : p > s => StandingIn(b, p) = "open"
    BY <1>2 DEF Reopened, StandingIn, HasApproved, ApprovedOf, Approved
  <2>2. \A p \in Stages : p < s => StandingIn(b, p) = StandingIn(a, p)
    BY DEF Touched, StandingIn, HasApproved, ApprovedOf, VersionsOf
  <2>3. StandingIn(b, s) = "accepted" => StandingIn(a, s) = "accepted"
    BY <1>1 DEF StandingIn, Approved
  <2>4. StandingIn(b, s) = "adopted" => StandingIn(a, s) # "open"
    BY <1>1 DEF StandingIn, HasApproved, ApprovedOf
  <2>5. /\ StandingIn(b, s) \in {"accepted", "adopted", "open"}
        /\ StandingIn(a, s) \in {"accepted", "adopted", "open"}
    BY DEF StandingIn
  <2>6. StandingIn(b, s) \in Journey!Fallback(StandingIn(a, s))
    BY <2>3, <2>4, <2>5 DEF Journey!Fallback
  <2> QED BY <2>1, <2>2, <2>6
<1>3. CASE ~Reopened(b, s)
  <2>1. (\A p \in Stages : p # s => b[p] = a[p]) /\ ApprovedOf(a, s) = {}
    BY <1>3 DEF Touched
  <2>2. ApprovedOf(b, s) = {}
    BY <1>1, <2>1 DEF ApprovedOf
  <2>3. StandingIn(b, s) = "open" /\ StandingIn(a, s) = "open"
    BY <2>1, <2>2 DEF StandingIn, HasApproved, ApprovedOf, Approved
  <2> QED BY <2>1, <2>3 DEF StandingIn, HasApproved, ApprovedOf, VersionsOf
<1> QED BY <1>2, <1>3

(* A step of the stages is a step of their journey.                            *)
LEMMA StepRefines == IInv /\ Next => Journey!Next
<1> SUFFICES ASSUME IInv, Next PROVE Journey!Next
  OBVIOUS
<1> DEFINE old == [s \in Stages |-> Standing(s)]
<1>1. Journey!Stages = Stages
  BY DEF Journey!Stages, Stages, Discover
<1>2. /\ \A s \in Stages : old[s] = StandingIn(art, s)
      /\ \A s \in Stages : old'[s] = StandingIn(art', s)
  BY DEF Standing, StandingIn, HasApproved, ApprovedOf, VersionsOf
<1>3. old' \in [Stages -> Journey!Standings]
  BY DEF Journey!Standings, Standing
<1> HIDE DEF old
<1>4. CASE \A s \in Stages : AdoptedAt(art, art', s)
  <2>1. \A s \in Stages : old'[s] \in {old[s]} \cup (IF old[s] = "open" THEN {"adopted"} ELSE {})
    BY <1>2, <1>4, AdoptedStanding
  <2> QED BY <1>1, <1>3, <2>1 DEF Journey!Next, Journey!Adopt, Journey!Kept, old
<1>5. ASSUME NEW s \in Stages, Touched(art, art', s)
      PROVE  Journey!Next
  <2>0. art \in Arts
    BY DEF IInv, Sound
  <2>1. CASE \A p \in Stages : StandingIn(art', p) = StandingIn(art, p)
    <3>1. \A p \in Stages : old'[p] \in {old[p]}
      BY <1>2, <2>1
    <3> QED BY <1>1, <1>3, <3>1 DEF Journey!Next, Journey!Adopt, Journey!Kept, old
  <2>2. CASE /\ StandingIn(art', s) \in Journey!Fallback(StandingIn(art, s))
             /\ \A p \in Stages : p < s => StandingIn(art', p) = StandingIn(art, p)
             /\ \A p \in Stages : p > s => StandingIn(art', p) = "open"
    <3>1. /\ old'[s] \in Journey!Fallback(old[s])
          /\ \A p \in Stages : p < s => old'[p] = old[p]
          /\ \A p \in Stages : p > s => old'[p] = "open"
      BY <1>2, <2>2
    <3>2. Journey!Withdraw(s)
      BY <1>1, <3>1 DEF Journey!Withdraw, old
    <3> QED BY <1>1, <1>3, <3>2 DEF Journey!Next, old
  <2> QED BY <1>5, <2>0, <2>1, <2>2, TouchedStanding
<1>6. ASSUME NEW s \in Stages, AcceptedAt(art, art', s)
      PROVE  Journey!Next
  <2>1. StandingIn(art', s) = "accepted"
    BY <1>6 DEF AcceptedAt, StandingIn
  <2>2. \A p \in Stages : p > s => StandingIn(art', p) = "open"
    BY <1>6 DEF AcceptedAt, Reopened, StandingIn, HasApproved, ApprovedOf, Approved
  <2>3. \A p \in Stages : p < s =>
            /\ StandingIn(art', p) # "open"
            /\ StandingIn(art', p) \in {StandingIn(art, p)} \cup
                   (IF StandingIn(art, p) = "open" THEN {"adopted"} ELSE {})
    <3>1. \A p \in Stages : p < s => AdoptedAt(art, art', p) /\ HasApproved(art', p)
      BY <1>6 DEF AcceptedAt
    <3>2. \A p \in Stages : HasApproved(art', p) => StandingIn(art', p) # "open"
      BY DEF StandingIn
    <3> QED BY <3>1, <3>2, AdoptedStanding
  <2>4. /\ old'[s] = "accepted"
        /\ \A p \in Stages : p > s => old'[p] = "open"
        /\ \A p \in Stages : p < s =>
              /\ old'[p] # "open"
              /\ old'[p] \in {old[p]} \cup (IF old[p] = "open" THEN {"adopted"} ELSE {})
    BY <1>2, <2>1, <2>2, <2>3
  <2>5. Journey!Accept(s)
    BY <1>1, <2>4 DEF Journey!Accept, Journey!Kept, old
  <2> QED BY <1>1, <1>3, <2>5 DEF Journey!Next, old
<1> QED BY <1>4, <1>5, <1>6, NextStep DEF Effect

(* The handlers of the stages implement the journey: a stage is accepted on    *)
(* stages that stand, and what touches it reopens the later ones.              *)
THEOREM StagesImplementJourney == Spec => ImplementsJourney
<1>1. Init => Journey!Init
  <2> SUFFICES ASSUME Init PROVE Journey!Init
    OBVIOUS
  <2>1. \A s \in Stages : VersionsOf(art, s) = {}
    BY DEF Init, VersionsOf
  <2>2. \A s \in Stages : Standing(s) = "open"
    BY <2>1 DEF Standing, HasApproved, ApprovedOf
  <2>3. Journey!Stages = Stages
    BY DEF Journey!Stages, Stages, Discover
  <2> QED BY <2>2, <2>3 DEF Journey!Init
<1>2. IInv /\ [Next]_vars => [Journey!Next]_([s \in Stages |-> Standing(s)])
  <2>1. UNCHANGED vars => UNCHANGED [s \in Stages |-> Standing(s)]
    BY DEF vars, Standing, HasApproved, ApprovedOf, VersionsOf
  <2> QED BY <2>1, StepRefines
<1> QED BY <1>1, <1>2, InductiveInvariant, PTL DEF Spec, ImplementsJourney, Journey!Spec

===============================================================================
