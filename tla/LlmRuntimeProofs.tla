--------------------------- MODULE LlmRuntimeProofs ---------------------------
(* Proofs about LlmRuntime for any number of calls, settings and fallback   *)
(* models.                                                                  *)
EXTENDS LlmRuntime, FiniteSetTheorems, TLAPS

(* The calls that hold a permit of slot k. *)
Holders(k) == {c \in Calls : call[c].stage \in Holding /\ Slot(c) = k}

(* A call that waits for a CLI, runs it or accounts for it is in a CLI leg. *)
AtCli == {"queued", "running", "killed", "failed", "read", "look", "insert"}
CliInv == \A c \in Calls : call[c].stage \in AtCli => Provider(c) \in Clis

(* Finitely many calls hold a slot, as many as permits are taken of it. *)
SlotsInv == \A k \in Slots : /\ IsFiniteSet(Holders(k))
                             /\ taken[k] = Cardinality(Holders(k))

(* Only the legs a call has been in gave it an artifact, and a fallback     *)
(* follows a primary that gave none.                                        *)
LegsInv == \A c \in Calls :
    /\ call[c].leg = "primary"  => call[c].gave \subseteq {"primary"}
    /\ call[c].leg = "fallback" => call[c].gave \subseteq {"fallback"}
    /\ call[c].leg = "shadow"   => call[c].gave \subseteq {"primary", "shadow"}

IInv == CallTypeOK /\ CliInv /\ SlotsInv /\ LegsInv /\ ArtifactReturned

-----------------------------------------------------------------------------
(* What every step of a call has in common: it touches its own record, and  *)
(* the settings it began with stay.                                         *)
LEMMA OwnRecord ==
    ASSUME IInv, NEW c \in Calls, Step(c)
    PROVE  \E r \in Call : /\ call' = [call EXCEPT ![c] = r]
                           /\ r.set = call[c].set
<1> DEFINE x == call[c]
<1>1. x \in Call
  BY DEF IInv, CallTypeOK
<1>2. \A st \in Stages : [x EXCEPT !.stage = st] \in Call
  BY <1>1 DEF Call
<1>3. CASE \E st \in Stages : Goes(c, st)
  <2>1. PICK st \in Stages : Goes(c, st)
    BY <1>3
  <2>2. call' = [call EXCEPT ![c] = [x EXCEPT !.stage = st]]
    BY <2>1 DEF Goes
  <2> QED BY <1>1, <1>2, <2>2 DEF Call
<1>4. CASE Native(c)
  <2>1. PICK gives \in BOOLEAN :
          call' = [call EXCEPT ![c].stage = "answered",
                               ![c].gave = IF gives THEN @ \cup {call[c].leg} ELSE @]
    BY <1>4 DEF Native
  <2> DEFINE r == [x EXCEPT !.stage = "answered",
                            !.gave = IF gives THEN @ \cup {x.leg} ELSE @]
  <2>2. r \in Call /\ r.set = x.set
    BY <1>1 DEF Call, Legs, Stages
  <2>3. call' = [call EXCEPT ![c] = r]
    BY <2>1 DEF IInv, CallTypeOK
  <2> QED BY <2>2, <2>3
<1>5. CASE Succeed(c)
  <2> DEFINE r == [x EXCEPT !.stage = "read", !.gave = @ \cup {x.leg}]
  <2>1. r \in Call /\ r.set = x.set
    BY <1>1 DEF Call, Legs, Stages
  <2>2. call' = [call EXCEPT ![c] = r]
    BY <1>5 DEF Succeed, IInv, CallTypeOK
  <2> QED BY <2>1, <2>2
<1>6. CASE NextModel(c)
  <2> DEFINE r == [x EXCEPT !.attempt = @ + 1]
  <2>1. x.attempt \in 1..Models /\ x.attempt < Models
    BY <1>1, <1>6 DEF Call, NextModel
  <2>2. x.attempt + 1 \in 1..Models
    BY <2>1, CallConstants
  <2>3. r \in Call /\ r.set = x.set
    BY <1>1, <2>2 DEF Call
  <2>4. call' = [call EXCEPT ![c] = r]
    BY <1>6 DEF NextModel
  <2> QED BY <2>3, <2>4
<1>7. CASE ReadLastKnown(c)
  <2> DEFINE r == [x EXCEPT !.stage = "look", !.seen = last[Provider(c)]]
  <2>1. Provider(c) \in Clis
    BY <1>7 DEF IInv, CliInv, ReadLastKnown, AtCli
  <2>2. last[Provider(c)] \in Calls \cup {NoCall}
    BY <2>1 DEF IInv, CallTypeOK
  <2>3. r \in Call /\ r.set = x.set
    BY <1>1, <2>2 DEF Call, Stages
  <2>4. call' = [call EXCEPT ![c] = r]
    BY <1>7 DEF ReadLastKnown, IInv, CallTypeOK
  <2> QED BY <2>3, <2>4
<1>8. CASE FindExisting(c)
  <2>1. PICK b \in BOOLEAN : call' = [call EXCEPT ![c].stage = "insert", ![c].known = b]
    BY <1>8 DEF FindExisting
  <2> DEFINE r == [x EXCEPT !.stage = "insert", !.known = b]
  <2>2. r \in Call /\ r.set = x.set
    BY <1>1 DEF Call, Stages
  <2>3. call' = [call EXCEPT ![c] = r]
    BY <2>1 DEF IInv, CallTypeOK
  <2> QED BY <2>2, <2>3
<1>9. CASE SecondLeg(c)
  <2>1. PICK l \in Legs : call' = [call EXCEPT ![c].stage = "leg", ![c].leg = l]
    BY <1>9 DEF SecondLeg, Legs
  <2> DEFINE r == [x EXCEPT !.stage = "leg", !.leg = l]
  <2>2. r \in Call /\ r.set = x.set
    BY <1>1 DEF Call, Stages
  <2>3. call' = [call EXCEPT ![c] = r]
    BY <2>1 DEF IInv, CallTypeOK
  <2> QED BY <2>2, <2>3
<1>10. CASE Return(c)
  <2> DEFINE r == [x EXCEPT !.stage = "done", !.by = Chosen(c)]
  <2>1. Chosen(c) \in Legs
    BY <1>1 DEF Chosen, Call, Legs
  <2>2. r \in Call /\ r.set = x.set
    BY <1>1, <2>1 DEF Call, Stages
  <2>3. call' = [call EXCEPT ![c] = r]
    BY <1>10 DEF Return, IInv, CallTypeOK
  <2> QED BY <2>2, <2>3
<1> QED BY <1>3, <1>4, <1>5, <1>6, <1>7, <1>8, <1>9, <1>10
        DEF Step, Begin, Unavailable, Enqueue, Acquire, Reject, Fail, Break,
            TimesOut, PipesClose, LogFailure, RecordUsage, Stages

(* The record, the provider and the slot of another call are not touched.   *)
LEMMA OthersKeep ==
    ASSUME IInv, NEW c \in Calls, Step(c), NEW d \in Calls, d # c
    PROVE  call'[d] = call[d] /\ Provider(d)' = Provider(d) /\ Slot(d)' = Slot(d)
<1>1. PICK r \in Call : call' = [call EXCEPT ![c] = r]
  BY OwnRecord
<1>2. call'[d] = call[d]
  BY <1>1 DEF IInv, CallTypeOK
<1> QED BY <1>2 DEF Provider, Slot

(* A call keeps its provider and slot until it goes into its second leg.    *)
LEMMA OwnSlotKept ==
    ASSUME IInv, NEW c \in Calls, Step(c), ~SecondLeg(c)
    PROVE  /\ call'[c].leg = call[c].leg
           /\ Provider(c)' = Provider(c) /\ Slot(c)' = Slot(c)
<1>1. PICK r \in Call : call' = [call EXCEPT ![c] = r] /\ r.set = call[c].set
  BY OwnRecord
<1>2. call'[c].set = call[c].set
  BY <1>1 DEF IInv, CallTypeOK
<1>3. call \in [Calls -> Call] /\ call[c] \in Call
  BY DEF IInv, CallTypeOK
<1>4. call'[c].leg = call[c].leg
  BY <1>3 DEF Step, Goes, Begin, Unavailable, Enqueue, Acquire, Reject, Fail, Break,
     TimesOut, PipesClose, LogFailure, RecordUsage, Native, Succeed, NextModel,
     ReadLastKnown, FindExisting, Return, Call
<1> QED BY <1>2, <1>4 DEF Provider, Slot

(* A call in a CLI leg has a slot the queues know.                          *)
LEMMA SlotKnown ==
    ASSUME IInv, NEW c \in Calls, call[c].stage \in AtCli
    PROVE  Provider(c) \in Clis /\ Slot(c) \in Slots
<1>1. Provider(c) \in Clis
  BY DEF IInv, CliInv
<1>2. call[c].set \in Settings
  BY DEF IInv, CallTypeOK, Call
<1> QED BY <1>1, <1>2 DEF Slot, Slots

(* The provider of any leg is a CLI or the native one.                      *)
LEMMA ProviderType ==
    ASSUME IInv, NEW c \in Calls
    PROVE  Provider(c) \in Clis \cup {"native"}
<1>1. call[c] \in Call /\ call[c].set \in Setting
  BY CallConstants DEF IInv, CallTypeOK, Call
<1>2. RouteOf(call[c].set).primary \in Clis \cup {"native"}
  BY <1>1 DEF RouteOf, Setting, Rollouts, Clis
<1> QED BY <1>1, <1>2 DEF Provider, Clis

-----------------------------------------------------------------------------
(* A call enters the queue only for a CLI, and leaves it through the steps  *)
(* of that leg.                                                             *)
LEMMA CliStep ==
    ASSUME IInv, NEW c \in Calls, Step(c)
    PROVE  CliInv'
<1> SUFFICES ASSUME NEW d \in Calls, call'[d].stage \in AtCli
             PROVE  Provider(d)' \in Clis
  BY DEF CliInv
<1>1. CASE d # c
  BY <1>1, OthersKeep DEF IInv, CliInv
<1>2. CASE d = c
  <2> call \in [Calls -> Call] /\ call[c] \in Call
    BY DEF IInv, CallTypeOK
  <2>1. ~SecondLeg(c)
    BY <1>2 DEF SecondLeg, AtCli, Call
  <2>2. Provider(c)' = Provider(c)
    BY <2>1, OwnSlotKept
  <2>3. CASE call[c].stage \in AtCli
    BY <1>2, <2>2, <2>3 DEF IInv, CliInv
  <2>4. CASE call[c].stage \notin AtCli
    <3>1. Enqueue(c)
      BY <1>2, <2>1, <2>4 DEF Step, Goes, AtCli, Call, Begin, Native, Unavailable, Acquire, Reject,
         Succeed, NextModel, Fail, Break, TimesOut, PipesClose, LogFailure,
         ReadLastKnown, FindExisting, RecordUsage, Return
    <3> QED BY <1>2, <2>2, <3>1 DEF Enqueue
  <2> QED BY <2>3, <2>4
<1> QED BY <1>1, <1>2

(* A permit is taken by the step that starts a process and given back by    *)
(* each of the four that end it; the others leave both sides of the count   *)
(* alone.                                                                   *)
LEMMA SlotsStep ==
    ASSUME IInv, NEW c \in Calls, Step(c)
    PROVE  SlotsInv' /\ taken' \in [Slots -> Nat]
<1> USE DEF Holding
<1>0. /\ call \in [Calls -> Call] /\ call[c] \in Call
      /\ taken \in [Slots -> Nat]
      /\ \A k \in Slots : IsFiniteSet(Holders(k)) /\ taken[k] = Cardinality(Holders(k))
  BY DEF IInv, CallTypeOK, SlotsInv
<1>1. \A d \in Calls \ {c} : call'[d] = call[d] /\ Slot(d)' = Slot(d)
  BY OthersKeep
<1>2. CASE Acquire(c)
  <2>1. PICK q \in Slots : q = Slot(c)
    BY <1>2, SlotKnown DEF Acquire, AtCli
  <2>2. Slot(c)' = Slot(c)
    BY <1>2, OwnSlotKept DEF Acquire, SecondLeg
  <2>3. call'[c].stage = "running" /\ call[c].stage = "queued"
    BY <1>0, <1>2 DEF Acquire, Goes
  <2>4. Holders(q)' = Holders(q) \cup {c} /\ c \notin Holders(q)
    BY <1>1, <2>1, <2>2, <2>3 DEF Holders
  <2>5. \A k \in Slots \ {q} : Holders(k)' = Holders(k)
    BY <1>1, <2>1, <2>2, <2>3 DEF Holders
  <2>6. /\ taken' \in [Slots -> Nat]
        /\ taken'[q] = taken[q] + 1
        /\ \A k \in Slots \ {q} : taken'[k] = taken[k]
    BY <1>0, <1>2, <2>1 DEF Acquire
  <2>7. /\ IsFiniteSet(Holders(q) \cup {c})
        /\ Cardinality(Holders(q) \cup {c}) = Cardinality(Holders(q)) + 1
    BY <1>0, <2>1, <2>4, FS_AddElement
  <2>8. ASSUME NEW k \in Slots
        PROVE  IsFiniteSet(Holders(k)') /\ taken'[k] = Cardinality(Holders(k)')
    <3>1. CASE k = q
      BY <3>1, <1>0, <2>1, <2>4, <2>6, <2>7
    <3>2. CASE k # q
      BY <3>2, <1>0, <2>5, <2>6
    <3> QED BY <3>1, <3>2
  <2> QED BY <2>6, <2>8 DEF SlotsInv
<1>3. CASE Succeed(c) \/ Fail(c) \/ Break(c) \/ PipesClose(c)
  <2>1. PICK q \in Slots : q = Slot(c) /\ call[c].stage \in Holding
    BY <1>3, SlotKnown DEF Succeed, Fail, Break, PipesClose, AtCli
  <2>2. call'[c].stage \notin Holding /\ taken' = Freed(c)
    BY <1>0, <1>3 DEF Succeed, Fail, Break, PipesClose, Goes, Call
  <2>3. Holders(q)' = Holders(q) \ {c} /\ c \in Holders(q)
    BY <1>1, <2>1, <2>2 DEF Holders
  <2>4. \A k \in Slots \ {q} : Holders(k)' = Holders(k)
    BY <1>1, <2>1, <2>2 DEF Holders
  <2>5. /\ IsFiniteSet(Holders(q) \ {c})
        /\ Cardinality(Holders(q) \ {c}) = Cardinality(Holders(q)) - 1
    BY <1>0, <2>1, <2>3, FS_RemoveElement
  <2>6. Cardinality(Holders(q) \ {c}) \in Nat
    BY <2>5, FS_CardinalityType
  <2>7. /\ taken' \in [Slots -> Nat]
        /\ taken'[q] = Cardinality(Holders(q) \ {c})
        /\ \A k \in Slots \ {q} : taken'[k] = taken[k]
    BY <1>0, <2>1, <2>2, <2>5, <2>6 DEF Freed
  <2>8. ASSUME NEW k \in Slots
        PROVE  IsFiniteSet(Holders(k)') /\ taken'[k] = Cardinality(Holders(k)')
    <3>1. CASE k = q
      BY <3>1, <2>3, <2>5, <2>7
    <3>2. CASE k # q
      BY <3>2, <1>0, <2>4, <2>7
    <3> QED BY <3>1, <3>2
  <2> QED BY <2>7, <2>8 DEF SlotsInv
<1>4. CASE ~Acquire(c) /\ ~(Succeed(c) \/ Fail(c) \/ Break(c) \/ PipesClose(c))
  <2>1. taken' = taken
    BY <1>4 DEF Step, Begin, Native, Unavailable, Enqueue, Reject, NextModel, TimesOut,
       LogFailure, ReadLastKnown, FindExisting, RecordUsage, SecondLeg, Return
  <2>2. call'[c].stage \in Holding <=> call[c].stage \in Holding
    BY <1>0, <1>4 DEF Step, Call, Goes, Begin, Native, Unavailable, Enqueue, Reject, NextModel,
       TimesOut, LogFailure, ReadLastKnown, FindExisting, RecordUsage, SecondLeg, Return
  <2>3. call[c].stage \in Holding => Slot(c)' = Slot(c)
    BY OwnSlotKept DEF SecondLeg
  <2>4. \A k \in Slots : Holders(k)' = Holders(k)
    BY <1>1, <2>2, <2>3 DEF Holders
  <2> QED BY <1>0, <2>1, <2>4 DEF SlotsInv
<1> QED BY <1>2, <1>3, <1>4

(* What a call keeps has its types after every step.                        *)
LEMMA TypeStep ==
    ASSUME IInv, NEW c \in Calls, Step(c)
    PROVE  CallTypeOK'
<1>0. /\ call \in [Calls -> Call] /\ call[c] \in Call
      /\ last \in [Clis -> Calls \cup {NoCall}]
      /\ ledger \subseteq Calls \X (Clis \cup {"native"}) \X (Calls \cup {NoCall})
  BY DEF IInv, CallTypeOK
<1>1. call' \in [Calls -> Call]
  <2>1. PICK r \in Call : call' = [call EXCEPT ![c] = r]
    BY OwnRecord
  <2> QED BY <1>0, <2>1
<1>2. last' \in [Clis -> Calls \cup {NoCall}]
  <2>1. CASE Reject(c) \/ Succeed(c) \/ LogFailure(c)
    BY <1>0, <2>1 DEF Reject, Succeed, LogFailure
  <2>2. CASE ~(Reject(c) \/ Succeed(c) \/ LogFailure(c))
    <3>1. last' = last
      BY <2>2 DEF Step, Begin, Native, Unavailable, Enqueue, Acquire, NextModel, Fail, Break,
         TimesOut, PipesClose, ReadLastKnown, FindExisting, RecordUsage, SecondLeg, Return
    <3> QED BY <1>0, <3>1
  <2> QED BY <2>1, <2>2
<1>3. ledger' \subseteq Calls \X (Clis \cup {"native"}) \X (Calls \cup {NoCall})
  <2>1. CASE Native(c) \/ Unavailable(c) \/ RecordUsage(c)
    <3>1. ledger' = ledger \/ \E run \in Calls \cup {NoCall}, p \in Clis \cup {"native"} :
              ledger' = ledger \cup {<<c, p, run>>}
      BY <1>0, <2>1, ProviderType DEF Native, Unavailable, RecordUsage, Call
    <3> QED BY <1>0, <3>1
  <2>2. CASE ~(Native(c) \/ Unavailable(c) \/ RecordUsage(c))
    <3>1. ledger' = ledger
      BY <2>2 DEF Step, Begin, Reject, Succeed, LogFailure, Enqueue, Acquire, NextModel, Fail,
         Break, TimesOut, PipesClose, ReadLastKnown, FindExisting, SecondLeg, Return
    <3> QED BY <1>0, <3>1
  <2> QED BY <2>1, <2>2
<1> QED BY <1>1, <1>2, <1>3, SlotsStep DEF CallTypeOK

(* A leg adds its own artifact only, and what is returned is chosen by the  *)
(* legs that gave one.                                                      *)
LEMMA ArtifactStep ==
    ASSUME IInv, NEW c \in Calls, Step(c)
    PROVE  LegsInv' /\ ArtifactReturned'
<1>0. call \in [Calls -> Call] /\ call[c] \in Call
  BY DEF IInv, CallTypeOK
<1>1. \A d \in Calls \ {c} : call'[d] = call[d]
  BY OthersKeep
<1> DEFINE x == call[c]
           y == call'[c]
<1>2. /\ x.leg = "primary"  => x.gave \subseteq {"primary"}
      /\ x.leg = "fallback" => x.gave \subseteq {"fallback"}
      /\ x.leg = "shadow"   => x.gave \subseteq {"primary", "shadow"}
  BY DEF IInv, LegsInv
<1>3. ~SecondLeg(c) => y.leg = x.leg
  BY OwnSlotKept
<1>4. /\ y.leg = "primary"  => y.gave \subseteq {"primary"}
      /\ y.leg = "fallback" => y.gave \subseteq {"fallback"}
      /\ y.leg = "shadow"   => y.gave \subseteq {"primary", "shadow"}
  <2>1. CASE SecondLeg(c)
    <3>1. y.gave = x.gave /\ x.leg = "primary"
      BY <1>0, <2>1 DEF SecondLeg, NeedsFallback, NeedsShadow
    <3>2. y.leg = IF NeedsShadow(c) THEN "shadow" ELSE "fallback"
      BY <1>0, <2>1 DEF SecondLeg
    <3>3. ~NeedsShadow(c) => "primary" \notin x.gave
      BY <2>1 DEF SecondLeg, NeedsFallback
    <3> QED BY <1>2, <3>1, <3>2, <3>3
  <2>2. CASE Native(c) \/ Succeed(c)
    <3>1. y.gave = x.gave \/ y.gave = x.gave \cup {x.leg}
      BY <1>0, <2>2 DEF Native, Succeed, Call
    <3>2. ~SecondLeg(c)
      BY <2>2 DEF Native, Succeed, SecondLeg
    <3> QED BY <1>2, <1>3, <3>1, <3>2
  <2>3. CASE ~SecondLeg(c) /\ ~(Native(c) \/ Succeed(c))
    <3>1. y.gave = x.gave
      BY <1>0, <2>3 DEF Step, Goes, Call, Begin, Unavailable, Enqueue, Acquire, Reject, Fail, Break,
         TimesOut, PipesClose, LogFailure, RecordUsage, NextModel, ReadLastKnown,
         FindExisting, Return
    <3> QED BY <1>2, <1>3, <2>3, <3>1
  <2> QED BY <2>1, <2>2, <2>3
<1>5. y.stage = "done" => /\ y.gave # {} => y.by \in y.gave
                          /\ "primary" \in y.gave => y.by = "primary"
  <2> SUFFICES ASSUME y.stage = "done"
               PROVE  /\ y.gave # {} => y.by \in y.gave
                      /\ "primary" \in y.gave => y.by = "primary"
    OBVIOUS
  <2>1. Return(c)
    BY <1>0 DEF Step, Goes, Call, Begin, Unavailable, Enqueue, Acquire, Reject, Fail, Break,
       TimesOut, PipesClose, LogFailure, RecordUsage, NextModel, ReadLastKnown, Native,
       Succeed, FindExisting, SecondLeg
  <2>2. y.gave = x.gave /\ y.by = Chosen(c)
    BY <1>0, <2>1 DEF Return
  <2>3. x.leg \in Legs
    BY <1>0 DEF Call
  <2> QED BY <1>2, <2>2, <2>3 DEF Chosen, Legs
<1>6. LegsInv'
  BY <1>1, <1>4 DEF IInv, LegsInv
<1>7. ArtifactReturned'
  BY <1>1, <1>5 DEF IInv, ArtifactReturned
<1> QED BY <1>6, <1>7

-----------------------------------------------------------------------------
(* Before any call nothing is taken, logged or given.                       *)
LEMMA InitIInv == Init => IInv
<1> SUFFICES ASSUME Init PROVE IInv
  OBVIOUS
<1>1. 1 \in 1..Models
  BY CallConstants
<1>2. call \in [Calls -> Call]
  BY <1>1 DEF Init, Call, Stages, Legs
<1>3. \A c \in Calls : call[c].stage = "idle" /\ call[c].leg = "primary" /\ call[c].gave = {}
  BY DEF Init
<1>4. CallTypeOK
  BY <1>2 DEF Init, CallTypeOK
<1>5. \A k \in Slots : Holders(k) = {}
  BY <1>3 DEF Holders, Holding
<1>6. SlotsInv
  BY <1>5, FS_EmptySet DEF SlotsInv, Init
<1> QED BY <1>3, <1>4, <1>6 DEF IInv, CliInv, AtCli, LegsInv, ArtifactReturned

(* Every step of every call keeps the invariant.                            *)
LEMMA NextIInv == IInv /\ [Next]_vars => IInv'
<1> SUFFICES ASSUME IInv, [Next]_vars PROVE IInv'
  OBVIOUS
<1>1. CASE Next
  <2>1. PICK c \in Calls : Step(c)
    BY <1>1 DEF Next
  <2> QED BY <2>1, TypeStep, CliStep, SlotsStep, ArtifactStep DEF IInv
<1>2. CASE UNCHANGED vars
  <2>1. CallTypeOK' /\ CliInv'
    BY <1>2 DEF vars, IInv, CallTypeOK, CliInv, Provider
  <2>2. SlotsInv'
    BY <1>2 DEF vars, IInv, SlotsInv, Holders, Provider, Slot
  <2>3. LegsInv' /\ ArtifactReturned'
    BY <1>2 DEF vars, IInv, LegsInv, ArtifactReturned, Provider
  <2> QED BY <2>1, <2>2, <2>3 DEF IInv
<1> QED BY <1>1, <1>2

(* The conjunction of all of it is an invariant of the calls.               *)
LEMMA InductiveInvariant == Spec => []IInv
BY InitIInv, NextIInv, PTL DEF Spec

(* Calls, permits, audit logs and usage rows keep their types; no semaphore *)
(* is ever released more often than it was taken.                           *)
THEOREM CallTypeInvariant == Spec => []CallTypeOK
<1>1. IInv => CallTypeOK
  BY DEF IInv
<1> QED BY <1>1, InductiveInvariant, PTL

(* However many calls share the queues and whichever way their processes    *)
(* end, the permits taken of a semaphore are the processes that run in it.  *)
THEOREM SlotsMatchRunsInvariant == Spec => []SlotsMatchRuns
<1>1. IInv => SlotsMatchRuns
  BY DEF IInv, SlotsInv, SlotsMatchRuns, Holders
<1> QED BY <1>1, InductiveInvariant, PTL

(* For every route and every outcome of its legs, a caller gets an artifact *)
(* if one of them gave one, and the primary's before a substitute's.        *)
THEOREM ArtifactReturnedInvariant == Spec => []ArtifactReturned
<1>1. IInv => ArtifactReturned
  BY DEF IInv
<1> QED BY <1>1, InductiveInvariant, PTL
-----------------------------------------------------------------------------
(* No semaphore hands out more permits than the limit it was made for.      *)
LimitInv == \A k \in Slots : taken[k] <= k[2]

(* A permit is taken below the limit only.                                  *)
LEMMA LimitStep == IInv /\ LimitInv /\ [Next]_vars => LimitInv'
<1> SUFFICES ASSUME IInv, LimitInv, [Next]_vars PROVE LimitInv'
  OBVIOUS
<1>0. taken \in [Slots -> Nat] /\ \A k \in Slots : k[2] \in Nat
  BY CallConstants DEF IInv, CallTypeOK, Slots, Setting
<1>1. ASSUME taken' = taken PROVE LimitInv'
  BY <1>1 DEF LimitInv
<1>2. ASSUME NEW c \in Calls, Acquire(c) PROVE LimitInv'
  <2>1. Slot(c) \in Slots /\ Slot(c)[2] = call[c].set.limit
    BY <1>2, SlotKnown DEF Acquire, AtCli, Slot
  <2>2. taken[Slot(c)] < Slot(c)[2] /\ taken' = [taken EXCEPT ![Slot(c)] = @ + 1]
    BY <1>2, <2>1 DEF Acquire
  <2> QED BY <1>0, <2>1, <2>2 DEF LimitInv
<1>3. ASSUME NEW c \in Calls, Succeed(c) \/ Fail(c) \/ Break(c) \/ PipesClose(c)
      PROVE  LimitInv'
  <2>1. Slot(c) \in Slots /\ taken' = [taken EXCEPT ![Slot(c)] = @ - 1]
    BY <1>3, SlotKnown DEF Succeed, Fail, Break, PipesClose, Freed, AtCli
  <2> QED BY <1>0, <2>1 DEF LimitInv
<1>4. ASSUME NEW c \in Calls, Step(c) PROVE LimitInv'
  <2>1. \/ Acquire(c) \/ Succeed(c) \/ Fail(c) \/ Break(c) \/ PipesClose(c)
        \/ taken' = taken
    BY <1>4 DEF Step, Begin, Native, Unavailable, Enqueue, Reject, NextModel, TimesOut,
       LogFailure, ReadLastKnown, FindExisting, RecordUsage, SecondLeg, Return
  <2> QED BY <1>1, <1>2, <1>3, <2>1
<1> QED BY <1>1, <1>4 DEF Next, vars

(* A limit holds for each semaphore, whatever settings the calls find.      *)
LEMMA LimitInvariant == Spec => [](IInv /\ LimitInv)
<1>1. Init => LimitInv
  BY CallConstants DEF Init, LimitInv, Slots, Setting
<1>2. Init => IInv /\ LimitInv
  BY <1>1, InitIInv
<1>3. (IInv /\ LimitInv) /\ [Next]_vars => (IInv /\ LimitInv)'
  BY NextIInv, LimitStep
<1> QED BY <1>2, <1>3, PTL DEF Spec

(* However many calls and settings there are, and however its processes end *)
(* (success, refusal, timeout, error), a semaphore never has more processes *)
(* running in it than the limit it was made for.  A runner has a semaphore  *)
(* for each limit, so its processes may be more than any one of them        *)
(* (RunnerWithinLimit is refuted).                                          *)
THEOREM SemaphoreWithinLimit ==
    Spec => []\A k \in Slots :
                Cardinality({c \in Calls : call[c].stage \in Holding /\ Slot(c) = k}) <= k[2]
<1> DEFINE P == \A k \in Slots :
                Cardinality({c \in Calls : call[c].stage \in Holding /\ Slot(c) = k}) <= k[2]
<1>1. IInv /\ LimitInv => P
  BY DEF IInv, SlotsInv, Holders, LimitInv
<1> QED BY <1>1, LimitInvariant, PTL
===============================================================================
