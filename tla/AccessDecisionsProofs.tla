------------------------ MODULE AccessDecisionsProofs ------------------------
(* The promises of AccessDecisions hold for any finite set of requests.     *)
EXTENDS AccessDecisions, FiniteSetTheorems, TLAPS

Inv == TypeOK /\ OneUnitPerDecision /\ UnitsAccountedFor

(* Before anything is asked nothing is booked and nothing spent. *)
LEMMA InvInit ==
    ASSUME Init
    PROVE  Inv
<1>1. TypeOK /\ OneUnitPerDecision
  BY DEF Init, TypeOK, OneUnitPerDecision
<1>2. ASSUME NEW p \in Products, NEW b \in Buckets
      PROVE  {r \in Requests : product[r] = p /\ b \in booked[r]} = {}
  BY DEF Init
<1>3. UnitsAccountedFor
  BY <1>2, FS_EmptySet DEF Init, UnitsAccountedFor
<1> QED BY <1>1, <1>3 DEF Inv

(* Nothing is booked and no product changes: the accounts stand. *)
LEMMA AccountsStand ==
    ASSUME UnitsAccountedFor, UNCHANGED <<product, booked, spent>>
    PROVE  UnitsAccountedFor'
<1> QED BY DEF UnitsAccountedFor

(* Every decision books at most one unit and spends as many as it books.    *)
LEMMA InvNext ==
    ASSUME Inv, [Next]_vars, IsFiniteSet(Requests)
    PROVE  Inv'
<1> USE DEF Inv
<1>1. ASSUME NEW r \in Requests, NEW p \in Products, Open(r, p)
      PROVE  Inv'
  <2>1. TypeOK' /\ OneUnitPerDecision'
    BY <1>1 DEF Open, TypeOK, OneUnitPerDecision, Charging, Dismissed
  <2>2. booked[r] = {}
    BY <1>1 DEF Open, OneUnitPerDecision, Charging
  <2>3. ASSUME NEW q \in Products, NEW b \in Buckets
        PROVE  {s \in Requests : product'[s] = q /\ b \in booked'[s]}
                 = {s \in Requests : product[s] = q /\ b \in booked[s]}
    BY <1>1, <2>2 DEF Open, TypeOK
  <2>4. UnitsAccountedFor'
    BY <1>1, <2>3 DEF Open, UnitsAccountedFor
  <2> QED BY <2>1, <2>4
<1>2. ASSUME NEW r \in Requests, Dismiss(r)
      PROVE  Inv'
  <2>1. TypeOK' /\ OneUnitPerDecision'
    BY <1>2 DEF Dismiss, Waiting, Dismissed, TypeOK, OneUnitPerDecision
  <2> QED BY <1>2, <2>1, AccountsStand DEF Dismiss
<1>3. ASSUME NEW S \in SUBSET Requests, NEW m \in Unfunded, Approve(S, m)
      PROVE  Inv'
  <2>1. TypeOK'
    BY <1>3 DEF Approve, Waiting, TypeOK
  <2>2. OneUnitPerDecision'
    BY <1>3 DEF Approve, Waiting, Unfunded, Charging, TypeOK, OneUnitPerDecision
  <2> QED BY <1>3, <2>1, <2>2, AccountsStand DEF Approve
<1>4. ASSUME NEW r \in Requests, NEW m \in Charging, NEW b \in Buckets,
             Charge(r, m, b)
      PROVE  Inv'
  <2>1. status[r] = "pending" /\ product[r] \in Products /\ booked[r] = {}
    BY <1>4 DEF Charge, Waiting, TypeOK, OneUnitPerDecision, Charging
  <2>2. TypeOK'
    BY <1>4, <2>1 DEF Charge, TypeOK
  <2>3. OneUnitPerDecision'
    <3> SUFFICES ASSUME NEW s \in Requests
                 PROVE  /\ mode'[s] # "none" <=> status'[s] = "approved"
                        /\ mode'[s] = "balance" => booked'[s] # {}
                        /\ \A c, d \in booked'[s] : c = d
                        /\ booked'[s] # {} => mode'[s] \in Charging \cup {"authorized"}
      BY DEF OneUnitPerDecision
    <3>1. CASE s = r
      <4>1. status'[r] = "approved" /\ mode'[r] = m /\ booked'[r] = {b}
        BY <1>4, <2>1 DEF Charge, TypeOK
      <4>2. m # "none"
        BY DEF Charging
      <4> QED BY <3>1, <4>1, <4>2
    <3>2. CASE s # r
      <4>1. status'[s] = status[s] /\ mode'[s] = mode[s] /\ booked'[s] = booked[s]
        BY <1>4, <3>2 DEF Charge, TypeOK
      <4> QED BY <4>1 DEF OneUnitPerDecision
    <3> QED BY <3>1, <3>2
  <2>4. ASSUME NEW p \in Products, NEW c \in Buckets
        PROVE  spent'[p][c] =
          Cardinality({s \in Requests : product'[s] = p /\ c \in booked'[s]})
    <3> DEFINE before == {s \in Requests : product[s] = p /\ c \in booked[s]}
               after == {s \in Requests : product'[s] = p /\ c \in booked'[s]}
    <3>1. spent[p][c] = Cardinality(before)
      BY DEF UnitsAccountedFor
    <3>2. CASE p = product[r] /\ c = b
      <4>1. after = before \cup {r} /\ r \notin before
        BY <1>4, <2>1, <3>2 DEF Charge, TypeOK
      <4>2. IsFiniteSet(before)
        BY FS_Subset
      <4>3. Cardinality(after) = Cardinality(before) + 1
        BY <4>1, <4>2, FS_AddElement
      <4>4. spent'[p][c] = spent[p][c] + 1
        BY <1>4, <3>2 DEF Charge, TypeOK
      <4> QED BY <3>1, <4>3, <4>4
    <3>3. CASE ~(p = product[r] /\ c = b)
      <4>1. after = before
        BY <1>4, <2>1, <3>3 DEF Charge, TypeOK
      <4>2. spent'[p][c] = spent[p][c]
        BY <1>4, <2>1, <3>3 DEF Charge, TypeOK
      <4> QED BY <3>1, <4>1, <4>2
    <3> QED BY <3>2, <3>3
  <2> QED BY <2>2, <2>3, <2>4 DEF UnitsAccountedFor
<1>5. ASSUME NEW S \in SUBSET Requests, TakeUp(S) \/ LetGo(S)
      PROVE  Inv'
  <2>1. TypeOK' /\ OneUnitPerDecision'
    BY <1>5 DEF TakeUp, LetGo, Waiting, TypeOK, OneUnitPerDecision
  <2> QED BY <1>5, <2>1, AccountsStand DEF TakeUp, LetGo
<1>6. ASSUME NEW r \in Requests, Authorize(r)
      PROVE  Inv'
  <2>1. TypeOK'
    BY <1>6 DEF Authorize, TypeOK
  <2>2. OneUnitPerDecision'
    BY <1>6 DEF Authorize, TypeOK, OneUnitPerDecision
  <2> QED BY <1>6, <2>1, <2>2, AccountsStand DEF Authorize
<1>7. CASE UNCHANGED vars
  BY <1>7, AccountsStand DEF vars, TypeOK, OneUnitPerDecision
<1> QED BY <1>1, <1>2, <1>3, <1>4, <1>5, <1>6, <1>7 DEF Next

(* The accounts add up in every reachable state of the promise. *)
THEOREM DecisionsSafe == IsFiniteSet(Requests) /\ Spec => []Inv
<1>1. Init => Inv
  BY InvInit
<1>2. IsFiniteSet(Requests) /\ Inv /\ [Next]_vars => Inv'
  BY InvNext
<1>3. CASE IsFiniteSet(Requests)
  BY <1>1, <1>2, <1>3, PTL DEF Spec
<1> QED BY <1>3
=============================================================================
