--------------------------- MODULE QuotaPassesProofs ---------------------------
(* Proofs about the passes, payments and periods of CommercialQuota: what a    *)
(* thread does over several calls, which needs to know its whole stack.        *)
EXTENDS CommercialQuotaProofs

(* Requests are served by one thread, or no product is gated, so that no       *)
(* handler commits before its end: a handler then has the rows to itself.      *)
OneThread == Gated = {} \/ \A v, w \in Workers : v = w

(* Time passes between handlers only.                                          *)
Between     == now' # now => \A w \in Workers : stack[w] = <<>>
ClockStands == [][Between]_vars

-----------------------------------------------------------------------------
(* The thread that works is the only one, and holds its transaction.           *)
SerialInv == \A v, w \in Workers :
    v # w /\ stack[w] # <<>> => stack[v] = <<>> /\ dirty = w

(* A payment settles debts and closes requests before it calls anything else,  *)
(* and a pass or a grant always has a caller to return to.                     *)
Ordered(s) == \A i \in 1 .. Len(s) :
    /\ s[i].op = "settle" =>
          i = 1 /\ \A j \in 1 .. Len(s) : s[j].op \notin {"fifo", "charge"}
    /\ s[i].op = "close" => i = 1 \/ (i = 2 /\ s[1].op = "settle")
    /\ s[i].op \in {"fifo", "grant"} => i < Len(s)

OrderInv == \A w \in Workers : Ordered(stack[w])

(* What an order pays for is not waiting any more once it is to be credited.   *)
PayInv == \A w \in Workers : \A i \in 1 .. Len(stack[w]) :
    stack[w][i].op = "finish" /\ stack[w][i].order \notin Hotmart =>
        \/ \E j \in 1 .. Len(stack[w]) :
              stack[w][j].op = "close" /\ stack[w][j].order = stack[w][i].order
        \/ \A r \in ReqIds : ~(/\ request[r].status = "pending"
                               /\ request[r].session = OrderSession[stack[w][i].order]
                               /\ request[r].product = OrderProduct[stack[w][i].order])

(* The products with an open debt, those without balance, and who waits.       *)
InDebt == {p \in Products : \E r \in ReqIds : debt[r].status = "open" /\ request[r].product = p}
Spent  == {p \in Products : ~HasBalance(bucket[p], now)}
Waits  == {r \in ReqIds : request[r].status = "pending"}

(* No debt of its product is open while a request is to be charged.            *)
ChargeInv == \A w \in Workers : \A i \in 1 .. Len(stack[w]) :
    stack[w][i].op = "charge" => request[stack[w][i].req].product \notin InDebt

(* The request a pass has taken from its line and is to charge.                *)
Taken(w, i) == IF i > 1 /\ stack[w][i-1].op = "charge" THEN {stack[w][i-1].req} ELSE {}

(* A pass has its line: who waits is in it, or just taken from its head; or    *)
(* the pass serves nobody, since a debt is open or the balance is gone.        *)
LineAt(w, i) == stack[w][i].op = "fifo" =>
    /\ \A r \in stack[w][i].todo \cup Taken(w, i) : request[r].product = stack[w][i].product
    /\ \A r \in stack[w][i].todo : \A q \in Taken(w, i) : q < r
    /\ stack[w][i].product \notin Gated =>
          \/ stack[w][i].product \in InDebt
          \/ i = 1 /\ stack[w][i].product \in Spent
          \/ \A r \in Waits : request[r].product = stack[w][i].product =>
                r \in stack[w][i].todo \cup Taken(w, i)

LineInv == \A w \in Workers : \A i \in 1 .. Len(stack[w]) : LineAt(w, i)

(* What holds however time passes, and what holds if it stands in a handler.   *)
PInv == IInv /\ SerialInv /\ OrderInv /\ PayInv /\ ChargeInv
LInv == PInv /\ LineInv

-----------------------------------------------------------------------------
(* Frames of the passes are in order when each one that needs a next has one.  *)
LEMMA OrderedPlain ==
    ASSUME NEW t,
           \A i \in 1 .. Len(t) :
              /\ t[i].op \notin {"settle", "close"}
              /\ t[i].op \in {"fifo", "grant"} => i < Len(t)
    PROVE  Ordered(t)
BY DEF Ordered

(* A move keeps the order of calls.                                            *)
LEMMA OrderedMove ==
    ASSUME NEW s \in Seq(Frame), s # <<>>, Ordered(s), NEW new \in Seq(Frame),
           MoveOf(s, new), NEW t, t = new \o Tail(s)
    PROVE  Ordered(t)
<1>1. /\ Len(s) \in Nat /\ Len(s) > 0 /\ Len(new) \in Nat
      /\ t \in Seq(Frame) /\ Len(t) = Len(new) + Len(s) - 1
      /\ \A i \in 1 .. Len(new) : i \in 1 .. Len(t) /\ t[i] = new[i]
      /\ \A i \in 1 .. Len(t) : i > Len(new) =>
            i - Len(new) + 1 \in 2 .. Len(s) /\ t[i] = s[i - Len(new) + 1]
  BY Pushed
<1>2. CASE new = <<>>
  <2>1. Len(new) = 0
    BY <1>2
  <2>2. Len(t) = Len(s) - 1 /\ \A i \in 1 .. Len(t) : i + 1 \in 2 .. Len(s) /\ t[i] = s[i + 1]
    BY <1>1, <2>1
  <2> QED BY <1>1, <2>2 DEF Ordered
<1>3. CASE s[1].op = "settle" /\ Len(new) = 1 /\ new[1].op = "settle"
  <2>1. Len(t) = Len(s) /\ t[1].op = "settle" /\ \A i \in 2 .. Len(s) : t[i] = s[i]
    BY <1>1, <1>3
  <2>2. \A j \in 1 .. Len(s) : s[j].op \notin {"fifo", "charge"}
    BY <1>1, <1>3 DEF Ordered
  <2>3. \A i \in 2 .. Len(s) : t[i].op # "settle" /\ (t[i].op = "close" => i = 2)
    BY <1>1, <2>1 DEF Ordered
  <2>4. \A i \in 1 .. Len(s) : t[i].op \in {"fifo", "grant"} => i < Len(t)
    BY <1>1, <2>1 DEF Ordered
  <2>5. \A j \in 1 .. Len(t) : t[j].op \notin {"fifo", "charge"}
    BY <2>1, <2>2
  <2> QED BY <1>1, <2>1, <2>3, <2>4, <2>5 DEF Ordered
<1>4. CASE s[1].op \notin {"settle", "close"} /\ Proper(s[1].op, new)
  <2>1. \A i \in 1 .. Len(new) : t[i].op \notin {"settle", "close"}
    BY <1>1, <1>4 DEF Proper
  <2>2. \A i \in 1 .. Len(t) : i > Len(new) => t[i].op \notin {"settle", "close"}
    BY <1>1, <1>4 DEF Ordered
  <2>3. \A i \in 1 .. Len(new) : t[i].op \in {"fifo", "grant"} => i < Len(t)
    <3>1. s[1].op \in {"fifo", "grant"} => 1 < Len(s)
      BY <1>1 DEF Ordered
    <3> QED BY <1>1, <1>4, <3>1 DEF Proper
  <2>4. \A i \in 1 .. Len(t) : i > Len(new) /\ t[i].op \in {"fifo", "grant"} => i < Len(t)
    BY <1>1 DEF Ordered
  <2>5. \A i \in 1 .. Len(t) :
           /\ t[i].op \notin {"settle", "close"}
           /\ t[i].op \in {"fifo", "grant"} => i < Len(t)
    <3> SUFFICES ASSUME NEW i \in 1 .. Len(t)
                 PROVE  /\ t[i].op \notin {"settle", "close"}
                        /\ t[i].op \in {"fifo", "grant"} => i < Len(t)
      OBVIOUS
    <3>1. CASE i <= Len(new)
      <4>1. i \in 1 .. Len(new)
        BY <1>1, <3>1
      <4> QED BY <2>1, <2>3, <4>1
    <3>2. CASE i > Len(new)
      BY <2>2, <2>4, <3>2
    <3> QED BY <1>1, <3>1, <3>2
  <2> QED BY <2>5, OrderedPlain
<1>5. CASE s[1].op = "authorize" /\ Len(new) = 1 /\ new[1].op = "authorize"
  <2>1. Len(t) = Len(s) /\ t[1].op = "authorize" /\ \A i \in 2 .. Len(s) : t[i] = s[i]
    BY <1>1, <1>5
  <2>2. \A i \in 2 .. Len(s) : /\ s[i].op \notin {"settle", "close"}
                               /\ s[i].op \in {"fifo", "grant"} => i < Len(s)
    BY <1>1, <1>5 DEF Ordered
  <2>3. \A i \in 1 .. Len(t) :
           /\ t[i].op \notin {"settle", "close"}
           /\ t[i].op \in {"fifo", "grant"} => i < Len(t)
    <3> SUFFICES ASSUME NEW i \in 1 .. Len(t)
                 PROVE  /\ t[i].op \notin {"settle", "close"}
                        /\ t[i].op \in {"fifo", "grant"} => i < Len(t)
      OBVIOUS
    <3>1. CASE i = 1
      BY <2>1, <3>1
    <3>2. CASE i # 1
      <4>1. i \in 2 .. Len(s) /\ t[i] = s[i]
        BY <1>1, <2>1, <3>2
      <4> QED BY <2>1, <2>2, <4>1
    <3> QED BY <3>1, <3>2
  <2> QED BY <2>3, OrderedPlain
<1> QED BY <1>2, <1>3, <1>4, <1>5 DEF MoveOf

(* Steps open no request, and closing leaves none the order pays for.          *)
LEMMA StepRequests ==
    ASSUME TypeOK, NEW w \in Workers, Step(w)
    PROVE  /\ \A r \in ReqIds :
                 /\ request'[r].product = request[r].product
                 /\ request'[r].session = request[r].session
                 /\ request'[r].status = "pending" => request[r].status = "pending"
           /\ stack[w][1].op = "close" => \A r \in ReqIds :
                 ~(/\ request'[r].status = "pending"
                   /\ request'[r].session = OrderSession[stack[w][1].order]
                   /\ request'[r].product = OrderProduct[stack[w][1].order])
<1>1. CASE UNCHANGED request /\ stack[w][1].op # "close"
  BY <1>1
<1>2. CASE SettleStep(w) \/ CreditStep(w) \/ GrantStep(w) \/ FinishStep(w) \/ InitStep(w) \/ FifoStep(w)
  <2>1. UNCHANGED request
    BY <1>2 DEF SettleStep, CreditStep, GrantStep, FinishStep, InitStep, FifoStep, db
  <2>2. \E op \in {"settle", "credit", "grant", "finish", "init", "fifo"} : Running(w, op)
    BY <1>2 DEF SettleStep, CreditStep, GrantStep, FinishStep, InitStep, FifoStep
  <2>3. stack[w][1].op # "close"
    BY <2>2, Running1
  <2> QED BY <1>1, <2>1, <2>3
<1>3. CASE CloseStep(w)
  <2>1. stack[w][1] = Head(stack[w])
    BY <1>3, Running1 DEF CloseStep
  <2>2. request' = [r \in ReqIds |->
          IF r \in PaidFor(stack[w][1].order)
            THEN [request[r] EXCEPT !.status = "approved", !.mode = "payment"]
            ELSE request[r]]
    BY <1>3, <2>1 DEF CloseStep
  <2>3. ASSUME NEW r \in ReqIds, r \in PaidFor(stack[w][1].order)
        PROVE  /\ request'[r].product = request[r].product
               /\ request'[r].session = request[r].session
               /\ request'[r].status = "approved"
    <3>1. request[r] \in Request
      BY <2>3, PendingTypes DEF PaidFor
    <3> QED BY <2>2, <2>3, <3>1 DEF Request
  <2>4. \A r \in ReqIds : r \notin PaidFor(stack[w][1].order) => request'[r] = request[r]
    BY <2>2
  <2> QED BY <2>3, <2>4 DEF PaidFor
<1>4. CASE ChargeStep(w)
  <2>1. stack[w][1].op = "charge" /\ stack[w][1] = Head(stack[w]) /\ Head(stack[w]) \in Frame
    BY <1>4, Running1 DEF ChargeStep
  <2> DEFINE q == Head(stack[w]).req
  <2>2. CASE ~StillDue(q)
    BY <1>4, <1>1, <2>1, <2>2 DEF ChargeStep
  <2>3. CASE StillDue(q)
    <3>1. q \in ReqIds
      BY <2>1, FrameFields
    <3>2. request[q] \in Request
      BY <2>3, <3>1, PendingTypes DEF StillDue
    <3>3. request' = [request EXCEPT ![q].status = "approved", ![q].mode = "balance"]
      BY <1>4, <2>3 DEF ChargeStep, Approved
    <3>4. \A r \in ReqIds \ {q} : request'[r] = request[r]
      BY <3>3 DEF TypeOK
    <3>5. /\ request'[q].product = request[q].product /\ request'[q].session = request[q].session
          /\ request'[q].status = "approved"
      BY <3>1, <3>2, <3>3 DEF TypeOK, Request
    <3> QED BY <2>1, <3>4, <3>5
  <2> QED BY <2>2, <2>3
<1>5. CASE AuthorizeStep(w)
  <2>1. stack[w][1].op = "authorize" /\ Head(stack[w]) \in Frame /\ stack[w][1] = Head(stack[w])
    BY <1>5, Running1 DEF AuthorizeStep
  <2>2. CASE UNCHANGED request
    BY <1>1, <2>1, <2>2
  <2>3. ASSUME NEW q \in ReqIds, request' = Approved(q, "authorized")
        PROVE  /\ \A r \in ReqIds \ {q} : request'[r] = request[r]
               /\ request'[q].product = request[q].product
               /\ request'[q].session = request[q].session
               /\ request'[q].status = "approved"
    <3>1. request[q] \in Request \cup {NoRequest}
      BY DEF TypeOK
    <3>2. request' = [request EXCEPT ![q].status = "approved", ![q].mode = "authorized"]
      BY <2>3 DEF Approved
    <3> QED BY <3>1, <3>2 DEF TypeOK, Request, NoRequest
  <2>4. UNCHANGED request \/ \E q \in ReqIds : request' = Approved(q, "authorized")
    <3>1. Oldest(Head(stack[w]).todo) \subseteq ReqIds
      BY <2>1, FrameFields DEF Oldest
    <3> QED BY <1>5, <3>1 DEF AuthorizeStep
  <2> QED BY <2>1, <2>2, <2>3, <2>4
<1> QED BY <1>2, <1>3, <1>4, <1>5 DEF Step

(* The debts of a product stay open or not, except when a payment settles them. *)
LEMMA StepDebts ==
    ASSUME TypeOK, DebtsAddUp, ChargeInv, NEW w \in Workers, Step(w)
    PROVE  InDebt' \subseteq InDebt /\ (stack[w][1].op # "settle" => InDebt' = InDebt)
<1>0. \A r \in ReqIds : request'[r].product = request[r].product
  BY StepRequests
<1>a. ASSUME \A r \in ReqIds : debt'[r].status = debt[r].status
      PROVE  InDebt' = InDebt
  BY <1>0, <1>a DEF InDebt
<1>1. CASE UNCHANGED debt
  BY <1>a, <1>1
<1>2. CASE SettleStep(w)
  <2>1. stack[w][1].op = "settle"
    BY <1>2, Running1 DEF SettleStep
  <2>2. \A r \in ReqIds : debt'[r].status = "open" => debt[r].status = "open"
    <3>1. ASSUME NEW q \in OldestDebts, NEW d, debt' = [debt EXCEPT ![q] = d]
          PROVE  \A r \in ReqIds : debt'[r].status = "open" => debt[r].status = "open"
      BY <3>1 DEF OldestDebts, OpenDebts, TypeOK
    <3> QED BY <1>2, <3>1 DEF SettleStep
  <2> QED BY <1>0, <2>1, <2>2 DEF InDebt
<1>3. CASE \/ CloseStep(w) \/ CreditStep(w) \/ GrantStep(w) \/ FinishStep(w)
           \/ InitStep(w) \/ FifoStep(w) \/ AuthorizeStep(w)
  BY <1>1, <1>3
  DEF CloseStep, CreditStep, GrantStep, FinishStep, InitStep, FifoStep, AuthorizeStep, db
<1>4. CASE ChargeStep(w)
  <2> DEFINE q == Head(stack[w]).req
             p == request[q].product
  <2>1. CASE ~StillDue(q)
    BY <1>1, <1>4, <2>1 DEF ChargeStep
  <2>2. CASE StillDue(q)
    <3>1. /\ stack[w][1].op = "charge" /\ stack[w][1] = Head(stack[w]) /\ Head(stack[w]) \in Frame
          /\ 1 \in 1 .. Len(stack[w])
      BY <1>4, Running1 DEF ChargeStep
    <3>2. q \in ReqIds
      BY <3>1, FrameFields
    <3>3. p \in Products /\ p \notin InDebt
      BY <2>2, <3>1, <3>2, PendingTypes DEF StillDue, ChargeInv
    <3>4. debt' = [r \in ReqIds |->
                    IF r \in OpenDebts /\ request[r].product = p
                      THEN Settled(debt[r], Owed(r)) ELSE debt[r]]
      BY <1>4, <2>2 DEF ChargeStep
    <3>5. \A r \in ReqIds : ~(r \in OpenDebts /\ request[r].product = p)
      BY <3>3 DEF InDebt, OpenDebts
    <3>6. \A r \in ReqIds : debt'[r].status = debt[r].status
      BY <3>4, <3>5
    <3> QED BY <1>a, <3>6
  <2> QED BY <2>1, <2>2
<1> QED BY <1>2, <1>3, <1>4 DEF Step

(* What a step leaves of the stacks, and the transaction of who works.         *)
LEMMA StepStacks ==
    ASSUME TypeOK, DebtsAddUp, SerialInv, OrderInv, NEW w \in Workers, Step(w)
    PROVE  \E new \in Seq(Frame) :
              /\ MoveOf(stack[w], new) /\ (Calls(new) \/ FifoStep(w))
              /\ stack'[w] = new \o Tail(stack[w])
              /\ stack[w] \in Seq(Frame) /\ stack[w] # <<>>
              /\ \A v \in Workers : v # w => stack[v] = <<>> /\ stack'[v] = <<>>
<1>1. /\ stack[w] \in Seq(Frame) /\ stack[w] # <<>>
      /\ \E new \in Seq(Frame) : Moves(w, new) /\ (Calls(new) \/ FifoStep(w))
  BY StepMoves
<1>2. PICK new \in Seq(Frame) : Moves(w, new) /\ (Calls(new) \/ FifoStep(w))
  BY <1>1
<1>3. stack' = [stack EXCEPT ![w] = new \o Tail(stack[w])] /\ MoveOf(stack[w], new)
  BY <1>2 DEF Moves
<1>4. \A v \in Workers : v # w => stack[v] = <<>>
  BY <1>1 DEF SerialInv
<1> QED BY <1>1, <1>2, <1>3, <1>4 DEF TypeOK

(* Only a thread that is alone commits, and only it begins another call.       *)
LEMMA StepSerial ==
    ASSUME OneThread, TypeOK, DebtsAddUp, SerialInv, OrderInv, NEW w \in Workers, Step(w)
    PROVE  SerialInv'
<1>1. \A v \in Workers : v # w => stack'[v] = <<>>
  BY StepStacks
<1>2. ASSUME NEW v \in Workers, v # w, stack'[w] # <<>>
      PROVE  dirty' = w
  <2>1. Gated = {}
    BY <1>2 DEF OneThread
  <2>2. ASSUME NEW frames, Call(w, frames)
        PROVE  dirty' = w
    BY <1>2, <2>2 DEF Call, TypeOK
  <2>3. CASE ChargeStep(w)
    <3>1. CASE Call(w, Tail(stack[w]))
      BY <2>2, <3>1
    <3>2. CASE stack' = [stack EXCEPT ![w] = Tail(@)] /\ dirty' = (IF Tail(stack[w]) = <<>> THEN None ELSE w)
      BY <1>2, <3>2 DEF TypeOK
    <3> QED BY <2>1, <2>3, <3>1, <3>2 DEF ChargeStep
  <2>4. CASE SettleStep(w) \/ CloseStep(w) \/ CreditStep(w)
    BY <2>2, <2>4 DEF SettleStep, CloseStep, CreditStep
  <2>5. CASE GrantStep(w)
    BY <2>2, <2>5 DEF GrantStep
  <2>6. CASE FinishStep(w)
    BY <2>2, <2>6 DEF FinishStep
  <2>7. CASE InitStep(w)
    BY <2>2, <2>7 DEF InitStep
  <2>8. CASE FifoStep(w)
    BY <2>2, <2>8 DEF FifoStep
  <2>9. CASE AuthorizeStep(w)
    BY <2>1, <2>2, <2>9 DEF AuthorizeStep
  <2> QED BY <2>3, <2>4, <2>5, <2>6, <2>7, <2>8, <2>9 DEF Step
<1> QED BY <1>1, <1>2 DEF SerialInv

(* Steps keep the order of calls.                                              *)
LEMMA StepOrder ==
    ASSUME TypeOK, DebtsAddUp, SerialInv, OrderInv, NEW w \in Workers, Step(w)
    PROVE  OrderInv'
<1>1. PICK new \in Seq(Frame) :
          /\ MoveOf(stack[w], new) /\ stack'[w] = new \o Tail(stack[w])
          /\ stack[w] \in Seq(Frame) /\ stack[w] # <<>>
          /\ \A v \in Workers : v # w => stack'[v] = <<>>
  BY StepStacks
<1>2. Ordered(stack[w])
  BY DEF OrderInv
<1>3. Ordered(stack'[w])
  BY <1>1, <1>2, OrderedMove
<1>4. \A v \in Workers : v # w => Ordered(stack'[v])
  BY <1>1 DEF Ordered
<1> QED BY <1>3, <1>4 DEF OrderInv

(* Steps open nothing an order paid for.                                       *)
LEMMA StepPay ==
    ASSUME TypeOK, DebtsAddUp, SerialInv, OrderInv, PayInv, NEW w \in Workers, Step(w)
    PROVE  PayInv'
<1>1. PICK new \in Seq(Frame) :
          /\ MoveOf(stack[w], new) /\ stack'[w] = new \o Tail(stack[w])
          /\ stack[w] \in Seq(Frame) /\ stack[w] # <<>>
          /\ \A v \in Workers : v # w => stack'[v] = <<>>
  BY StepStacks
<1> DEFINE s == stack[w]
           t == stack'[w]
           Paid(o) == \A r \in ReqIds : ~(/\ request[r].status = "pending"
                                          /\ request[r].session = OrderSession[o]
                                          /\ request[r].product = OrderProduct[o])
           PaidNext(o) == \A r \in ReqIds : ~(/\ request'[r].status = "pending"
                                              /\ request'[r].session = OrderSession[o]
                                              /\ request'[r].product = OrderProduct[o])
<1>2. /\ Len(s) \in Nat /\ Len(s) > 0 /\ Len(new) \in Nat
      /\ t \in Seq(Frame) /\ Len(t) = Len(new) + Len(s) - 1
      /\ \A i \in 1 .. Len(new) : i \in 1 .. Len(t) /\ t[i] = new[i]
      /\ \A i \in 1 .. Len(t) : i > Len(new) =>
            i - Len(new) + 1 \in 2 .. Len(s) /\ t[i] = s[i - Len(new) + 1]
      /\ \A i \in 2 .. Len(s) : i + Len(new) - 1 \in 1 .. Len(t) /\ t[i + Len(new) - 1] = s[i]
  BY <1>1, Pushed
<1>3. /\ \A o : Paid(o) => PaidNext(o)
      /\ s[1].op = "close" => PaidNext(s[1].order)
  BY StepRequests
<1>4. ASSUME NEW i \in 1 .. Len(t), t[i].op = "finish", t[i].order \notin Hotmart
      PROVE  \/ \E j \in 1 .. Len(t) : t[j].op = "close" /\ t[j].order = t[i].order
             \/ PaidNext(t[i].order)
  <2>1. i > Len(new)
    <3>1. \A j \in 1 .. Len(new) : new[j].op # "finish"
      <4>1. CASE new = <<>>
        BY <4>1
      <4>2. CASE Len(new) = 1 /\ new[1].op = "settle"
        BY <4>2
      <4>3. CASE Proper(s[1].op, new)
        BY <4>3 DEF Proper
      <4> QED BY <1>1, <4>1, <4>2, <4>3 DEF MoveOf
    <3> QED BY <1>2, <1>4, <3>1
  <2>2. PICK k \in 2 .. Len(s) : t[i] = s[k]
    BY <1>2, <2>1
  <2>3. \/ \E j \in 1 .. Len(s) : s[j].op = "close" /\ s[j].order = s[k].order
        \/ Paid(s[k].order)
    <3>1. k \in 1 .. Len(s) /\ s[k].op = "finish" /\ s[k].order \notin Hotmart
      BY <1>2, <1>4, <2>2
    <3> QED BY <3>1 DEF PayInv
  <2>4. CASE Paid(s[k].order)
    BY <1>3, <2>2, <2>4
  <2>5. ASSUME NEW j \in 1 .. Len(s), s[j].op = "close", s[j].order = s[k].order
        PROVE  \/ \E l \in 1 .. Len(t) : t[l].op = "close" /\ t[l].order = t[i].order
               \/ PaidNext(t[i].order)
    <3>1. CASE j = 1
      BY <1>3, <2>2, <2>5, <3>1
    <3>2. CASE j > 1
      <4>1. j + Len(new) - 1 \in 1 .. Len(t) /\ t[j + Len(new) - 1] = s[j]
        BY <1>2, <2>5, <3>2
      <4> QED BY <2>2, <2>5, <4>1
    <3> QED BY <1>2, <2>5, <3>1, <3>2
  <2> QED BY <2>3, <2>4, <2>5
<1>5. \A v \in Workers : v # w => Len(stack'[v]) = 0
  BY <1>1
<1> HIDE DEF PaidNext
<1>6. ASSUME NEW v \in Workers, NEW i \in 1 .. Len(stack'[v]),
             stack'[v][i].op = "finish", stack'[v][i].order \notin Hotmart
      PROVE  \/ \E j \in 1 .. Len(stack'[v]) :
                   stack'[v][j].op = "close" /\ stack'[v][j].order = stack'[v][i].order
             \/ PaidNext(stack'[v][i].order)
  <2>1. v = w
    BY <1>5, <1>6
  <2> QED BY <1>4, <1>6, <2>1
<1> QED BY <1>6 DEF PayInv, PaidNext

(* One turn of a pass.                                                         *)
LEMMA FifoMoves ==
    ASSUME TypeOK, NEW w \in Workers, FifoStep(w)
    PROVE  /\ UNCHANGED <<request, debt, bucket, now>>
           /\ stack[w][1] \in Frame /\ stack[w][1].op = "fifo"
           /\ stack[w][1].todo \subseteq ReqIds /\ stack[w][1].product \in Products
           /\ \/ /\ stack'[w] = <<>> \o Tail(stack[w])
                 /\ stack[w][1].todo = {} \/ stack[w][1].product \in Spent
              \/ /\ stack[w][1].product \notin Spent
                 /\ \E r \in stack[w][1].todo, g \in Frame :
                      /\ \A q \in stack[w][1].todo : r <= q
                      /\ g.op = "fifo" /\ g.product = stack[w][1].product
                      /\ g.todo = stack[w][1].todo \ {r}
                      /\ \/ /\ MayAutoApprove(r)
                            /\ stack'[w] = <<InitCall(now), ChargeCall(r), g>> \o Tail(stack[w])
                         \/ /\ ~MayAutoApprove(r)
                            /\ stack'[w] = <<g>> \o Tail(stack[w])
<1> DEFINE f == stack[w][1]
           rest == Tail(stack[w])
<1>1. /\ f = Head(stack[w]) /\ f \in Frame /\ f.op = "fifo" /\ rest \in Seq(Frame)
  BY Running1 DEF FifoStep
<1>2. f.todo \subseteq ReqIds /\ f.product \in Products /\ now \in Times
  BY <1>1, FrameFields DEF TypeOK
<1>3. \A frames : Call(w, frames) => stack'[w] = frames
  BY DEF Call, TypeOK
<1>4. UNCHANGED <<request, debt, bucket, now>>
  BY DEF FifoStep, db
<1>5. CASE f.todo = {} \/ ~HasBalance(bucket[f.product], now)
  <2>1. stack'[w] = rest
    BY <1>1, <1>3, <1>5 DEF FifoStep
  <2>2. <<>> \o rest = rest
    BY <1>1
  <2>3. f.todo = {} \/ f.product \in Spent
    BY <1>2, <1>5 DEF Spent
  <2> QED BY <1>1, <1>2, <1>4, <2>1, <2>2, <2>3
<1>6. CASE ~(f.todo = {} \/ ~HasBalance(bucket[f.product], now))
  <2>1. PICK r \in Oldest(f.todo) :
          Call(w, (IF MayAutoApprove(r) THEN <<InitCall(now), ChargeCall(r)>> ELSE <<>>)
                    \o <<[f EXCEPT !.todo = @ \ {r}]>> \o rest)
    BY <1>1, <1>6 DEF FifoStep
  <2> DEFINE a == InitCall(now)
             b == ChargeCall(r)
             g == [f EXCEPT !.todo = f.todo \ {r}]
  <2>2. r \in f.todo /\ \A q \in f.todo : r <= q
    BY <2>1 DEF Oldest
  <2>3. /\ g \in Frame /\ g.op = "fifo" /\ g.product = f.product /\ g.todo = f.todo \ {r}
        /\ a \in Frame /\ b \in Frame
    <3>1. g \in Frame
      BY <1>1, <1>2, <2>2, FrameFields
    <3>2. g.op = "fifo" /\ g.product = f.product /\ g.todo = f.todo \ {r}
      BY <1>1, <1>2, <2>2, FrameStays
    <3>3. a \in Frame /\ b \in Frame
      BY <1>2, <2>2, FrameTypes
    <3> QED BY <3>1, <3>2, <3>3
  <2>4. stack'[w] = (IF MayAutoApprove(r) THEN <<a, b>> ELSE <<>>) \o <<g>> \o rest
    BY <1>3, <2>1
  <2>5. f.product \notin Spent
    BY <1>6 DEF Spent
  <2> HIDE DEF a, b, g
  <2>6. <<a, b>> \o <<g>> = <<a, b, g>> /\ <<>> \o <<g>> = <<g>>
    <3>1. <<g>> \in Seq(Frame)
      BY <2>3
    <3>2. <<a, b>> \o <<g>> = <<a, b, g>>
      BY <2>3, Joined
    <3> QED BY <3>1, <3>2
  <2>7. \/ MayAutoApprove(r) /\ stack'[w] = <<a, b, g>> \o rest
        \/ ~MayAutoApprove(r) /\ stack'[w] = <<g>> \o rest
    BY <2>4, <2>6
  <2> QED BY <1>1, <1>2, <1>4, <2>2, <2>3, <2>5, <2>7 DEF a, b
<1> QED BY <1>5, <1>6

(* The charges below the top stay harmless; those pushed must be.              *)
LEMMA ChargeMove ==
    ASSUME TypeOK, DebtsAddUp, SerialInv, OrderInv, ChargeInv, NEW w \in Workers, Step(w),
           NEW new \in Seq(Frame), stack'[w] = new \o Tail(stack[w]),
           \A i \in 1 .. Len(new) :
              new[i].op = "charge" => request[new[i].req].product \notin InDebt
    PROVE  ChargeInv'
<1> DEFINE s == stack[w]
           t == stack'[w]
<1>1. s \in Seq(Frame) /\ s # <<>> /\ \A v \in Workers : v # w => stack'[v] = <<>>
  BY StepStacks
<1>2. /\ Len(s) \in Nat /\ Len(new) \in Nat
      /\ t \in Seq(Frame) /\ Len(t) = Len(new) + Len(s) - 1
      /\ \A i \in 1 .. Len(new) : i \in 1 .. Len(t) /\ t[i] = new[i]
      /\ \A i \in 1 .. Len(t) : i > Len(new) =>
            i - Len(new) + 1 \in 2 .. Len(s) /\ t[i] = s[i - Len(new) + 1]
  BY <1>1, Pushed
<1>3. InDebt' \subseteq InDebt /\ \A r \in ReqIds : request'[r].product = request[r].product
  BY StepDebts, StepRequests
<1>4. ASSUME NEW i \in 1 .. Len(t), t[i].op = "charge"
      PROVE  request'[t[i].req].product \notin InDebt'
  <2>1. t[i] \in Frame
    BY <1>2, <1>4
  <2>2. t[i].req \in ReqIds
    BY <1>4, <2>1, FrameFields
  <2>3. CASE i > Len(new)
    <3>1. PICK k \in 2 .. Len(s) : t[i] = s[k]
      BY <1>2, <2>3
    <3>2. request[s[k].req].product \notin InDebt
      <4>1. s[k].op = "charge" /\ k \in 1 .. Len(stack[w])
        BY <1>2, <1>4, <3>1
      <4> QED BY <4>1 DEF ChargeInv
    <3> QED BY <1>3, <2>2, <3>1, <3>2
  <2>4. CASE i <= Len(new)
    <3>1. i \in 1 .. Len(new) /\ t[i] = new[i]
      BY <1>2, <2>4
    <3>2. request[new[i].req].product \notin InDebt
      BY <1>4, <3>1
    <3>3. request[t[i].req].product \notin InDebt
      BY <3>1, <3>2
    <3>4. request'[t[i].req].product = request[t[i].req].product
      BY <1>3, <2>2
    <3> HIDE DEF t
    <3> QED BY <1>3, <3>3, <3>4
  <2>5. i > Len(new) \/ i <= Len(new)
    BY <1>2
  <2> QED BY <2>3, <2>4, <2>5, Zenon
<1>5. \A v \in Workers : v # w => Len(stack'[v]) = 0
  BY <1>1
<1>6. ASSUME NEW v \in Workers, NEW i \in 1 .. Len(stack'[v]), stack'[v][i].op = "charge"
      PROVE  request'[stack'[v][i].req].product \notin InDebt'
  <2>1. v = w
    BY <1>5, <1>6
  <2> QED BY <1>4, <1>6, <2>1
<1> QED BY <1>6 DEF ChargeInv

(* Steps charge only where no debt is open: who checks that is not interrupted. *)
LEMMA StepCharge ==
    ASSUME TypeOK, DebtsAddUp, SerialInv, OrderInv, ChargeInv, NEW w \in Workers, Step(w)
    PROVE  ChargeInv'
<1>1. PICK new \in Seq(Frame) :
          /\ Calls(new) \/ FifoStep(w)
          /\ stack'[w] = new \o Tail(stack[w])
  BY StepStacks
<1>2. CASE Calls(new)
  BY <1>1, <1>2, ChargeMove DEF Calls
<1>3. CASE FifoStep(w)
  <2>1. CASE stack'[w] = <<>> \o Tail(stack[w])
    <3> DEFINE n == <<>>
    <3>1. n \in Seq(Frame) /\ Len(n) = 0 /\ stack'[w] = n \o Tail(stack[w])
      BY <2>1
    <3> HIDE DEF n
    <3>2. \A i \in 1 .. Len(n) : n[i].op = "charge" => request[n[i].req].product \notin InDebt
      BY <3>1
    <3> QED BY <3>1, <3>2, ChargeMove
  <2>2. ASSUME NEW r \in ReqIds, NEW g \in Frame, g.op = "fifo", MayAutoApprove(r),
               stack'[w] = <<InitCall(now), ChargeCall(r), g>> \o Tail(stack[w])
        PROVE  ChargeInv'
    <3> DEFINE a == InitCall(now)
               b == ChargeCall(r)
               n == <<a, b, g>>
    <3>1. a \in Frame /\ b \in Frame /\ a.op = "init" /\ b.req = r
      BY FrameTypes DEF TypeOK, InitCall, ChargeCall
    <3>2. request[r].product \notin InDebt
      BY <2>2 DEF MayAutoApprove, HasOpenDebt, OpenDebts, InDebt
    <3> HIDE DEF a, b
    <3>3. n \in Seq(Frame) /\ Len(n) = 3 /\ n[1] = a /\ n[2] = b /\ n[3] = g
      BY <3>1
    <3>4. stack'[w] = n \o Tail(stack[w])
      BY <2>2 DEF a, b
    <3> HIDE DEF n
    <3>5. \A i \in 1 .. Len(n) : n[i].op = "charge" => request[n[i].req].product \notin InDebt
      BY <2>2, <3>1, <3>2, <3>3
    <3> QED BY <3>3, <3>4, <3>5, ChargeMove
  <2>3. ASSUME NEW g \in Frame, g.op = "fifo", stack'[w] = <<g>> \o Tail(stack[w])
        PROVE  ChargeInv'
    <3>1. <<g>> \in Seq(Frame) /\ Len(<<g>>) = 1 /\ <<g>>[1] = g
      OBVIOUS
    <3>2. \A i \in 1 .. Len(<<g>>) : <<g>>[i].op # "charge"
      BY <2>3, <3>1
    <3> QED BY <2>3, <3>1, <3>2, ChargeMove
  <2>4. /\ stack[w][1].todo \subseteq ReqIds
        /\ \/ stack'[w] = <<>> \o Tail(stack[w])
           \/ \E r \in stack[w][1].todo, g \in Frame :
                 /\ g.op = "fifo"
                 /\ \/ /\ MayAutoApprove(r)
                       /\ stack'[w] = <<InitCall(now), ChargeCall(r), g>> \o Tail(stack[w])
                    \/ stack'[w] = <<g>> \o Tail(stack[w])
    BY <1>3, FifoMoves
  <2> QED BY <2>1, <2>2, <2>3, <2>4
<1> QED BY <1>1, <1>2, <1>3

(* Below the top a pass keeps its line; those pushed must have theirs.         *)
LEMMA LineMove ==
    ASSUME TypeOK, DebtsAddUp, SerialInv, OrderInv, ChargeInv, LineInv, NEW w \in Workers, Step(w),
           NEW new \in Seq(Frame), stack'[w] = new \o Tail(stack[w]),
           stack[w][1].op # "charge", Len(new) > 0 => new[Len(new)].op # "charge",
           \A i \in 1 .. Len(new) : LineAt(w, i)'
    PROVE  LineInv'
<1> DEFINE s == stack[w]
           t == stack'[w]
<1>1. s \in Seq(Frame) /\ s # <<>> /\ \A v \in Workers : v # w => stack'[v] = <<>>
  BY StepStacks
<1>2. /\ Len(s) \in Nat /\ Len(s) > 0 /\ Len(new) \in Nat
      /\ t \in Seq(Frame) /\ Len(t) = Len(new) + Len(s) - 1
      /\ \A i \in 1 .. Len(new) : i \in 1 .. Len(t) /\ t[i] = new[i]
      /\ \A i \in 1 .. Len(t) : i > Len(new) =>
            i - Len(new) + 1 \in 2 .. Len(s) /\ t[i] = s[i - Len(new) + 1]
  <2>1. t = new \o Tail(s)
    OBVIOUS
  <2> HIDE DEF s, t
  <2> QED BY <1>1, <2>1, Pushed, SMTT(30)
<1>3. /\ \A r \in ReqIds : request'[r].product = request[r].product
      /\ Waits' \subseteq Waits
  BY StepRequests DEF Waits
<1>4. ASSUME NEW i \in 1 .. Len(t), i > Len(new)
      PROVE  LineAt(w, i)'
  <2>1. PICK k \in 2 .. Len(s) : k = i - Len(new) + 1 /\ t[i] = s[k]
    BY <1>2, <1>4
  <2>2. SUFFICES ASSUME t[i].op = "fifo"
                 PROVE  LineAt(w, i)'
    BY DEF LineAt
  <2>3. s[1].op # "settle"
    <3>1. Ordered(s) /\ 1 \in 1 .. Len(s) /\ k \in 1 .. Len(s) /\ s[k].op = "fifo"
      BY <1>2, <2>1, <2>2 DEF OrderInv
    <3> QED BY <3>1 DEF Ordered
  <2>4. InDebt' = InDebt
    BY <2>3, StepDebts
  <2>5. Taken(w, i)' = Taken(w, k)
    <3>1. CASE k = 2
      <4>1. i = Len(new) + 1
        BY <1>2, <2>1, <3>1
      <4>2. ASSUME i > 1
            PROVE  t[i-1].op # "charge"
        <5>1. Len(new) \in 1 .. Len(new) /\ i - 1 = Len(new) /\ Len(new) > 0
          BY <1>2, <4>1, <4>2
        <5>2. t[Len(new)] = new[Len(new)]
          BY <1>2, <5>1
        <5> QED BY <5>1, <5>2
      <4>3. Taken(w, i)' = {}
        BY <4>2 DEF Taken
      <4>4. Taken(w, k) = {}
        BY <3>1 DEF Taken
      <4> QED BY <4>3, <4>4
    <3>2. CASE k > 2
      <4>1. i > 1 /\ i - 1 \in 1 .. Len(t) /\ i - 1 > Len(new)
        BY <1>2, <1>4, <2>1, <3>2
      <4>2. t[i-1] = s[(i - 1) - Len(new) + 1]
        BY <1>2, <4>1
      <4>3. (i - 1) - Len(new) + 1 = k - 1
        BY <1>2, <2>1
      <4>4. t[i-1] = s[k-1]
        BY <4>2, <4>3
      <4>5. k > 1
        BY <3>2
      <4> QED BY <4>1, <4>4, <4>5 DEF Taken
    <3> QED BY <1>2, <2>1, <3>1, <3>2
  <2>6. LineAt(w, k)
    BY <1>2, <2>1 DEF LineInv
  <2>7. t[i].todo \subseteq ReqIds
    <3>1. t[i] \in Frame
      BY <1>2
    <3> QED BY <2>2, <3>1, FrameFields
  <2>8. Taken(w, k) \subseteq ReqIds
    <3>1. k - 1 \in 1 .. Len(s) /\ s[k-1] \in Frame
      BY <1>1, <1>2, <2>1
    <3> QED BY <3>1, FrameFields DEF Taken
  <2>9. /\ \A r \in t[i].todo \cup Taken(w, k) : request[r].product = t[i].product
        /\ \A r \in t[i].todo : \A q \in Taken(w, k) : q < r
        /\ t[i].product \notin Gated =>
              \/ t[i].product \in InDebt
              \/ \A r \in Waits : request[r].product = t[i].product =>
                    r \in t[i].todo \cup Taken(w, k)
    BY <2>1, <2>2, <2>6 DEF LineAt
  <2>10. /\ \A r \in t[i].todo \cup Taken(w, k) : request'[r].product = t[i].product
         /\ t[i].product \notin Gated =>
              \/ t[i].product \in InDebt'
              \/ \A r \in Waits' : request'[r].product = t[i].product =>
                    r \in t[i].todo \cup Taken(w, k)
    <3>1. Waits' \subseteq ReqIds
      BY DEF Waits
    <3> QED BY <1>3, <2>4, <2>7, <2>8, <2>9, <3>1
  <2> QED BY <2>5, <2>9, <2>10 DEF LineAt
<1>5. ASSUME NEW i \in 1 .. Len(t)
      PROVE  LineAt(w, i)'
  BY <1>2, <1>4, <1>5
<1>6. \A v \in Workers : v # w => Len(stack'[v]) = 0
  BY <1>1
<1>7. ASSUME NEW v \in Workers, NEW i \in 1 .. Len(stack'[v])
      PROVE  LineAt(v, i)'
  <2>1. v = w
    BY <1>6, <1>7
  <2> QED BY <1>5, <1>7, <2>1
<1> QED BY <1>7 DEF LineInv

(* A pass that starts has everybody who waits in its line.                     *)
LEMMA CallsLine ==
    ASSUME TypeOK, NEW w \in Workers, Step(w), NEW new \in Seq(Frame),
           Calls(new), NEW i \in 1 .. Len(new), stack'[w][i] = new[i]
    PROVE  LineAt(w, i)'
<1>1. CASE new[i].op # "fifo"
  BY <1>1 DEF LineAt
<1>2. CASE new[i].op = "fifo"
  <2>1. i = 1
    BY <1>2 DEF Calls
  <2>2. PICK p \in Products : new[1] = FifoCall(p, Pending(p))
    BY <1>2 DEF Calls
  <2>3. stack'[w][1].todo = Pending(p) /\ stack'[w][1].product = p
    BY <2>1, <2>2 DEF FifoCall
  <2>4. Taken(w, 1)' = {}
    BY DEF Taken
  <2>5. \A r \in Pending(p) : request'[r].product = p
    BY StepRequests DEF Pending
  <2>6. \A r \in Waits' : request'[r].product = p => r \in Pending(p)
    BY StepRequests DEF Pending, Waits
  <2> QED BY <2>1, <2>3, <2>4, <2>5, <2>6 DEF LineAt
<1> QED BY <1>1, <1>2

(* A turn of a pass takes the head of its line, or who may not be served.      *)
LEMMA FifoLine ==
    ASSUME TypeOK, DebtsAddUp, SerialInv, OrderInv, ChargeInv, LineInv,
           NEW w \in Workers, FifoStep(w)
    PROVE  LineInv'
<1> DEFINE s == stack[w]
           f == s[1]
<1>0. Step(w)
  BY DEF Step
<1>1. /\ UNCHANGED <<request, debt, bucket, now>> /\ f \in Frame /\ f.op = "fifo"
      /\ f.todo \subseteq ReqIds /\ f.product \in Products
      /\ s \in Seq(Frame) /\ s # <<>> /\ 1 \in 1 .. Len(s)
  BY FifoMoves, Running1 DEF FifoStep
<1>9. ASSUME NEW new \in Seq(Frame), stack'[w] = new \o Tail(s)
      PROVE  \A i \in 1 .. Len(new) : stack'[w][i] = new[i]
  BY <1>1, <1>9, Pushed
<1>2. LineAt(w, 1) /\ Taken(w, 1) = {}
  BY <1>1 DEF LineInv, Taken
<1>3. InDebt' = InDebt /\ Waits' = Waits /\ Spent' = Spent /\ request' = request
  BY <1>1 DEF InDebt, Waits, Spent
<1>4. CASE stack'[w] = <<>> \o Tail(s)
  <2> DEFINE n == <<>>
  <2>1. n \in Seq(Frame) /\ Len(n) = 0 /\ stack'[w] = n \o Tail(s)
    BY <1>4
  <2> HIDE DEF n
  <2>2. \A i \in 1 .. Len(n) : LineAt(w, i)'
    BY <2>1
  <2>3. s[1].op # "charge" /\ (Len(n) > 0 => n[Len(n)].op # "charge")
    BY <1>1, <2>1
  <2> QED BY <1>0, <2>1, <2>2, <2>3, LineMove
<1>5. ASSUME NEW r \in f.todo, NEW g \in Frame, \A q \in f.todo : r <= q, f.product \notin Spent,
             g.op = "fifo", g.product = f.product, g.todo = f.todo \ {r}
      PROVE  /\ \A q \in g.todo : request[q].product = f.product /\ r < q
             /\ request[r].product = f.product
             /\ f.product \notin Gated =>
                  \/ f.product \in InDebt
                  \/ \A q \in Waits : request[q].product = f.product => q \in g.todo \cup {r}
  <2>1. \A q \in f.todo : request[q].product = f.product
    BY <1>1, <1>2 DEF LineAt
  <2>2. \A q \in f.todo : q \in Nat
    BY <1>1, QuotaConstants DEF ReqIds
  <2>3. f.product \notin Gated =>
          \/ f.product \in InDebt
          \/ \A q \in Waits : request[q].product = f.product => q \in f.todo
    BY <1>1, <1>2, <1>5 DEF LineAt
  <2> QED BY <1>5, <2>1, <2>2, <2>3
<1>6. ASSUME NEW r \in f.todo, NEW g \in Frame, \A q \in f.todo : r <= q, f.product \notin Spent,
             g.op = "fifo", g.product = f.product, g.todo = f.todo \ {r},
             MayAutoApprove(r),
             stack'[w] = <<InitCall(now), ChargeCall(r), g>> \o Tail(s)
      PROVE  LineInv'
  <2> DEFINE a == InitCall(now)
             b == ChargeCall(r)
             n == <<a, b, g>>
  <2>1. /\ a \in Frame /\ b \in Frame /\ a.op = "init" /\ b.req = r /\ b.op = "charge"
    BY <1>1, <1>6, FrameTypes DEF TypeOK, InitCall, ChargeCall
  <2> HIDE DEF a, b
  <2>2. n \in Seq(Frame) /\ Len(n) = 3 /\ n[1] = a /\ n[2] = b /\ n[3] = g
    BY <2>1
  <2>3. stack'[w] = n \o Tail(s)
    BY <1>6 DEF a, b
  <2> HIDE DEF n
  <2>4. stack'[w][1] = a /\ stack'[w][2] = b /\ stack'[w][3] = g
    <3>1. \A i \in 1 .. Len(n) : stack'[w][i] = n[i]
      BY <1>9, <2>2, <2>3
    <3> QED BY <2>2, <3>1
  <2>5. Taken(w, 3)' = {r}
    BY <2>1, <2>4 DEF Taken
  <2>6. LineAt(w, 3)'
    <3>1. /\ \A q \in g.todo : request[q].product = f.product /\ r < q
          /\ request[r].product = f.product
          /\ f.product \notin Gated =>
                  \/ f.product \in InDebt
                  \/ \A q \in Waits : request[q].product = f.product => q \in g.todo \cup {r}
      BY <1>5, <1>6
    <3> QED BY <1>3, <1>6, <2>4, <2>5, <3>1 DEF LineAt
  <2>7. LineAt(w, 1)' /\ LineAt(w, 2)'
    BY <2>1, <2>4 DEF LineAt
  <2>8. \A i \in 1 .. Len(n) : LineAt(w, i)'
    <3>1. \A i \in 1 .. Len(n) : i = 1 \/ i = 2 \/ i = 3
      BY <2>2
    <3> QED BY <2>6, <2>7, <3>1
  <2> QED BY <1>0, <1>1, <1>6, <2>2, <2>3, <2>8, LineMove
<1>7. ASSUME NEW r \in f.todo, NEW g \in Frame, \A q \in f.todo : r <= q, f.product \notin Spent,
             g.op = "fifo", g.product = f.product, g.todo = f.todo \ {r},
             ~MayAutoApprove(r), stack'[w] = <<g>> \o Tail(s)
      PROVE  LineInv'
  <2> DEFINE n == <<g>>
  <2>1. n \in Seq(Frame) /\ Len(n) = 1 /\ n[1] = g /\ stack'[w] = n \o Tail(s)
    BY <1>7
  <2> HIDE DEF n
  <2>2. stack'[w][1] = g
    <3>1. \A i \in 1 .. Len(n) : stack'[w][i] = n[i]
      BY <1>9, <2>1
    <3> QED BY <2>1, <3>1
  <2>3. Taken(w, 1)' = {}
    BY DEF Taken
  <2>4. /\ \A q \in g.todo : request[q].product = f.product /\ r < q
        /\ request[r].product = f.product
        /\ f.product \notin Gated =>
                \/ f.product \in InDebt
                \/ \A q \in Waits : request[q].product = f.product => q \in g.todo \cup {r}
    BY <1>5, <1>7
  <2>5. f.product \notin Gated => f.product \in InDebt \/ r \notin Waits
    BY <1>1, <1>7, <2>4 DEF MayAutoApprove, BlueprintReady, HasOpenDebt, OpenDebts, InDebt, Waits
  <2>6. LineAt(w, 1)'
    BY <1>3, <1>7, <2>2, <2>3, <2>4, <2>5 DEF LineAt
  <2>7. \A i \in 1 .. Len(n) : LineAt(w, i)'
    <3>1. \A i \in 1 .. Len(n) : i = 1
      BY <2>1
    <3> QED BY <2>6, <3>1
  <2> QED BY <1>0, <1>1, <1>7, <2>1, <2>7, LineMove
<1>8. \/ stack'[w] = <<>> \o Tail(s)
      \/ /\ f.product \notin Spent
         /\ \E r \in f.todo, g \in Frame :
              /\ \A q \in f.todo : r <= q
              /\ g.op = "fifo" /\ g.product = f.product /\ g.todo = f.todo \ {r}
              /\ \/ /\ MayAutoApprove(r)
                    /\ stack'[w] = <<InitCall(now), ChargeCall(r), g>> \o Tail(s)
                 \/ ~MayAutoApprove(r) /\ stack'[w] = <<g>> \o Tail(s)
  BY FifoMoves
<1> QED BY <1>4, <1>6, <1>7, <1>8

(* A charge serves who was taken from the line, or the balance is gone.        *)
LEMMA ChargeLine ==
    ASSUME TypeOK, DebtsAddUp, SerialInv, OrderInv, ChargeInv, LineInv,
           NEW w \in Workers, ChargeStep(w)
    PROVE  LineInv'
<1> DEFINE s == stack[w]
           t == stack'[w]
           c == s[1].req
<1>0. Step(w)
  BY DEF Step
<1>1. /\ s \in Seq(Frame) /\ s # <<>> /\ s[1] = Head(s) /\ s[1] \in Frame /\ s[1].op = "charge"
      /\ c \in ReqIds /\ \A v \in Workers : v # w => stack'[v] = <<>>
  BY <1>0, StepStacks, Running1, FrameFields DEF ChargeStep
<1>2. t = Tail(s)
  BY <1>1 DEF ChargeStep, Call, TypeOK
<1>3. /\ Len(s) \in Nat /\ t \in Seq(Frame) /\ Len(t) = Len(s) - 1
      /\ \A i \in 1 .. Len(t) : i + 1 \in 2 .. Len(s) /\ t[i] = s[i + 1]
  BY <1>1, <1>2
<1>4. /\ \A r \in ReqIds : request'[r].product = request[r].product
      /\ Waits' \subseteq Waits /\ InDebt' = InDebt
  BY <1>0, <1>1, StepRequests, StepDebts DEF Waits
<1>5. c \notin Waits' \/ (~HasBalance(bucket[request[c].product], now) /\ UNCHANGED <<bucket, now>>)
  <2>1. CASE StillDue(c)
    <3>1. request' = [request EXCEPT ![c].status = "approved", ![c].mode = "balance"]
      BY <1>1, <2>1 DEF ChargeStep, Approved
    <3>2. request[c] \in Request
      BY <1>1, <2>1, PendingTypes DEF StillDue
    <3>3. request'[c].status = "approved"
      BY <1>1, <3>1, <3>2 DEF TypeOK, Request
    <3> QED BY <3>3 DEF Waits
  <2>2. CASE ~StillDue(c)
    <3>1. UNCHANGED <<bucket, request, now>>
      BY <1>1, <2>2 DEF ChargeStep
    <3> QED BY <2>2, <3>1 DEF StillDue, Waits
  <2> QED BY <2>1, <2>2
<1>6. ASSUME NEW i \in 1 .. Len(t), t[i].op = "fifo"
      PROVE  LineAt(w, i)'
  <2> DEFINE k == i + 1
             p == t[i].product
  <2>1. k \in 2 .. Len(s) /\ t[i] = s[k] /\ t[i] \in Frame
    BY <1>3
  <2>2. LineAt(w, k)
    BY <1>3, <2>1 DEF LineInv
  <2>3. t[i].todo \subseteq ReqIds /\ p \in Products
    BY <1>6, <2>1, FrameFields
  <2>4. /\ \A r \in t[i].todo \cup Taken(w, k) : request[r].product = p
        /\ \A r \in t[i].todo : \A q \in Taken(w, k) : q < r
        /\ p \notin Gated =>
              \/ p \in InDebt
              \/ \A r \in Waits : request[r].product = p => r \in t[i].todo \cup Taken(w, k)
    BY <1>6, <2>1, <2>2 DEF LineAt
  <2>5. Waits' \subseteq ReqIds
    BY DEF Waits
  <2>6. CASE i = 1
    <3>1. Taken(w, k) = {c} /\ Taken(w, i)' = {}
      BY <1>1, <2>6 DEF Taken
    <3>2. request[c].product = p
      BY <2>4, <3>1
    <3>3. c \in Waits' => p \in Spent'
      BY <1>5, <2>3, <3>2 DEF Spent
    <3> QED BY <1>4, <2>3, <2>4, <2>5, <2>6, <3>1, <3>3 DEF LineAt
  <2>7. CASE i > 1
    <3>1. i - 1 \in 1 .. Len(t) /\ t[i-1] = s[i]
      BY <1>3, <2>7
    <3>2. Taken(w, i)' = Taken(w, k)
      BY <1>3, <2>7, <3>1 DEF Taken
    <3>3. Taken(w, k) \subseteq ReqIds
      <4>1. t[i-1] \in Frame
        BY <1>3, <3>1
      <4> QED BY <3>1, <4>1, FrameFields DEF Taken
    <3> QED BY <1>4, <2>3, <2>4, <2>5, <3>2, <3>3 DEF LineAt
  <2> QED BY <1>3, <2>6, <2>7
<1>7. \A v \in Workers : v # w => Len(stack'[v]) = 0
  BY <1>1
<1>8. ASSUME NEW v \in Workers, NEW i \in 1 .. Len(stack'[v])
      PROVE  LineAt(v, i)'
  <2>1. v = w
    BY <1>7, <1>8
  <2>2. LineAt(w, i)'
    BY <1>6, <1>8, <2>1 DEF LineAt
  <2> QED BY <2>1, <2>2
<1> QED BY <1>8 DEF LineInv

(* So every step leaves each pass its line.                                    *)
LEMMA StepLine ==
    ASSUME TypeOK, DebtsAddUp, SerialInv, OrderInv, ChargeInv, LineInv,
           NEW w \in Workers, Step(w)
    PROVE  LineInv'
<1>1. CASE FifoStep(w)
  BY <1>1, FifoLine
<1>2. CASE ChargeStep(w)
  BY <1>2, ChargeLine
<1>3. CASE ~FifoStep(w) /\ ~ChargeStep(w)
  <2>1. PICK new \in Seq(Frame) :
          /\ Calls(new) /\ stack'[w] = new \o Tail(stack[w])
          /\ stack[w] \in Seq(Frame) /\ stack[w] # <<>>
    BY <1>3, StepStacks
  <2>2. \E op \in {"settle", "close", "credit", "grant", "finish", "init", "authorize"} :
          Running(w, op)
    BY <1>3
    DEF Step, SettleStep, CloseStep, CreditStep, GrantStep, FinishStep, InitStep, AuthorizeStep
  <2>3. stack[w][1].op # "charge"
    BY <2>2, Running1
  <2>4. \A i \in 1 .. Len(new) : stack'[w][i] = new[i]
    BY <2>1, Pushed
  <2>5. \A i \in 1 .. Len(new) : LineAt(w, i)'
    BY <2>1, <2>4, CallsLine
  <2>6. Len(new) > 0 => new[Len(new)].op # "charge"
    BY <2>1 DEF Calls
  <2> QED BY <2>1, <2>3, <2>5, <2>6, LineMove
<1> QED BY <1>1, <1>2, <1>3

-----------------------------------------------------------------------------
(* The calls a handler makes: none, an initialization, one and a charge, the   *)
(* approval of an authorized session's requests, or those of a payment.        *)
Fresh(n) ==
    \/ Len(n) = 0
    \/ Len(n) = 1 /\ n[1].op \in {"init", "authorize"}
    \/ Len(n) = 2 /\ n[1].op = "init" /\ n[2].op = "charge"
    \/ /\ Len(n) = 3 /\ n[3].order \in Hotmart
       /\ n[1].op = "settle" /\ n[2].op = "credit" /\ n[3].op = "finish"
    \/ /\ Len(n) = 4 /\ n[2].order = n[4].order
       /\ n[1].op = "settle" /\ n[2].op = "close" /\ n[3].op = "credit" /\ n[4].op = "finish"

(* A worker begins with these calls while all others rest.                     *)
Begins(w, n) ==
    /\ \A v \in Workers : stack[v] = <<>>
    /\ \A v \in Workers : stack'[v] = IF v = w THEN n ELSE <<>>
    /\ n # <<>> => dirty' = w
    /\ \A i \in 1 .. Len(n) : n[i].op = "charge" => request'[n[i].req].product \notin InDebt'

(* The calls of a payment in a row.                                            *)
LEMMA PaymentCalls ==
    ASSUME NEW a \in Frame, NEW b \in Frame, NEW c \in Frame, NEW d \in Frame
    PROVE  /\ (<<a>> \o <<>>) \o <<c, d>> = <<a, c, d>>
           /\ (<<a>> \o <<b>>) \o <<c, d>> = <<a, b, c, d>>
<1>1. /\ <<a>> \in Seq(Frame) /\ <<b>> \in Seq(Frame) /\ <<a, b>> \in Seq(Frame)
      /\ <<c, d>> \in Seq(Frame) /\ <<a, c, d>> \in Seq(Frame) /\ <<a, b, c, d>> \in Seq(Frame)
  OBVIOUS
<1>2. <<a>> \o <<>> = <<a>>
  BY <1>1
<1>3. <<a>> \o <<b>> = <<a, b>>
  BY Joined
<1>4. <<a>> \o <<c, d>> = <<a, c, d>>
  <2> DEFINE s == <<a>> \o <<c, d>>
             t == <<a, c, d>>
  <2>1. s \in Seq(Frame) /\ Len(s) = 3
        /\ \A i \in 1 .. 3 : s[i] = IF i <= 1 THEN a ELSE <<c, d>>[i - 1]
    BY <1>1, ConcatProperties
  <2>2. t \in Seq(Frame) /\ Len(t) = 3 /\ t[1] = a /\ t[2] = c /\ t[3] = d
    BY <1>1
  <2> HIDE DEF s, t
  <2>3. \A i \in 1 .. Len(s) : s[i] = t[i]
    BY <2>1, <2>2
  <2>4. s = t
    BY <2>1, <2>2, <2>3, SeqEqual
  <2> QED BY <2>4 DEF s, t
<1>5. <<a, b>> \o <<c, d>> = <<a, b, c, d>>
  <2> DEFINE s == <<a, b>> \o <<c, d>>
             t == <<a, b, c, d>>
  <2>1. s \in Seq(Frame) /\ Len(s) = 4
        /\ \A i \in 1 .. 4 : s[i] = IF i <= 2 THEN <<a, b>>[i] ELSE <<c, d>>[i - 2]
    BY <1>1, ConcatProperties
  <2>2. t \in Seq(Frame) /\ Len(t) = 4 /\ t[1] = a /\ t[2] = b /\ t[3] = c /\ t[4] = d
    BY <1>1
  <2> HIDE DEF s, t
  <2>3. \A i \in 1 .. Len(s) : s[i] = t[i]
    BY <2>1, <2>2
  <2>4. s = t
    BY <2>1, <2>2, <2>3, SeqEqual
  <2> QED BY <2>4 DEF s, t
<1> QED BY <1>2, <1>3, <1>4, <1>5

(* A handler begins when everyone rests.                                       *)
LEMMA HandlerBegins ==
    ASSUME TypeOK, DebtsAddUp, SerialInv, NEW w \in Workers, Handler(w)
    PROVE  \E n \in Seq(Frame) : Fresh(n) /\ Begins(w, n)
<1> DEFINE Goal == \E n \in Seq(Frame) : Fresh(n) /\ Begins(w, n)
<1> SUFFICES Goal
  OBVIOUS
<1>1. Idle(w)
  BY DEF Handler, EditQuotaProduct, EditWorkspaceOverride, RequestAccess, ApproveManually,
         Dismiss, CloseAuthorized, SettleDebt, PaymentSuccess
<1>2. \A v \in Workers : stack[v] = <<>>
  BY <1>1, QuotaConstants DEF Idle, SerialInv
<1>3. ASSUME NEW n \in Seq(Frame), n # <<>>, Fresh(n), Call(w, n),
             \A i \in 1 .. Len(n) : n[i].op = "charge" => request'[n[i].req].product \notin InDebt'
      PROVE  Goal
  <2>1. stack' = [stack EXCEPT ![w] = n] /\ dirty' = w
    BY <1>3 DEF Call
  <2>2. \A v \in Workers : stack'[v] = IF v = w THEN n ELSE <<>>
    BY <1>2, <2>1 DEF TypeOK
  <2> QED BY <1>2, <1>3, <2>1, <2>2 DEF Begins
<1>4. ASSUME UNCHANGED stack \/ Call(w, <<>>)
      PROVE  Goal
  <2> DEFINE n == <<>>
  <2>1. n \in Seq(Frame) /\ Len(n) = 0
    OBVIOUS
  <2>2. \A v \in Workers : stack'[v] = IF v = w THEN n ELSE <<>>
    BY <1>2, <1>4 DEF Call, TypeOK
  <2>3. n = <<>>
    OBVIOUS
  <2> HIDE DEF n
  <2>4. Fresh(n)
    BY <2>1 DEF Fresh
  <2>5. Begins(w, n)
    BY <1>2, <2>1, <2>2, <2>3 DEF Begins
  <2> QED BY <2>1, <2>4, <2>5
<1> HIDE DEF Goal
<1>5. ASSUME NEW p \in Products, NEW c \in Configs, EditQuotaProduct(w, p, c)
      PROVE  Goal
  <2> DEFINE a == [op |-> "init", todo |-> {p}, at |-> now]
  <2>1. a \in Frame /\ a.op = "init"
    BY DEF TypeOK, Frame
  <2>2. Call(w, <<a>>)
    BY <1>5 DEF EditQuotaProduct
  <2> HIDE DEF a
  <2>3. <<a>> \in Seq(Frame) /\ Len(<<a>>) = 1 /\ <<a>>[1] = a /\ <<a>> # <<>>
    BY <2>1
  <2>4. Fresh(<<a>>)
    BY <2>1, <2>3 DEF Fresh
  <2>5. \A i \in 1 .. Len(<<a>>) : <<a>>[i].op # "charge"
    BY <2>1, <2>3
  <2> QED BY <1>3, <2>2, <2>3, <2>4, <2>5
<1>6. ASSUME NEW s \in Sessions, NEW a \in Askers, NEW p \in Products, RequestAccess(w, s, a, p)
      PROVE  Goal
  <2>1. PICK r \in ReqIds :
          /\ ~Exists(r)
          /\ request' = [request EXCEPT ![r] =
                [status |-> "pending", product |-> p, session |-> s,
                 asker |-> a, mode |-> "none"]]
          /\ Call(w, IF HasOpenDebt(p) THEN <<>> ELSE <<InitCall(now), ChargeCall(r)>>)
    <3>1. \A r \in ReqIds : ~(r < r)
      BY QuotaConstants DEF ReqIds
    <3> QED BY <1>6, <3>1 DEF RequestAccess
  <2>2. CASE HasOpenDebt(p)
    BY <1>4, <2>1, <2>2
  <2>3. CASE ~HasOpenDebt(p)
    <3> DEFINE i == InitCall(now)
               c == ChargeCall(r)
               n == <<i, c>>
    <3>1. i \in Frame /\ c \in Frame /\ i.op = "init" /\ c.op = "charge" /\ c.req = r
      BY FrameTypes DEF TypeOK, InitCall, ChargeCall
    <3>2. Call(w, n)
      BY <2>1, <2>3
    <3> HIDE DEF i, c
    <3>3. n \in Seq(Frame) /\ Len(n) = 2 /\ n[1] = i /\ n[2] = c /\ n # <<>>
      BY <3>1
    <3> HIDE DEF n
    <3>4. Fresh(n)
      BY <3>1, <3>3 DEF Fresh
    <3>5. request'[r].product = p /\ \A q \in ReqIds \ {r} : request'[q] = request[q]
      BY <2>1 DEF TypeOK
    <3>6. UNCHANGED debt
      BY <1>6 DEF RequestAccess
    <3>7. debt[r].status = "none"
      <4>1. request[r] = NoRequest
        BY <2>1 DEF Exists, TypeOK, Request, Decided
      <4> QED BY <4>1 DEF NoRequest, DebtsAddUp
    <3>8. p \notin InDebt'
      <4>1. \A q \in ReqIds : debt'[q].status = "open" => request'[q].product # p
        BY <2>3, <3>5, <3>6, <3>7 DEF HasOpenDebt, OpenDebts
      <4> QED BY <4>1 DEF InDebt
    <3>9. \A j \in 1 .. Len(n) : n[j].op = "charge" => request'[n[j].req].product \notin InDebt'
      BY <3>1, <3>3, <3>5, <3>8
    <3> QED BY <1>3, <3>2, <3>3, <3>4, <3>9
  <2> QED BY <2>2, <2>3
<1>7. ASSUME NEW o \in Orders, PaymentSuccess(w, o)
      PROVE  Goal
  <2> DEFINE at == IF paid[o] = -1 THEN now ELSE paid[o]
             a == [op |-> "settle", order |-> o, left |-> OrderAmount[o]]
             b == [op |-> "close", order |-> o]
             c == [op |-> "credit", order |-> o, at |-> at,
                   todo |-> {p \in Products : OrderUnits[o][p] > 0}]
             d == [op |-> "finish", order |-> o]
  <2>1. /\ a \in Frame /\ b \in Frame /\ c \in Frame /\ d \in Frame
        /\ a.op = "settle" /\ b.op = "close" /\ c.op = "credit" /\ d.op = "finish"
        /\ b.order = o /\ d.order = o
    <3>1. OrderAmount[o] \in Nat /\ at \in Times
      BY QuotaConstants DEF TypeOK
    <3>2. {p \in Products : OrderUnits[o][p] > 0} \in SUBSET Products
      OBVIOUS
    <3> HIDE DEF at
    <3> QED BY <3>1, <3>2, FrameTypes
  <2>2. Call(w, <<a>> \o (IF o \in Hotmart THEN <<>> ELSE <<b>>) \o <<c, d>>)
    BY <1>7 DEF PaymentSuccess
  <2> HIDE DEF a, b, c, d
  <2>3. CASE o \in Hotmart
    <3> DEFINE n == <<a, c, d>>
    <3>1. Call(w, n)
      <4>1. (<<a>> \o <<>>) \o <<c, d>> = n
        BY <2>1, PaymentCalls
      <4> QED BY <2>2, <2>3, <4>1
    <3>2. n \in Seq(Frame) /\ Len(n) = 3 /\ n[1] = a /\ n[2] = c /\ n[3] = d /\ n # <<>>
      BY <2>1
    <3> HIDE DEF n
    <3>3. Fresh(n)
      BY <2>1, <2>3, <3>2 DEF Fresh
    <3>4. \A i \in 1 .. Len(n) : n[i].op # "charge"
      BY <2>1, <3>2
    <3> QED BY <1>3, <3>1, <3>2, <3>3, <3>4
  <2>4. CASE o \notin Hotmart
    <3> DEFINE n == <<a, b, c, d>>
    <3>1. Call(w, n)
      <4>1. (<<a>> \o <<b>>) \o <<c, d>> = n
        BY <2>1, PaymentCalls
      <4> QED BY <2>2, <2>4, <4>1
    <3>2. /\ n \in Seq(Frame) /\ Len(n) = 4 /\ n # <<>>
          /\ n[1] = a /\ n[2] = b /\ n[3] = c /\ n[4] = d
      BY <2>1
    <3> HIDE DEF n
    <3>3. Fresh(n)
      BY <2>1, <3>2 DEF Fresh
    <3>4. \A i \in 1 .. Len(n) : n[i].op # "charge"
      BY <2>1, <3>2
    <3> QED BY <1>3, <3>1, <3>2, <3>3, <3>4
  <2> QED BY <2>3, <2>4
<1>8. ASSUME UNCHANGED stack
      PROVE  Goal
  BY <1>4, <1>8
<1>9. ASSUME NEW s \in Sessions, CloseAuthorized(w, s)
      PROVE  Goal
  <2>1. PICK closable \in SUBSET ReqIds : Call(w, <<AuthorizeCall(closable)>>)
    BY <1>9 DEF CloseAuthorized
  <2> DEFINE a == AuthorizeCall(closable)
             n == <<a>>
  <2>2. a \in Frame /\ a.op = "authorize"
    BY FrameTypes DEF AuthorizeCall
  <2> HIDE DEF a
  <2>3. n \in Seq(Frame) /\ Len(n) = 1 /\ n[1] = a /\ n # <<>>
    BY <2>2
  <2>4. Call(w, n)
    BY <2>1 DEF a
  <2> HIDE DEF n
  <2>5. Fresh(n) /\ \A i \in 1 .. Len(n) : n[i].op # "charge"
    BY <2>2, <2>3 DEF Fresh
  <2> QED BY <1>3, <2>3, <2>4, <2>5
<1> QED
  BY <1>5, <1>6, <1>7, <1>8, <1>9
  DEF Handler, EditWorkspaceOverride, ApproveManually, Dismiss, SettleDebt

(* Such a start keeps everything.                                              *)
LEMMA Started ==
    ASSUME NEW w \in Workers, NEW n \in Seq(Frame), Fresh(n), Begins(w, n)
    PROVE  SerialInv' /\ OrderInv' /\ PayInv' /\ ChargeInv' /\ LineInv'
<1>1. /\ \A v \in Workers : v # w => stack'[v] = <<>> /\ Len(stack'[v]) = 0
      /\ stack'[w] = n /\ Len(n) \in 0 .. 4
  BY DEF Begins, Fresh
<1>2. SerialInv'
  BY <1>1 DEF SerialInv, Begins
<1>3. OrderInv'
  <2>1. Ordered(n)
    BY DEF Fresh, Ordered
  <2>2. \A v \in Workers : v # w => Ordered(stack'[v])
    BY <1>1 DEF Ordered
  <2> QED BY <1>1, <2>1, <2>2 DEF OrderInv
<1>4. PayInv'
  <2>1. \A i \in 1 .. Len(n) : n[i].op = "finish" /\ n[i].order \notin Hotmart =>
           \E j \in 1 .. Len(n) : n[j].op = "close" /\ n[j].order = n[i].order
    BY DEF Fresh
  <2> QED BY <1>1, <2>1 DEF PayInv
<1>5. ChargeInv'
  BY <1>1 DEF ChargeInv, Begins
<1>6. LineInv'
  <2>1. \A i \in 1 .. Len(n) : n[i].op # "fifo"
    BY DEF Fresh
  <2> QED BY <1>1, <2>1 DEF LineInv, LineAt
<1> QED BY <1>2, <1>3, <1>4, <1>5, <1>6

(* So does what touches neither requests nor debts, and lets threads be or     *)
(* ends them.                                                                  *)
LEMMA Untouched ==
    ASSUME UNCHANGED <<request, debt, dirty>>,
           \A v \in Workers : stack'[v] \in {stack[v], <<>>}
    PROVE  /\ SerialInv => SerialInv'
           /\ OrderInv => OrderInv'
           /\ PayInv => PayInv'
           /\ ChargeInv => ChargeInv'
           /\ LineInv /\ UNCHANGED <<bucket, now>> => LineInv'
           /\ (\A v \in Workers : stack[v] = <<>>) => LineInv'
<1>0. \A v \in Workers : stack'[v] # stack[v] => stack'[v] = <<>> /\ Len(stack'[v]) = 0
  OBVIOUS
<1>1. SerialInv => SerialInv'
  BY DEF SerialInv
<1>2. OrderInv => OrderInv'
  <2>1. Ordered(<<>>)
    BY DEF Ordered
  <2> QED BY <2>1 DEF OrderInv
<1>3. PayInv => PayInv'
  BY <1>0 DEF PayInv
<1>4. ChargeInv => ChargeInv'
  <2>1. InDebt' = InDebt
    BY DEF InDebt
  <2> QED BY <1>0, <2>1 DEF ChargeInv
<1>5. ASSUME LineInv, UNCHANGED <<bucket, now>>
      PROVE  LineInv'
  <2>1. InDebt' = InDebt /\ Waits' = Waits /\ Spent' = Spent
    BY <1>5 DEF InDebt, Waits, Spent
  <2>2. ASSUME NEW v \in Workers, NEW i \in 1 .. Len(stack'[v])
        PROVE  LineAt(v, i)'
    <3>1. stack'[v] = stack[v]
      BY <1>0, <2>2
    <3>2. LineAt(v, i)
      BY <1>5, <3>1 DEF LineInv
    <3>3. Taken(v, i)' = Taken(v, i)
      BY <3>1 DEF Taken
    <3> QED BY <2>1, <3>1, <3>2, <3>3 DEF LineAt
  <2> QED BY <2>2 DEF LineInv
<1>6. ASSUME \A v \in Workers : stack[v] = <<>>
      PROVE  LineInv'
  BY <1>6 DEF LineInv
<1> QED BY <1>1, <1>2, <1>3, <1>4, <1>5, <1>6

-----------------------------------------------------------------------------
(* Nobody has called anything in the initial state.                            *)
LEMMA PassesInit == Init => LInv
<1> SUFFICES ASSUME Init PROVE LInv
  OBVIOUS
<1>1. IInv
  BY IInvInit
<1>2. \A w \in Workers : stack[w] = <<>> /\ Len(stack[w]) = 0
  BY DEF Init
<1>3. SerialInv /\ PayInv /\ ChargeInv /\ LineInv
  BY <1>2 DEF SerialInv, PayInv, ChargeInv, LineInv
<1>4. OrderInv
  BY <1>2 DEF OrderInv, Ordered
<1> QED BY <1>1, <1>3, <1>4 DEF PInv, LInv

(* Every transition keeps what holds of the stacks; the lines of the passes    *)
(* also, when time does not pass meanwhile.                                    *)
LEMMA PassesNext ==
    ASSUME OneThread, PInv, [Next]_vars
    PROVE  PInv' /\ (LineInv /\ Between => LineInv')
<1> USE DEF PInv
<1>0. TypeOK /\ DebtsAddUp /\ IInv'
  BY IInvNext DEF IInv
<1>1. ASSUME NEW w \in Workers, Handler(w)
      PROVE  PInv' /\ LineInv'
  <2>1. PICK n \in Seq(Frame) : Fresh(n) /\ Begins(w, n)
    BY <1>0, <1>1, HandlerBegins
  <2> QED BY <1>0, <2>1, Started
<1>2. ASSUME NEW w \in Workers, Step(w)
      PROVE  PInv' /\ (LineInv => LineInv')
  BY <1>0, <1>2, StepSerial, StepOrder, StepPay, StepCharge, StepLine
<1>3. ASSUME NEW w \in Workers, Crash(w)
      PROVE  PInv' /\ (LineInv => LineInv')
  <2>1. UNCHANGED <<request, debt, dirty, bucket, now>>
    BY <1>3 DEF Crash, db
  <2>2. \A v \in Workers : stack'[v] \in {stack[v], <<>>}
    BY <1>0, <1>3 DEF Crash, TypeOK
  <2> QED BY <1>0, <2>1, <2>2, Untouched
<1>4. CASE Tick
  <2>1. UNCHANGED <<request, debt, dirty, stack>> /\ now' # now
    BY <1>0, <1>4, QuotaConstants DEF Tick, db, TypeOK, Times
  <2>2. \A v \in Workers : stack'[v] \in {stack[v], <<>>}
    BY <2>1
  <2> QED BY <1>0, <2>1, <2>2, Untouched DEF Between
<1>5. CASE UNCHANGED vars \/ \E s \in Sessions : BlueprintFree(s)
  <2>1. UNCHANGED <<request, debt, dirty, stack, bucket, now>>
    BY <1>5 DEF BlueprintFree, db, vars
  <2>2. \A v \in Workers : stack'[v] \in {stack[v], <<>>}
    BY <2>1
  <2> QED BY <1>0, <2>1, <2>2, Untouched
<1> QED BY <1>1, <1>2, <1>3, <1>4, <1>5 DEF Next

(* So it holds in every state, and the lines in every state of a behaviour in  *)
(* which time passes between handlers only.                                    *)
LEMMA Passes ==
    OneThread => /\ Spec => []PInv
                 /\ Spec /\ ClockStands => []LInv
<1> SUFFICES ASSUME OneThread
             PROVE  /\ Spec => []PInv
                    /\ Spec /\ ClockStands => []LInv
  OBVIOUS
<1>1. Init => PInv /\ LInv
  BY PassesInit DEF LInv
<1>2. PInv /\ [Next]_vars => PInv'
  BY PassesNext
<1>3. LInv /\ [Next]_vars /\ [Between]_vars => LInv'
  <2>1. UNCHANGED vars => Between
    BY DEF vars, Between
  <2> QED BY <2>1, PassesNext DEF LInv
<1> QED BY <1>1, <1>2, <1>3, PTL DEF Spec, ClockStands

-----------------------------------------------------------------------------
(* Only a charge lets the balance approve a request.                           *)
LEMMA ChargedOnly ==
    ASSUME TypeOK, [Next]_vars, NEW r \in ReqIds,
           request[r].mode = "none", request'[r].mode = "balance"
    PROVE  \E w \in Workers : /\ ChargeStep(w) /\ StillDue(r)
                              /\ stack[w] # <<>> /\ 1 \in 1 .. Len(stack[w])
                              /\ stack[w][1] = Head(stack[w])
                              /\ stack[w][1].op = "charge" /\ stack[w][1].req = r
<1> DEFINE Goal == \E w \in Workers : /\ ChargeStep(w) /\ StillDue(r)
                                      /\ stack[w] # <<>> /\ 1 \in 1 .. Len(stack[w])
                                      /\ stack[w][1] = Head(stack[w])
                                      /\ stack[w][1].op = "charge" /\ stack[w][1].req = r
<1> SUFFICES Goal
  OBVIOUS
<1>0. request[r] \in Request \cup {NoRequest} /\ request'[r] # request[r]
  BY DEF TypeOK
<1>1. CASE UNCHANGED request
  BY <1>0, <1>1
<1>2. ASSUME NEW S \in SUBSET ReqIds, NEW m \in Modes \ {"balance"},
             \A q \in S : request[q].status = "pending",
             request' = [q \in ReqIds |->
                IF q \in S THEN [request[q] EXCEPT !.status = "approved", !.mode = m]
                ELSE request[q]]
      PROVE  FALSE
  <2>1. CASE r \in S
    <3>1. request[r] \in Request
      BY <1>2, <2>1, PendingTypes
    <3> QED BY <1>2, <2>1, <3>1 DEF Request
  <2> QED BY <1>0, <1>2, <2>1
<1>3. ASSUME NEW q \in ReqIds, NEW m \in Modes, request' = Approved(q, m)
      PROVE  q = r /\ m = "balance"
  <2>1. request[q] \in Request \cup {NoRequest}
    BY DEF TypeOK
  <2>2. request' = [request EXCEPT ![q].status = "approved", ![q].mode = m]
    BY <1>3 DEF Approved
  <2>3. q = r
    BY <1>0, <2>2 DEF TypeOK
  <2>4. request'[q].mode = m
    BY <2>1, <2>2 DEF TypeOK, Request, NoRequest
  <2> QED BY <2>3, <2>4
<1>4. ASSUME NEW w \in Workers, Handler(w)
      PROVE  Goal
  <2>1. ASSUME NEW s \in Sessions, NEW a \in Askers, NEW p \in Products, RequestAccess(w, s, a, p)
        PROVE  FALSE
    <3>1. PICK q \in ReqIds :
            request' = [request EXCEPT ![q] =
                [status |-> "pending", product |-> p, session |-> s,
                 asker |-> a, mode |-> "none"]]
      BY <2>1 DEF RequestAccess
    <3> QED BY <1>0, <3>1 DEF TypeOK
  <2>2. ASSUME NEW q \in ReqIds, NEW m \in {"override", "courtesy", "manual", "debt"},
               ApproveManually(w, q, m)
        PROVE  FALSE
    BY <1>3, <2>2 DEF ApproveManually, Modes
  <2>3. ASSUME NEW q \in ReqIds, NEW d \in {"rejected", "canceled"}, Dismiss(w, q, d)
        PROVE  FALSE
    <3>1. request[q] \in Request /\ request' = [request EXCEPT ![q].status = d]
      BY <2>3, PendingTypes DEF Dismiss
    <3>2. q = r
      BY <1>0, <3>1 DEF TypeOK
    <3>3. request'[q].mode = request[q].mode
      BY <3>1 DEF TypeOK, Request
    <3> QED BY <3>2, <3>3
  <2>4. CASE \/ \E p \in Products, c \in Configs : \/ EditQuotaProduct(w, p, c)
                                                   \/ EditWorkspaceOverride(w, p, c)
             \/ \E q \in ReqIds, c \in Amounts : SettleDebt(w, q, c)
             \/ \E s \in Sessions : CloseAuthorized(w, s)
             \/ \E o \in Orders : PaymentSuccess(w, o)
    BY <1>1, <2>4
    DEF EditQuotaProduct, EditWorkspaceOverride, SettleDebt, CloseAuthorized, PaymentSuccess, db
  <2> QED BY <1>4, <2>1, <2>2, <2>3, <2>4 DEF Handler
<1>5. ASSUME NEW w \in Workers, Step(w)
      PROVE  Goal
  <2>1. CASE SettleStep(w) \/ CreditStep(w) \/ GrantStep(w) \/ FinishStep(w) \/ InitStep(w) \/ FifoStep(w)
    BY <1>1, <2>1 DEF SettleStep, CreditStep, GrantStep, FinishStep, InitStep, FifoStep, db
  <2>2. CASE CloseStep(w)
    <3> DEFINE o == Head(stack[w]).order
    <3>1. request' = [q \in ReqIds |->
            IF q \in PaidFor(o)
              THEN [request[q] EXCEPT !.status = "approved", !.mode = "payment"]
              ELSE request[q]]
      BY <2>2 DEF CloseStep
    <3>2. PaidFor(o) \in SUBSET ReqIds /\ \A q \in PaidFor(o) : request[q].status = "pending"
      BY DEF PaidFor
    <3> HIDE DEF o
    <3> QED BY <1>2, <3>1, <3>2 DEF Modes
  <2>3. CASE ChargeStep(w)
    <3> DEFINE q == Head(stack[w]).req
    <3>1. /\ stack[w] # <<>> /\ 1 \in 1 .. Len(stack[w]) /\ stack[w][1] = Head(stack[w])
          /\ stack[w][1].op = "charge" /\ Head(stack[w]) \in Frame
      BY <2>3, Running1 DEF ChargeStep
    <3>2. q \in ReqIds
      BY <3>1, FrameFields
    <3>3. CASE ~StillDue(q)
      BY <1>1, <2>3, <3>3 DEF ChargeStep
    <3>4. CASE StillDue(q)
      <4>1. request' = Approved(q, "balance") /\ request[q].status = "pending"
        BY <2>3, <3>4 DEF ChargeStep, StillDue
      <4>2. q = r
        BY <1>3, <3>2, <4>1 DEF Modes
      <4> QED BY <2>3, <3>1, <3>4, <4>2
    <3> QED BY <3>3, <3>4
  <2>4. CASE AuthorizeStep(w)
    <3>1. Head(stack[w]) \in Frame /\ Head(stack[w]).op = "authorize"
      BY <2>4, Running1 DEF AuthorizeStep
    <3>2. Oldest(Head(stack[w]).todo) \subseteq ReqIds
      BY <3>1, FrameFields DEF Oldest
    <3>3. UNCHANGED request \/ \E q \in ReqIds : request' = Approved(q, "authorized")
      BY <2>4, <3>2 DEF AuthorizeStep
    <3> QED BY <1>1, <1>3, <3>3 DEF Modes
  <2> QED BY <1>5, <2>1, <2>2, <2>3, <2>4 DEF Step
<1>6. CASE Tick \/ UNCHANGED vars \/ (\E s \in Sessions : BlueprintFree(s)) \/ \E w \in Workers : Crash(w)
  BY <1>1, <1>6 DEF Tick, BlueprintFree, Crash, db, vars
<1> HIDE DEF Goal
<1> QED BY <1>4, <1>5, <1>6 DEF Next

(* A session is not charged a unit for what an order is just paying: the order *)
(* closes its requests before anything it calls can start a pass over them.    *)
THEOREM PaidSessionNotChargedHolds == OneThread => (Spec => PaidSessionNotCharged)
<1> SUFFICES ASSUME OneThread PROVE Spec => PaidSessionNotCharged
  OBVIOUS
<1> DEFINE Spared == \A w \in Workers, r \in ReqIds, o \in Orders \ Hotmart :
        /\ request[r].mode = "none" /\ request'[r].mode = "balance"
        /\ \E i \in 1..Len(stack[w]) : /\ stack[w][i].op = "finish"
                                       /\ stack[w][i].order = o
        => <<request[r].session, request[r].product>>
              # <<OrderSession[o], OrderProduct[o]>>
<1>1. PInv /\ [Next]_vars => [Spared]_vars
  <2> SUFFICES ASSUME PInv, [Next]_vars, NEW w \in Workers, NEW r \in ReqIds,
                      NEW o \in Orders \ Hotmart,
                      request[r].mode = "none", request'[r].mode = "balance",
                      NEW i \in 1 .. Len(stack[w]),
                      stack[w][i].op = "finish", stack[w][i].order = o
               PROVE  ~(/\ request[r].session = OrderSession[o]
                        /\ request[r].product = OrderProduct[o])
    OBVIOUS
  <2>1. TypeOK /\ SerialInv /\ OrderInv /\ PayInv
    BY DEF PInv, IInv
  <2>2. PICK v \in Workers : /\ StillDue(r) /\ stack[v] # <<>> /\ 1 \in 1 .. Len(stack[v])
                             /\ stack[v][1].op = "charge"
    BY <2>1, ChargedOnly
  <2>3. v = w
    <3>1. stack[w] # <<>>
      <4>1. Len(<<>>) = 0
        OBVIOUS
      <4> QED BY <4>1
    <3> QED BY <2>1, <2>2, <3>1 DEF SerialInv
  <2>4. \A j \in 1 .. Len(stack[w]) : stack[w][j].op # "close"
    BY <2>1, <2>2, <2>3 DEF OrderInv, Ordered
  <2>5. \A q \in ReqIds : ~(/\ request[q].status = "pending"
                            /\ request[q].session = OrderSession[o]
                            /\ request[q].product = OrderProduct[o])
    BY <2>1, <2>4 DEF PayInv
  <2> QED BY <2>2, <2>5 DEF StillDue
<1> QED BY <1>1, Passes, PTL DEF Spec, PaidSessionNotCharged

(* First come, first served: a pass charges the oldest request of its line,    *)
(* and nobody older waits, as long as one thread serves the requests and no    *)
(* unit expires in the middle of the pass.                                     *)
THEOREM PassIsFifoHolds == OneThread => (Spec /\ ClockStands => PassIsFifo)
<1> SUFFICES ASSUME OneThread PROVE Spec /\ ClockStands => PassIsFifo
  OBVIOUS
<1> DEFINE Served == \A w \in Workers, r \in ReqIds :
        ChargedInPass(w, r) /\ request[r].product \notin Gated =>
            \A q \in Pending(request[r].product) : r <= q
<1>1. LInv /\ [Next]_vars => [Served]_vars
  <2> SUFFICES ASSUME LInv, NEW w \in Workers, NEW r \in ReqIds,
                      ChargedInPass(w, r), request[r].product \notin Gated,
                      NEW q \in Pending(request[r].product)
               PROVE  r <= q
    OBVIOUS
  <2>1. TypeOK /\ OrderInv /\ ChargeInv /\ LineInv
    BY DEF LInv, PInv, IInv
  <2>2. /\ 1 \in 1 .. Len(stack[w]) /\ 2 \in 1 .. Len(stack[w])
        /\ stack[w][1].op = "charge" /\ stack[w][1].req = r /\ stack[w][2].op = "fifo"
    BY <2>1, Running1 DEF ChargedInPass
  <2>3. Taken(w, 2) = {r}
    BY <2>2 DEF Taken
  <2>4. request[r].product \notin InDebt
    BY <2>1, <2>2 DEF ChargeInv
  <2>5. LineAt(w, 2)
    BY <2>1, <2>2 DEF LineInv
  <2>6. q \in ReqIds /\ q \in Waits /\ request[q].product = request[r].product
    BY DEF Pending, Waits
  <2>7. q \in stack[w][2].todo \cup {r}
    BY <2>2, <2>3, <2>4, <2>5, <2>6 DEF LineAt
  <2>8. q \in stack[w][2].todo => r < q
    BY <2>2, <2>3, <2>5 DEF LineAt
  <2>9. r \in Nat /\ q \in Nat
    BY <2>6, QuotaConstants DEF ReqIds
  <2>10. r < q \/ r = q
    BY <2>7, <2>8
  <2> QED BY <2>9, <2>10
<1> QED BY <1>1, Passes, PTL DEF Spec, PassIsFifo

(* A pass ends with the balance gone or nobody in line whom it may approve,    *)
(* under the same conditions.                                                  *)
THEOREM PassDrainsLineHolds == OneThread => (Spec /\ ClockStands => PassDrainsLine)
<1> SUFFICES ASSUME OneThread PROVE Spec /\ ClockStands => PassDrainsLine
  OBVIOUS
<1> DEFINE Drained == \A w \in Workers :
        LET f == Head(stack[w]) IN
        /\ Running(w, "fifo") /\ stack'[w] = Tail(stack[w])
        /\ f.product \notin Gated
        => \/ ~HasBalance(bucket[f.product], now)
           \/ \A r \in Pending(f.product) : ~MayAutoApprove(r)
<1>1. LInv /\ [Next]_vars => [Drained]_vars
  <2> SUFFICES ASSUME LInv, [Next]_vars, NEW w \in Workers,
                      Running(w, "fifo"), stack'[w] = Tail(stack[w]),
                      Head(stack[w]).product \notin Gated
               PROVE  \/ ~HasBalance(bucket[Head(stack[w]).product], now)
                      \/ \A r \in Pending(Head(stack[w]).product) : ~MayAutoApprove(r)
    OBVIOUS
  <2> DEFINE s == stack[w]
             f == s[1]
  <2>1. TypeOK /\ DebtsAddUp /\ SerialInv /\ OrderInv /\ LineInv
    BY DEF LInv, PInv, IInv
  <2>2. /\ s \in Seq(Frame) /\ s # <<>> /\ f = Head(s) /\ f \in Frame /\ f.op = "fifo"
        /\ 1 \in 1 .. Len(s) /\ Len(s) \in Nat
    BY <2>1, Running1
  <2>3. Len(stack'[w]) = Len(s) - 1 /\ Len(s) > 1
    BY <2>1, <2>2 DEF OrderInv, Ordered
  <2>4. FifoStep(w)
    <3>1. stack'[w] # s /\ stack'[w] # <<>>
      <4>1. \A n \in Nat : n > 1 => n - 1 # n /\ n - 1 # 0
        OBVIOUS
      <4>4. Len(<<>>) = 0
        OBVIOUS
      <4>2. ASSUME stack'[w] = s PROVE FALSE
        BY <2>2, <2>3, <4>1, <4>2
      <4>3. ASSUME stack'[w] = <<>> PROVE FALSE
        BY <2>2, <2>3, <4>1, <4>3, <4>4
      <4> QED BY <4>2, <4>3
    <3>2. ASSUME NEW v \in Workers, Handler(v)
          PROVE  FALSE
      <4>1. \A u \in Workers : stack[u] = <<>>
        BY <2>1, <3>2, HandlerBegins DEF Begins
      <4> QED BY <2>2, <4>1
    <3>3. ASSUME NEW v \in Workers, Crash(v)
          PROVE  FALSE
      BY <2>1, <3>1, <3>3 DEF Crash, TypeOK
    <3>4. ASSUME NEW v \in Workers, Step(v)
          PROVE  FifoStep(w)
      <4>1. v = w
        BY <2>1, <2>2, <3>4, StepStacks
      <4>2. \A op : Running(w, op) => op = "fifo"
        BY <2>1, <2>2, Running1
      <4> QED
        BY <3>4, <4>1, <4>2
        DEF Step, SettleStep, CloseStep, CreditStep, GrantStep, FinishStep, InitStep, ChargeStep,
            AuthorizeStep
    <3>5. ~Tick /\ ~(UNCHANGED vars) /\ \A x \in Sessions : ~BlueprintFree(x)
      BY <3>1 DEF Tick, BlueprintFree, vars
    <3> QED BY <3>2, <3>3, <3>4, <3>5 DEF Next
  <2>5. /\ f.product \in Products
        /\ f.todo = {} \/ f.product \in Spent
    <3>1. ASSUME NEW n \in Seq(Frame), stack'[w] = n \o Tail(s)
          PROVE  Len(n) = 0
      <4>1. s \in Seq(Frame) /\ s # <<>>
        BY <2>2
      <4>2. Len(stack'[w]) = Len(n) + Len(s) - 1
        BY <3>1, <4>1, Pushed
      <4>3. Len(n) \in Nat /\ Len(s) \in Nat
        BY <2>2
      <4> QED BY <2>3, <4>2, <4>3
    <3>2. ASSUME NEW r \in ReqIds, NEW g \in Frame,
                 \/ stack'[w] = <<InitCall(now), ChargeCall(r), g>> \o Tail(s)
                 \/ stack'[w] = <<g>> \o Tail(s)
          PROVE  FALSE
      <4> DEFINE m == <<InitCall(now), ChargeCall(r), g>>
                 n == <<g>>
      <4>1. InitCall(now) \in Frame /\ ChargeCall(r) \in Frame
        BY <2>1, FrameTypes DEF TypeOK
      <4>2. m \in Seq(Frame) /\ Len(m) = 3 /\ n \in Seq(Frame) /\ Len(n) = 1
        BY <4>1
      <4>3. stack'[w] = m \o Tail(s) \/ stack'[w] = n \o Tail(s)
        BY <3>2
      <4> HIDE DEF m, n
      <4>4. ASSUME stack'[w] = m \o Tail(s)
            PROVE  FALSE
        <5>1. Len(m) = 0
          BY <3>1, <4>2, <4>4
        <5> QED BY <4>2, <5>1
      <4>5. ASSUME stack'[w] = n \o Tail(s)
            PROVE  FALSE
        <5>1. Len(n) = 0
          BY <3>1, <4>2, <4>5
        <5> QED BY <4>2, <5>1
      <4> QED BY <4>3, <4>4, <4>5
    <3>3. /\ f.product \in Products /\ f.todo \subseteq ReqIds
          /\ \/ f.todo = {} \/ f.product \in Spent
             \/ \E r \in f.todo, g \in Frame :
                   \/ stack'[w] = <<InitCall(now), ChargeCall(r), g>> \o Tail(s)
                   \/ stack'[w] = <<g>> \o Tail(s)
      BY <2>1, <2>4, FifoMoves
    <3> QED BY <3>2, <3>3
  <2>6. Taken(w, 1) = {} /\ LineAt(w, 1)
    BY <2>1, <2>2 DEF Taken, LineInv
  <2>7. f.product \in Spent => ~HasBalance(bucket[f.product], now)
    BY DEF Spent
  <2>8. f.product \in InDebt => HasOpenDebt(f.product)
    BY DEF InDebt, HasOpenDebt, OpenDebts
  <2>9. CASE f.product \in InDebt
    BY <2>2, <2>8, <2>9 DEF MayAutoApprove, Pending
  <2>10. CASE f.product \notin InDebt /\ f.product \notin Spent
    <3>1. \A r \in Waits : request[r].product # f.product
      BY <2>2, <2>5, <2>6, <2>10 DEF LineAt
    <3> QED BY <2>2, <3>1 DEF Waits, Pending
  <2> QED BY <2>2, <2>7, <2>9, <2>10
<1> QED BY <1>1, Passes, PTL DEF Spec, PassDrainsLine

-----------------------------------------------------------------------------
(* Every period of a subscription ends: its order has a validity, and the      *)
(* periods stacked after each other stay within the calendar.                  *)
PeriodsEnd == \A p \in Products, o \in Orders :
    bucket[p][o].live /\ KindOf[o] = "subscription" => bucket[p][o].ends # Never

(* Initializing the quota and consuming units move no period of an order.      *)
LEMMA PeriodsStay ==
    ASSUME NEW bs \in [Keys -> Bucket], NEW o \in Orders
    PROVE  /\ \A c, t : SyncFree(bs, c, t)[o] = bs[o]
           /\ \A k \in Keys : /\ TakeUnit(bs, k)[o].live = bs[o].live
                              /\ TakeUnit(bs, k)[o].starts = bs[o].starts
                              /\ TakeUnit(bs, k)[o].ends = bs[o].ends
           /\ \A q \in Orders \ {o} : \A n, t : Credit(bs, q, n, t)[o] = bs[o]
           /\ \A n, t : Credit(bs, o, n, t)[o].starts = t
<1>1. o \in Keys /\ o # Free
  BY BucketConstants DEF Keys
<1>2. ASSUME NEW c, NEW t
      PROVE  SyncFree(bs, c, t)[o] = bs[o]
  BY <1>1 DEF SyncFree
<1>3. ASSUME NEW k \in Keys
      PROVE  /\ TakeUnit(bs, k)[o].live = bs[o].live
             /\ TakeUnit(bs, k)[o].starts = bs[o].starts
             /\ TakeUnit(bs, k)[o].ends = bs[o].ends
  BY <1>1 DEF TakeUnit, Bucket
<1>4. ASSUME NEW q \in Orders \ {o}, NEW n, NEW t
      PROVE  Credit(bs, q, n, t)[o] = bs[o]
  BY <1>1 DEF Credit
<1>5. ASSUME NEW n, NEW t
      PROVE  Credit(bs, o, n, t)[o].starts = t
  BY <1>1 DEF Credit
<1> QED BY <1>2, <1>3, <1>4, <1>5

(* A renewal is stacked after every other period bought of the subscription.   *)
LEMMA StackedAfter ==
    ASSUME NEW bs \in [Keys -> Bucket], NEW o \in Orders, NEW q \in Orders \ {o},
           KindOf[o] = "subscription", KindOf[q] = "subscription",
           PackageOf[o] = PackageOf[q], bs[q].live, bs[q].ends # Never,
           NEW t, NEW start \in Starts(bs, o, t)
    PROVE  bs[q].ends <= start
BY DEF Starts, RelatedEnds

(* No transition makes two of them overlap.                                    *)
LEMMA PeriodsNext ==
    ASSUME TypeOK, PeriodsEnd, PeriodsDisjoint, [Next]_vars
    PROVE  PeriodsDisjoint'
<1>0. \A p \in Products : bucket[p] \in [Keys -> Bucket]
  BY DEF TypeOK
<1>1. ASSUME \A p \in Products, o \in Orders :
                /\ bucket'[p][o].live = bucket[p][o].live
                /\ bucket'[p][o].starts = bucket[p][o].starts
                /\ bucket'[p][o].ends = bucket[p][o].ends
      PROVE  PeriodsDisjoint'
  BY <1>1 DEF PeriodsDisjoint
<1>2. CASE UNCHANGED bucket
  BY <1>1, <1>2
<1>3. ASSUME NEW p \in Products,
             \A q \in Products \ {p} : bucket'[q] = bucket[q],
             \A o \in Orders : /\ bucket'[p][o].live = bucket[p][o].live
                               /\ bucket'[p][o].starts = bucket[p][o].starts
                               /\ bucket'[p][o].ends = bucket[p][o].ends
      PROVE  PeriodsDisjoint'
  BY <1>1, <1>3
<1>4. ASSUME NEW p \in Products, NEW k \in Keys, bucket' = [bucket EXCEPT ![p] = TakeUnit(@, k)]
      PROVE  PeriodsDisjoint'
  <2>1. bucket'[p] = TakeUnit(bucket[p], k) /\ \A q \in Products \ {p} : bucket'[q] = bucket[q]
    BY <1>4 DEF TypeOK
  <2>2. \A o \in Orders : /\ bucket'[p][o].live = bucket[p][o].live
                          /\ bucket'[p][o].starts = bucket[p][o].starts
                          /\ bucket'[p][o].ends = bucket[p][o].ends
    BY <1>0, <2>1, PeriodsStay
  <2> QED BY <1>3, <2>1, <2>2
<1>5. ASSUME NEW w \in Workers, InitStep(w)
      PROVE  PeriodsDisjoint'
  <2>1. Head(stack[w]) \in Frame /\ Head(stack[w]).op = "init"
    BY <1>5, Running1 DEF InitStep
  <2>2. Head(stack[w]).todo \subseteq Products
    BY <2>1, FrameFields
  <2>3. CASE UNCHANGED bucket
    BY <1>2, <2>3
  <2>4. ASSUME NEW p \in Head(stack[w]).todo,
               bucket' = [bucket EXCEPT ![p] =
                            SyncFree(bucket[p], config[p], Head(stack[w]).at)]
        PROVE  PeriodsDisjoint'
    <3>1. /\ p \in Products
          /\ bucket'[p] = SyncFree(bucket[p], config[p], Head(stack[w]).at)
          /\ \A q \in Products \ {p} : bucket'[q] = bucket[q]
      BY <2>2, <2>4 DEF TypeOK
    <3>2. \A o \in Orders : bucket'[p][o] = bucket[p][o]
      BY <1>0, <3>1, PeriodsStay
    <3> QED BY <1>3, <3>1, <3>2
  <2> QED BY <1>5, <2>3, <2>4 DEF InitStep
<1>6. ASSUME NEW w \in Workers, GrantStep(w)
      PROVE  PeriodsDisjoint'
  <2> DEFINE f == Head(stack[w])
             p == f.product
             o == f.order
  <2>1. f \in Frame /\ f.op = "grant"
    BY <1>6, Running1 DEF GrantStep
  <2>2. p \in Products /\ o \in Orders
    BY <2>1, FrameFields
  <2>3. PICK start \in Starts(bucket[p], o, f.at) :
          bucket' = [bucket EXCEPT ![p] = Credit(bucket[p], o, OrderUnits[o][p], start)]
    BY <1>6 DEF GrantStep
  <2> DEFINE bs == Credit(bucket[p], o, OrderUnits[o][p], start)
  <2>4. /\ \A q \in Orders \ {o} : bs[q] = bucket[p][q]
        /\ bs[o].starts = start
    <3>0. bucket[p] \in [Keys -> Bucket]
      BY <1>0, <2>2
    <3>1. ASSUME NEW q \in Orders \ {o} PROVE bs[q] = bucket[p][q]
      <4>1. q \in Orders /\ o \in Orders \ {q}
        BY <2>2
      <4>2. \A n, t : Credit(bucket[p], o, n, t)[q] = bucket[p][q]
        BY <3>0, <4>1, PeriodsStay
      <4> QED BY <4>2
    <3>2. bs[o].starts = start
      <4>1. \A n, t : Credit(bucket[p], o, n, t)[o].starts = t
        BY <2>2, <3>0, PeriodsStay
      <4> QED BY <4>1
    <3> QED BY <3>1, <3>2
  <2>5. ASSUME NEW q \in Orders \ {o}, KindOf[o] = "subscription", KindOf[q] = "subscription",
               PackageOf[o] = PackageOf[q], bs[q].live
        PROVE  bs[q].ends <= bs[o].starts
    <3>1. bs[q] = bucket[p][q]
      BY <2>4, <2>5
    <3>2. bucket[p][q].live /\ bucket[p][q].ends # Never
      BY <2>2, <2>5, <3>1 DEF PeriodsEnd
    <3>3. bucket[p][q].ends <= start
      BY <1>0, <2>2, <2>3, <2>5, <3>2, StackedAfter
    <3> QED BY <2>4, <3>1, <3>3
  <2>6. \A r \in Products, q \in Orders :
           bucket'[r][q] = IF r = p THEN bs[q] ELSE bucket[r][q]
    BY <2>2, <2>3 DEF TypeOK
  <2> HIDE DEF bs
  <2> SUFFICES ASSUME NEW r \in Products, NEW x \in Orders, NEW y \in Orders \ {x},
                      bucket'[r][x].live, bucket'[r][y].live,
                      KindOf[x] = "subscription", KindOf[y] = "subscription",
                      PackageOf[x] = PackageOf[y]
               PROVE  \/ bucket'[r][x].ends <= bucket'[r][y].starts
                      \/ bucket'[r][y].ends <= bucket'[r][x].starts
    BY DEF PeriodsDisjoint
  <2>7. CASE r = p /\ x = o
    BY <2>2, <2>5, <2>6, <2>7
  <2>8. CASE r = p /\ y = o
    BY <2>2, <2>5, <2>6, <2>8
  <2>9. CASE r # p \/ (x # o /\ y # o)
    <3>1. bucket'[r][x] = bucket[r][x] /\ bucket'[r][y] = bucket[r][y]
      BY <2>4, <2>6, <2>9
    <3> QED BY <3>1 DEF PeriodsDisjoint
  <2> QED BY <2>7, <2>8, <2>9
<1>7. ASSUME NEW w \in Workers, ChargeStep(w)
      PROVE  PeriodsDisjoint'
  <2> DEFINE r == Head(stack[w]).req
  <2>1. Head(stack[w]) \in Frame /\ Head(stack[w]).op = "charge"
    BY <1>7, Running1 DEF ChargeStep
  <2>2. r \in ReqIds
    BY <2>1, FrameFields
  <2>3. CASE ~StillDue(r)
    BY <1>2, <1>7, <2>3 DEF ChargeStep
  <2>4. CASE StillDue(r)
    <3>1. request[r].product \in Products
      BY <2>2, <2>4, PendingTypes DEF StillDue
    <3>2. \E k \in Keys : bucket' = [bucket EXCEPT ![request[r].product] = TakeUnit(@, k)]
      BY <1>7, <2>4 DEF ChargeStep, Heads
    <3> QED BY <1>4, <3>1, <3>2
  <2> QED BY <2>3, <2>4
<1>8. ASSUME NEW w \in Workers, NEW r \in ReqIds, NEW m, ApproveManually(w, r, m)
      PROVE  PeriodsDisjoint'
  <2>1. request[r].product \in Products
    BY <1>8, PendingTypes DEF ApproveManually
  <2>2. UNCHANGED bucket
        \/ \E k \in Keys : bucket' = [bucket EXCEPT ![request[r].product] = TakeUnit(@, k)]
    BY <1>8 DEF ApproveManually, Heads
  <2> QED BY <1>2, <1>4, <2>1, <2>2
<1>9. ASSUME NEW w \in Workers, Handler(w)
      PROVE  PeriodsDisjoint'
  BY <1>2, <1>8, <1>9
  DEF Handler, EditQuotaProduct, EditWorkspaceOverride, RequestAccess, Dismiss,
      CloseAuthorized, SettleDebt, PaymentSuccess, db
<1>10. ASSUME NEW w \in Workers, Step(w)
       PROVE  PeriodsDisjoint'
  <2>1. CASE \/ SettleStep(w) \/ CloseStep(w) \/ CreditStep(w) \/ FinishStep(w)
             \/ FifoStep(w) \/ AuthorizeStep(w)
    BY <1>2, <2>1 DEF SettleStep, CloseStep, CreditStep, FinishStep, FifoStep, AuthorizeStep, db
  <2> QED BY <1>5, <1>6, <1>7, <1>10, <2>1 DEF Step
<1>11. CASE Tick \/ UNCHANGED vars \/ (\E s \in Sessions : BlueprintFree(s)) \/ \E w \in Workers : Crash(w)
  BY <1>2, <1>11 DEF Tick, BlueprintFree, Crash, db, vars
<1> QED BY <1>9, <1>10, <1>11 DEF Next

(* The periods bought of one subscription never overlap, for any number of     *)
(* threads, redelivered payments and crashes, as long as each of them ends: a  *)
(* renewal is stacked after every period that has an end.                      *)
THEOREM PeriodsDisjointInvariant == Spec /\ []PeriodsEnd => []PeriodsDisjoint
<1>1. Init => PeriodsDisjoint
  <2> SUFFICES ASSUME Init, NEW p \in Products, NEW o \in Orders
               PROVE  ~bucket[p][o].live
    BY DEF PeriodsDisjoint
  <2>1. [k \in Keys |-> NoBucket] \in [Keys -> Bucket]
    BY BucketConstants DEF NoBucket, Bucket
  <2>2. bucket[p][o] = [k \in Keys |-> NoBucket][o]
    BY <2>1, PeriodsStay DEF Init
  <2> QED BY <2>2 DEF NoBucket, Keys
<1>2. TypeOK /\ PeriodsEnd /\ PeriodsDisjoint /\ [Next]_vars => PeriodsDisjoint'
  BY PeriodsNext
<1> QED BY <1>1, <1>2, TypeCorrect, PTL DEF Spec

=============================================================================
