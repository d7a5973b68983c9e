------------------------ MODULE CommercialQuotaProofs ------------------------
(* Proofs about CommercialQuota for every value of its constants. *)
EXTENDS CommercialQuota, FiniteSetTheorems, SequenceTheorems, TLAPS

(* A frame pushed by a call is a frame, and so is the frame that stays. *)
LEMMA FrameTypes ==
    /\ \A t \in Times : InitCall(t) \in Frame
    /\ \A p \in Products, s \in SUBSET ReqIds : FifoCall(p, s) \in Frame
    /\ \A r \in ReqIds : ChargeCall(r) \in Frame
    /\ \A s \in SUBSET ReqIds : AuthorizeCall(s) \in Frame
    /\ \A o \in Orders, n \in Nat :
          [op |-> "settle", order |-> o, left |-> n] \in Frame
    /\ \A o \in Orders : /\ [op |-> "close", order |-> o] \in Frame
                         /\ [op |-> "finish", order |-> o] \in Frame
    /\ \A o \in Orders, t \in Times, s \in SUBSET Products :
          [op |-> "credit", order |-> o, at |-> t, todo |-> s] \in Frame
    /\ \A o \in Orders, t \in Times, p \in Products :
          [op |-> "grant", order |-> o, product |-> p, at |-> t] \in Frame
<1> QED BY DEF Frame, InitCall, FifoCall, ChargeCall, AuthorizeCall

(* What the top frame of a stack holds, by the call it stands for. *)
LEMMA FrameFields ==
    ASSUME NEW f \in Frame
    PROVE  /\ f.op = "init" =>
                /\ f.todo \subseteq Products /\ f.at \in Times
                /\ \A s \in SUBSET Products : [f EXCEPT !.todo = s] \in Frame
           /\ f.op = "fifo" =>
                /\ f.product \in Products /\ f.todo \subseteq ReqIds
                /\ \A s \in SUBSET ReqIds : [f EXCEPT !.todo = s] \in Frame
           /\ f.op = "charge" => f.req \in ReqIds
           /\ f.op = "authorize" =>
                /\ f.todo \subseteq ReqIds
                /\ \A s \in SUBSET ReqIds : [f EXCEPT !.todo = s] \in Frame
           /\ f.op = "settle" =>
                /\ f.order \in Orders /\ f.left \in Nat
                /\ \A n \in Nat : [f EXCEPT !.left = n] \in Frame
           /\ f.op \in {"close", "finish"} => f.order \in Orders
           /\ f.op = "credit" =>
                /\ f.order \in Orders /\ f.at \in Times
                /\ f.todo \subseteq Products
                /\ \A s \in SUBSET Products : [f EXCEPT !.todo = s] \in Frame
           /\ f.op = "grant" =>
                /\ f.order \in Orders /\ f.product \in Products /\ f.at \in Times
<1>1. CASE f \in [op: {"init"}, todo: SUBSET Products, at: Times]
  BY <1>1 DEF Frame
<1>2. CASE f \in [op: {"fifo"}, product: Products, todo: SUBSET ReqIds]
  BY <1>2 DEF Frame
<1>3. CASE f \in [op: {"charge"}, req: ReqIds]
  BY <1>3 DEF Frame
<1>4. CASE f \in [op: {"settle"}, order: Orders, left: Nat]
  BY <1>4 DEF Frame
<1>5. CASE f \in [op: {"close", "finish"}, order: Orders]
  BY <1>5 DEF Frame
<1>6. CASE f \in [op: {"credit"}, order: Orders, todo: SUBSET Products, at: Times]
  BY <1>6 DEF Frame
<1>7. CASE f \in [op: {"grant"}, order: Orders, product: Products, at: Times]
  BY <1>7 DEF Frame
<1>8. CASE f \in [op: {"authorize"}, todo: SUBSET ReqIds]
  BY <1>8 DEF Frame
<1> QED BY <1>1, <1>2, <1>3, <1>4, <1>5, <1>6, <1>7, <1>8 DEF Frame

(* The stacks stay stacks of frames when a worker's stack is replaced. *)
LEMMA CallTypes ==
    ASSUME stack \in [Workers -> Seq(Frame)], NEW w \in Workers,
           NEW frames \in Seq(Frame), Call(w, frames)
    PROVE  /\ stack' \in [Workers -> Seq(Frame)]
           /\ dirty' \in Workers \cup {None}
<1> QED BY DEF Call

(* The parts of a running worker's stack. *)
LEMMA RunningParts ==
    ASSUME stack \in [Workers -> Seq(Frame)], NEW w \in Workers,
           NEW op, Running(w, op)
    PROVE  /\ Head(stack[w]) \in Frame
           /\ Head(stack[w]).op = op
           /\ Tail(stack[w]) \in Seq(Frame)
<1> QED BY DEF Running

(* A loop on top of a stack has taken up what it has left to approve.       *)
LEMMA TakenFirst ==
    ASSUME NEW s \in Seq(Frame), s # <<>>, Head(s).op = "authorize",
           NEW r \in ReqIds, r \in Head(s).todo
    PROVE  r \in TakenBy(s)
<1>1. 1 \in 1..Len(s) /\ s[1] = Head(s)
  OBVIOUS
<1> QED BY <1>1 DEF TakenBy

(* Without such a loop in it a stack has taken up nothing.                  *)
LEMMA TakenNothing ==
    ASSUME NEW s, \A i \in 1..Len(s) : s[i].op # "authorize"
    PROVE  TakenBy(s) = {}
<1> QED BY DEF TakenBy

(* What stacks take up is put together when they are.                       *)
LEMMA TakenJoined ==
    ASSUME NEW a \in Seq(Frame), NEW b \in Seq(Frame)
    PROVE  TakenBy(a \o b) = TakenBy(a) \cup TakenBy(b)
<1>1. /\ a \o b \in Seq(Frame) /\ Len(a \o b) = Len(a) + Len(b)
      /\ Len(a) \in Nat /\ Len(b) \in Nat
      /\ \A i \in 1..Len(a) + Len(b) :
            (a \o b)[i] = IF i <= Len(a) THEN a[i] ELSE b[i - Len(a)]
  BY ConcatProperties
<1> DEFINE s == a \o b
<1> HIDE DEF s
<1>2. \A i \in 1..Len(a) : i \in 1..Len(s) /\ s[i] = a[i]
  BY <1>1 DEF s
<1>3. \A i \in 1..Len(b) : i + Len(a) \in 1..Len(s) /\ s[i + Len(a)] = b[i]
  <2> TAKE i \in 1..Len(b)
  <2>1. i + Len(a) \in 1..Len(a) + Len(b) /\ ~(i + Len(a) <= Len(a)) /\ i + Len(a) - Len(a) = i
    BY <1>1
  <2> QED BY <1>1, <2>1 DEF s
<1>4. \A i \in 1..Len(s) : \/ i \in 1..Len(a) /\ s[i] = a[i]
                           \/ i - Len(a) \in 1..Len(b) /\ s[i] = b[i - Len(a)]
  BY <1>1 DEF s
<1>5. TakenBy(s) = TakenBy(a) \cup TakenBy(b)
  <2>1. ASSUME NEW r \in TakenBy(s) PROVE r \in TakenBy(a) \cup TakenBy(b)
    <3>1. PICK i \in 1..Len(s) : r \in ReqIds /\ s[i].op = "authorize" /\ r \in s[i].todo
      BY <2>1 DEF TakenBy
    <3> QED BY <1>4, <3>1 DEF TakenBy
  <2>2. ASSUME NEW r \in TakenBy(a) PROVE r \in TakenBy(s)
    BY <1>2, <2>2 DEF TakenBy
  <2>3. ASSUME NEW r \in TakenBy(b) PROVE r \in TakenBy(s)
    BY <1>3, <2>3 DEF TakenBy
  <2> QED BY <2>1, <2>2, <2>3
<1> QED BY <1>5 DEF s

(* The top of a stack and the rest of it.                                   *)
LEMMA TakenTop ==
    ASSUME NEW s \in Seq(Frame), s # <<>>
    PROVE  TakenBy(s) = TakenBy(<<Head(s)>>) \cup TakenBy(Tail(s))
<1>1. <<Head(s)>> \in Seq(Frame) /\ Tail(s) \in Seq(Frame) /\ s = <<Head(s)>> \o Tail(s)
  OBVIOUS
<1> QED BY <1>1, TakenJoined

(* What one frame has taken up.                                             *)
LEMMA TakenOne ==
    ASSUME NEW f
    PROVE  /\ f.op = "authorize" => TakenBy(<<f>>) = ReqIds \cap f.todo
           /\ f.op # "authorize" => TakenBy(<<f>>) = {}
<1>1. Len(<<f>>) = 1 /\ <<f>>[1] = f
  OBVIOUS
<1> QED BY <1>1 DEF TakenBy

(* Only the stack that changes takes requests up or lets them go.           *)
LEMMA ClosingCall ==
    ASSUME stack \in [Workers -> Seq(Frame)], NEW w \in Workers, NEW s,
           stack' = [stack EXCEPT ![w] = s]
    PROVE  \E others \in SUBSET ReqIds : /\ Closing = others \cup TakenBy(stack[w])
                                        /\ Closing' = others \cup TakenBy(s)
<1> DEFINE others == {r \in ReqIds : \E v \in Workers \ {w} : r \in TakenBy(stack[v])}
<1>0. \A t : TakenBy(t) \subseteq ReqIds
  BY DEF TakenBy
<1>1. Closing = others \cup TakenBy(stack[w])
  BY <1>0 DEF Closing
<1>2. \A v \in Workers \ {w} : stack'[v] = stack[v]
  OBVIOUS
<1>3. stack'[w] = s
  OBVIOUS
<1>4. Closing' = {r \in ReqIds : \E v \in Workers : r \in TakenBy(stack'[v])}
  BY DEF Closing
<1>5. Closing' = others \cup TakenBy(s)
  BY <1>0, <1>2, <1>3, <1>4
<1> QED BY <1>1, <1>5

(* What a frame that stays keeps.                                              *)
LEMMA FrameStays ==
    ASSUME NEW f \in Frame
    PROVE  /\ f.op = "fifo" => \A S \in SUBSET ReqIds :
                 /\ [f EXCEPT !.todo = S].op = "fifo" /\ [f EXCEPT !.todo = S].todo = S
                 /\ [f EXCEPT !.todo = S].product = f.product
           /\ f.op \in {"init", "credit"} => \A S \in SUBSET Products :
                 [f EXCEPT !.todo = S].op = f.op
           /\ f.op = "settle" => \A n \in Nat : [f EXCEPT !.left = n].op = "settle"
           /\ f.op = "authorize" => \A S \in SUBSET ReqIds :
                 /\ [f EXCEPT !.todo = S].op = "authorize"
                 /\ [f EXCEPT !.todo = S].todo = S
<1>1. CASE f \in [op: {"init"}, todo: SUBSET Products, at: Times]
  BY <1>1
<1>2. CASE f \in [op: {"fifo"}, product: Products, todo: SUBSET ReqIds]
  BY <1>2
<1>3. CASE f \in [op: {"settle"}, order: Orders, left: Nat]
  BY <1>3
<1>4. CASE f \in [op: {"credit"}, order: Orders, todo: SUBSET Products, at: Times]
  BY <1>4
<1>5. CASE f \in [op: {"authorize"}, todo: SUBSET ReqIds]
  BY <1>5
<1>6. CASE f.op \notin {"init", "fifo", "settle", "credit", "authorize"}
  BY <1>6
<1> QED BY <1>1, <1>2, <1>3, <1>4, <1>5, <1>6 DEF Frame

(* Calls made one after the other.                                             *)
LEMMA Joined ==
    ASSUME NEW a \in Frame, NEW b \in Frame, NEW c \in Frame
    PROVE  <<a>> \o <<c>> = <<a, c>> /\ <<a, b>> \o <<c>> = <<a, b, c>>
<1>1. /\ <<a>> \in Seq(Frame) /\ <<a, b>> \in Seq(Frame) /\ <<c>> \in Seq(Frame)
      /\ <<a, c>> \in Seq(Frame) /\ <<a, b, c>> \in Seq(Frame)
  OBVIOUS
<1>2. <<a>> \o <<c>> = <<a, c>>
  <2> DEFINE s == <<a>> \o <<c>>
             t == <<a, c>>
  <2>1. s \in Seq(Frame) /\ Len(s) = 2 /\ \A i \in 1 .. 2 : s[i] = IF i <= 1 THEN a ELSE c
    BY <1>1, ConcatProperties
  <2>2. t \in Seq(Frame) /\ Len(t) = 2 /\ t[1] = a /\ t[2] = c
    BY <1>1
  <2> HIDE DEF s, t
  <2>3. \A i \in 1 .. Len(s) : s[i] = t[i]
    BY <2>1, <2>2
  <2>4. s = t
    BY <2>1, <2>2, <2>3, SeqEqual
  <2> QED BY <2>4 DEF s, t
<1>3. <<a, b>> \o <<c>> = <<a, b, c>>
  <2> DEFINE s == <<a, b>> \o <<c>>
             t == <<a, b, c>>
  <2>1. s \in Seq(Frame) /\ Len(s) = 3
        /\ \A i \in 1 .. 3 : s[i] = IF i <= 2 THEN <<a, b>>[i] ELSE c
    BY <1>1, ConcatProperties
  <2>2. t \in Seq(Frame) /\ Len(t) = 3 /\ t[1] = a /\ t[2] = b /\ t[3] = c
    BY <1>1
  <2> HIDE DEF s, t
  <2>3. \A i \in 1 .. Len(s) : s[i] = t[i]
    BY <2>1, <2>2
  <2>4. s = t
    BY <2>1, <2>2, <2>3, SeqEqual
  <2> QED BY <2>4 DEF s, t
<1> QED BY <1>2, <1>3

(* Where the frames of a stack are after its top was replaced.                 *)
LEMMA Pushed ==
    ASSUME NEW s \in Seq(Frame), s # <<>>, NEW new \in Seq(Frame),
           NEW t, t = new \o Tail(s)
    PROVE  /\ Len(s) \in Nat /\ Len(s) > 0 /\ Len(new) \in Nat
           /\ t \in Seq(Frame) /\ Len(t) = Len(new) + Len(s) - 1
           /\ \A i \in 1 .. Len(new) : i \in 1 .. Len(t) /\ t[i] = new[i]
           /\ \A i \in 1 .. Len(t) : i > Len(new) =>
                 i - Len(new) + 1 \in 2 .. Len(s) /\ t[i] = s[i - Len(new) + 1]
           /\ \A i \in 2 .. Len(s) :
                 i + Len(new) - 1 \in 1 .. Len(t) /\ t[i + Len(new) - 1] = s[i]
<1>1. /\ Tail(s) \in Seq(Frame) /\ Len(Tail(s)) = Len(s) - 1
      /\ Len(s) \in Nat /\ Len(s) > 0 /\ Len(new) \in Nat
  OBVIOUS
<1>2. \A i \in 1 .. Len(s) - 1 : Tail(s)[i] = s[i + 1]
  OBVIOUS
<1>3. /\ t \in Seq(Frame) /\ Len(t) = Len(new) + Len(Tail(s))
      /\ \A i \in 1 .. Len(t) : t[i] = IF i <= Len(new) THEN new[i] ELSE Tail(s)[i - Len(new)]
  BY <1>1
<1> QED BY <1>1, <1>2, <1>3

(* The calls a call with this operation may make, and the last one of them.    *)
Proper(op, new) ==
    /\ Len(new) > 0
    /\ \A i \in 1 .. Len(new) : new[i].op \in {"init", "fifo", "grant", "credit", "charge"}
    /\ new[Len(new)].op # "charge"
    /\ new[Len(new)].op \in {"fifo", "grant"} => op \in {"fifo", "grant"}

(* A step replaces the top frame by nothing, a settlement or the approval of   *)
(* an authorized session's requests by what is left of it, and any other call  *)
(* by calls of its own.                                                        *)
MoveOf(s, new) ==
    \/ new = <<>>
    \/ s[1].op = "authorize" /\ Len(new) = 1 /\ new[1].op = "authorize"
    \/ s[1].op = "settle" /\ Len(new) = 1 /\ new[1].op = "settle"
    \/ s[1].op \notin {"settle", "close"} /\ Proper(s[1].op, new)

Moves(w, new) ==
    /\ stack' = [stack EXCEPT ![w] = new \o Tail(stack[w])]
    /\ MoveOf(stack[w], new)

(* Apart from the turns of a pass, a step charges nobody and starts a pass     *)
(* over all who wait, on top of its stack.                                     *)
Calls(new) == \A i \in 1 .. Len(new) :
    /\ new[i].op # "charge"
    /\ new[i].op = "fifo" => i = 1 /\ \E p \in Products : new[1] = FifoCall(p, Pending(p))

(* The stack of a worker that takes a step.                                    *)
LEMMA Running1 ==
    ASSUME TypeOK, NEW w \in Workers, NEW op, Running(w, op)
    PROVE  /\ stack[w] \in Seq(Frame) /\ stack[w] # <<>> /\ Len(stack[w]) \in Nat \ {0}
           /\ stack[w][1] = Head(stack[w]) /\ Head(stack[w]) \in Frame
           /\ stack[w][1].op = op /\ Tail(stack[w]) \in Seq(Frame)
           /\ dirty \in {None, w}
           /\ 1 \in 1 .. Len(stack[w])
<1>1. stack[w] \in Seq(Frame) /\ stack[w] # <<>>
  BY DEF Running, TypeOK
<1>2. Len(stack[w]) \in Nat \ {0} /\ Head(stack[w]) = stack[w][1] /\ stack[w][1] \in Frame
  BY <1>1
<1> QED BY <1>1, <1>2 DEF Running

(* Every step is such a move.                                                  *)
LEMMA StepMoves ==
    ASSUME TypeOK, DebtsAddUp, NEW w \in Workers, Step(w)
    PROVE  /\ stack[w] \in Seq(Frame) /\ stack[w] # <<>>
           /\ dirty \in {None, w}
           /\ \E new \in Seq(Frame) : Moves(w, new) /\ (Calls(new) \/ FifoStep(w))
<1> DEFINE f == Head(stack[w])
           rest == Tail(stack[w])
           Goal == /\ stack[w] \in Seq(Frame) /\ stack[w] # <<>>
                   /\ dirty \in {None, w}
                   /\ \E new \in Seq(Frame) : Moves(w, new) /\ (Calls(new) \/ FifoStep(w))
<1> SUFFICES Goal
  OBVIOUS
<1>0. stack \in [Workers -> Seq(Frame)] /\ now \in Times
  BY DEF TypeOK
<1>a. ASSUME NEW op, Running(w, op), Call(w, rest) \/ stack' = [stack EXCEPT ![w] = rest]
      PROVE  Goal
  <2>1. stack[w] \in Seq(Frame) /\ stack[w] # <<>> /\ rest \in Seq(Frame) /\ dirty \in {None, w}
    BY <1>a, Running1
  <2>2. <<>> \in Seq(Frame) /\ <<>> \o rest = rest
    BY <2>1
  <2>3. stack' = [stack EXCEPT ![w] = rest]
    BY <1>a DEF Call
  <2>4. Moves(w, <<>>)
    BY <2>2, <2>3 DEF Moves, MoveOf
  <2>5. Calls(<<>>)
    BY DEF Calls
  <2> QED BY <2>1, <2>2, <2>4, <2>5
<1>b. ASSUME NEW op, Running(w, op), op \notin {"settle", "close"},
             NEW new \in Seq(Frame), Call(w, new \o rest), Proper(op, new),
             Calls(new) \/ FifoStep(w)
      PROVE  Goal
  <2>1. /\ stack[w] \in Seq(Frame) /\ stack[w] # <<>> /\ dirty \in {None, w}
        /\ stack[w][1].op = op /\ 1 \in 1 .. Len(stack[w])
    BY <1>b, Running1
  <2>3. Moves(w, new)
    BY <1>b, <2>1 DEF Moves, MoveOf, Call
  <2> QED BY <1>b, <2>1, <2>3
<1> HIDE DEF Goal
<1>1. CASE SettleStep(w)
  <2>1. Running(w, "settle")
    BY <1>1 DEF SettleStep
  <2>2. CASE Call(w, rest)
    BY <1>a, <2>1, <2>2
  <2>3. ASSUME NEW r \in OldestDebts,
               Call(w, <<[f EXCEPT !.left = @ - Lower(f.left, Owed(r))]>> \o rest)
        PROVE  Goal
    <3>1. /\ stack[w] \in Seq(Frame) /\ stack[w] # <<>> /\ dirty \in {None, w}
          /\ f \in Frame /\ f.op = "settle" /\ stack[w][1] = f
      BY <2>1, Running1
    <3>2. r \in ReqIds /\ debt[r] \in Debt /\ debt[r].settled <= debt[r].amount
      BY DEF OldestDebts, OpenDebts, TypeOK, DebtsAddUp
    <3>3. f.left \in Nat /\ f.left - Lower(f.left, Owed(r)) \in Nat
      BY <3>1, <3>2, FrameFields DEF Lower, Owed, Debt
    <3> DEFINE n == f.left - Lower(f.left, Owed(r))
               g == [f EXCEPT !.left = n]
    <3>4. g \in Frame /\ g.op = "settle"
      BY <3>1, <3>3, FrameFields, FrameStays
    <3>5. Call(w, <<g>> \o rest)
      BY <2>3
    <3> HIDE DEF g
    <3>6. <<g>> \in Seq(Frame) /\ Len(<<g>>) = 1 /\ <<g>>[1] = g
      BY <3>4
    <3>7. Moves(w, <<g>>)
      BY <3>1, <3>4, <3>5, <3>6 DEF Moves, MoveOf, Call
    <3>8. Calls(<<g>>)
      BY <3>4, <3>6 DEF Calls
    <3> QED BY <3>1, <3>6, <3>7, <3>8 DEF Goal
  <2> QED BY <1>1, <2>2, <2>3 DEF SettleStep
<1>2. CASE CloseStep(w)
  BY <1>2, <1>a DEF CloseStep
<1>3. CASE CreditStep(w)
  <2>1. /\ Running(w, "credit") /\ f \in Frame /\ f.order \in Orders
        /\ f.todo \subseteq Products /\ f.at \in Times /\ f.op = "credit"
    BY <1>3, Running1, FrameFields DEF CreditStep
  <2>2. CASE Call(w, rest)
    BY <1>a, <2>1, <2>2
  <2>3. ASSUME NEW p \in f.todo,
               Call(w, << InitCall(f.at),
                          [op |-> "grant", order |-> f.order, product |-> p, at |-> f.at],
                          [f EXCEPT !.todo = @ \ {p}] >> \o rest)
        PROVE  Goal
    <3> DEFINE a == InitCall(f.at)
               b == [op |-> "grant", order |-> f.order, product |-> p, at |-> f.at]
               c == [f EXCEPT !.todo = f.todo \ {p}]
               new == <<a, b, c>>
    <3>1. a \in Frame /\ b \in Frame /\ c \in Frame
      BY <2>1, FrameTypes, FrameFields
    <3>2. a.op = "init" /\ b.op = "grant" /\ c.op = "credit"
      BY <2>1, FrameStays DEF InitCall
    <3>3. Call(w, new \o rest)
      BY <2>3
    <3> HIDE DEF a, b, c
    <3>4. new \in Seq(Frame) /\ Len(new) = 3 /\ new[1] = a /\ new[2] = b /\ new[3] = c
      BY <3>1
    <3> HIDE DEF new
    <3>5. \A i \in 1 .. Len(new) : new[i].op \in {"init", "grant", "credit"}
      BY <3>2, <3>4
    <3>6. Calls(new)
      BY <3>5 DEF Calls
    <3>7. Proper("credit", new)
      BY <3>2, <3>4, <3>5 DEF Proper
    <3> QED BY <1>b, <2>1, <3>3, <3>4, <3>6, <3>7
  <2> QED BY <1>3, <2>2, <2>3 DEF CreditStep
<1>4. CASE GrantStep(w)
  <2>1. /\ Running(w, "grant") /\ f \in Frame /\ f.product \in Products /\ rest \in Seq(Frame)
    BY <1>4, Running1, FrameFields DEF GrantStep
  <2>2. PICK grew : Call(w, Replenished(f.product, grew) \o rest)
    BY <1>4 DEF GrantStep
  <2> DEFINE g == FifoCall(f.product, Pending(f.product))
  <2>3. CASE Replenished(f.product, grew) = <<g>>
    <3>1. g \in Frame /\ g.op = "fifo"
      BY <2>1, FrameTypes DEF Pending, FifoCall
    <3>2. \E p \in Products : g = FifoCall(p, Pending(p))
      BY <2>1
    <3> HIDE DEF g
    <3>3. <<g>> \in Seq(Frame) /\ Len(<<g>>) = 1 /\ <<g>>[1] = g
      BY <3>1
    <3>4. Calls(<<g>>)
      BY <3>1, <3>2, <3>3 DEF Calls
    <3>5. Proper("grant", <<g>>)
      BY <3>1, <3>3 DEF Proper
    <3>6. Call(w, <<g>> \o rest)
      BY <2>2, <2>3
    <3> QED BY <1>b, <2>1, <3>3, <3>4, <3>5, <3>6
  <2>4. CASE Replenished(f.product, grew) = <<>>
    <3>1. <<>> \o rest = rest
      BY <2>1
    <3> QED BY <1>a, <2>1, <2>2, <2>4, <3>1
  <2> QED BY <2>3, <2>4 DEF Replenished
<1>5. CASE FinishStep(w)
  BY <1>5, <1>a DEF FinishStep
<1>6. CASE InitStep(w)
  <2>1. /\ Running(w, "init") /\ f \in Frame /\ f.op = "init" /\ f.todo \subseteq Products
        /\ rest \in Seq(Frame)
    BY <1>6, Running1, FrameFields DEF InitStep
  <2>2. CASE Call(w, rest)
    BY <1>a, <2>1, <2>2
  <2>3. ASSUME NEW p \in f.todo, NEW grew,
               Call(w, Replenished(p, grew) \o <<[f EXCEPT !.todo = @ \ {p}]>> \o rest)
        PROVE  Goal
    <3> DEFINE g == FifoCall(p, Pending(p))
               c == [f EXCEPT !.todo = f.todo \ {p}]
    <3>1. g \in Frame /\ g.op = "fifo" /\ c \in Frame /\ c.op = "init"
      BY <2>1, FrameTypes, FrameFields, FrameStays DEF Pending, FifoCall
    <3>2. \E q \in Products : g = FifoCall(q, Pending(q))
      BY <2>1
    <3>3. Replenished(p, grew) \in {<<>>, <<g>>} /\ Call(w, Replenished(p, grew) \o <<c>> \o rest)
      BY <2>3 DEF Replenished
    <3> HIDE DEF g, c
    <3>4. CASE Replenished(p, grew) = <<g>>
      <4>0. <<g>> \o <<c>> = <<g, c>>
        BY <3>1, Joined
      <4>1. <<g, c>> \in Seq(Frame) /\ Len(<<g, c>>) = 2 /\ <<g, c>>[1] = g /\ <<g, c>>[2] = c
        BY <3>1
      <4>2. Calls(<<g, c>>)
        BY <3>1, <3>2, <4>1 DEF Calls
      <4>3. \A i \in 1 .. Len(<<g, c>>) : <<g, c>>[i].op \in {"init", "fifo"}
        BY <3>1, <4>1
      <4>4. Proper("init", <<g, c>>)
        BY <3>1, <4>1, <4>3 DEF Proper
      <4>5. Call(w, <<g, c>> \o rest)
        BY <3>3, <3>4, <4>0
      <4> QED BY <1>b, <2>1, <4>1, <4>2, <4>4, <4>5
    <3>5. CASE Replenished(p, grew) = <<>>
      <4>1. <<c>> \in Seq(Frame) /\ Len(<<c>>) = 1 /\ <<c>>[1] = c /\ <<>> \o <<c>> = <<c>>
        BY <3>1
      <4>2. Calls(<<c>>)
        BY <3>1, <4>1 DEF Calls
      <4>3. Proper("init", <<c>>)
        BY <3>1, <4>1 DEF Proper
      <4>4. Call(w, <<c>> \o rest)
        BY <3>3, <3>5, <4>1
      <4> QED BY <1>b, <2>1, <4>1, <4>2, <4>3, <4>4
    <3> QED BY <3>3, <3>4, <3>5
  <2> QED BY <1>6, <2>2, <2>3 DEF InitStep
<1>7. CASE FifoStep(w)
  <2>1. /\ Running(w, "fifo") /\ f \in Frame /\ f.op = "fifo" /\ f.todo \subseteq ReqIds
        /\ rest \in Seq(Frame)
    BY <1>7, Running1, FrameFields DEF FifoStep
  <2>2. CASE Call(w, rest)
    BY <1>a, <2>1, <2>2
  <2>3. ASSUME NEW r \in f.todo, NEW may \in BOOLEAN,
               Call(w, (IF may THEN <<InitCall(now), ChargeCall(r)>> ELSE <<>>)
                         \o <<[f EXCEPT !.todo = @ \ {r}]>> \o rest)
        PROVE  Goal
    <3> DEFINE a == InitCall(now)
               b == ChargeCall(r)
               c == [f EXCEPT !.todo = f.todo \ {r}]
    <3>1. /\ a \in Frame /\ b \in Frame /\ c \in Frame
          /\ a.op = "init" /\ b.op = "charge" /\ c.op = "fifo"
      BY <1>0, <2>1, FrameTypes, FrameFields, FrameStays DEF InitCall, ChargeCall
    <3>2. Call(w, (IF may THEN <<a, b>> ELSE <<>>) \o <<c>> \o rest)
      BY <2>3
    <3> HIDE DEF a, b, c
    <3>3. CASE may
      <4>0. <<a, b>> \o <<c>> = <<a, b, c>>
        BY <3>1, Joined
      <4>1. /\ <<a, b, c>> \in Seq(Frame) /\ Len(<<a, b, c>>) = 3 /\ <<a, b, c>>[1] = a
            /\ <<a, b, c>>[2] = b /\ <<a, b, c>>[3] = c
        BY <3>1
      <4>2. \A i \in 1 .. Len(<<a, b, c>>) : <<a, b, c>>[i].op \in {"init", "charge", "fifo"}
        BY <3>1, <4>1
      <4>3. Proper("fifo", <<a, b, c>>)
        BY <3>1, <4>1, <4>2 DEF Proper
      <4>4. Call(w, <<a, b, c>> \o rest)
        BY <3>2, <3>3, <4>0
      <4> QED BY <1>7, <1>b, <2>1, <4>1, <4>3, <4>4
    <3>4. CASE ~may
      <4>1. <<c>> \in Seq(Frame) /\ Len(<<c>>) = 1 /\ <<c>>[1] = c /\ <<>> \o <<c>> = <<c>>
        BY <3>1
      <4>2. Proper("fifo", <<c>>)
        BY <3>1, <4>1 DEF Proper
      <4>3. Call(w, <<c>> \o rest)
        BY <3>2, <3>4, <4>1
      <4> QED BY <1>7, <1>b, <2>1, <4>1, <4>2, <4>3
    <3> QED BY <3>3, <3>4
  <2>4. \A r : MayAutoApprove(r) \in BOOLEAN
    BY DEF MayAutoApprove
  <2> QED BY <1>7, <2>2, <2>3, <2>4 DEF FifoStep, Oldest
<1>8. CASE ChargeStep(w)
  <2>1. Running(w, "charge")
    BY <1>8 DEF ChargeStep
  <2>2. Call(w, rest) \/ stack' = [stack EXCEPT ![w] = rest]
    BY <1>8 DEF ChargeStep
  <2> QED BY <1>a, <2>1, <2>2
<1>9. CASE AuthorizeStep(w)
  <2>1. /\ Running(w, "authorize") /\ f \in Frame /\ f.op = "authorize"
        /\ f.todo \subseteq ReqIds /\ rest \in Seq(Frame)
    BY <1>9, Running1, FrameFields DEF AuthorizeStep
  <2>2. CASE Call(w, rest)
    BY <1>a, <2>1, <2>2
  <2>3. ASSUME NEW r \in f.todo,
               stack' = [stack EXCEPT ![w] = <<[f EXCEPT !.todo = @ \ {r}]>> \o Tail(@)]
        PROVE  Goal
    <3> DEFINE c == [f EXCEPT !.todo = f.todo \ {r}]
    <3>1. c \in Frame /\ c.op = "authorize"
      BY <2>1, FrameFields, FrameStays
    <3>2. stack' = [stack EXCEPT ![w] = <<c>> \o rest]
      BY <2>3
    <3> HIDE DEF c
    <3>3. <<c>> \in Seq(Frame) /\ Len(<<c>>) = 1 /\ <<c>>[1] = c
      BY <3>1
    <3>4. /\ stack[w] \in Seq(Frame) /\ stack[w] # <<>> /\ dirty \in {None, w}
          /\ stack[w][1].op = "authorize"
      BY <2>1, Running1
    <3>5. Moves(w, <<c>>)
      BY <3>1, <3>2, <3>3, <3>4 DEF Moves, MoveOf
    <3>6. Calls(<<c>>)
      BY <3>1, <3>3 DEF Calls
    <3> QED BY <3>3, <3>4, <3>5, <3>6 DEF Goal
  <2> QED BY <1>9, <2>2, <2>3 DEF AuthorizeStep, Oldest
<1> QED BY <1>1, <1>2, <1>3, <1>4, <1>5, <1>6, <1>7, <1>8, <1>9 DEF Step, Goal

-----------------------------------------------------------------------------
(* The bucket functions of QuotaBuckets return buckets. *)
LEMMA BucketTypes ==
    ASSUME NEW bs \in [Keys -> Bucket], NEW t \in Nat
    PROVE  /\ \A k \in Keys : TakeUnit(bs, k) \in [Keys -> Bucket]
           /\ \A c \in Configs : SyncFree(bs, c, t) \in [Keys -> Bucket]
           /\ \A o \in Orders : Starts(bs, o, t) \subseteq Nat
           /\ \A o \in Orders, n \in Nat :
                 Credit(bs, o, n, t) \in [Keys -> Bucket]
<1>1. Free \in Keys /\ Orders \subseteq Keys
  BY DEF Keys
<1>2. ASSUME NEW k \in Keys
      PROVE  TakeUnit(bs, k) \in [Keys -> Bucket]
  BY DEF TakeUnit, Bucket
<1>3. ASSUME NEW c \in Configs
      PROVE  SyncFree(bs, c, t) \in [Keys -> Bucket]
  <2>1. c.enabled \in BOOLEAN /\ c.free \in Nat
    BY QuotaConstants
  <2> QED BY <1>1, <2>1 DEF SyncFree, Bucket
<1>4. ASSUME NEW o \in Orders
      PROVE  Starts(bs, o, t) \subseteq Nat
  BY <1>1 DEF Starts, RelatedEnds, Bucket
<1>5. ASSUME NEW o \in Orders, NEW n \in Nat
      PROVE  Credit(bs, o, n, t) \in [Keys -> Bucket]
  <2>1. Validity[o] \in Nat /\ Never \in Nat
    BY BucketConstants
  <2> QED BY <1>1, <2>1 DEF Credit, Bucket
<1> QED BY <1>2, <1>3, <1>4, <1>5

(* A settlement keeps a debt a debt, within its amount. *)
LEMMA SettledTypes ==
    ASSUME NEW d \in Debt, d.settled <= d.amount, NEW cents \in Nat
    PROVE  /\ Settled(d, cents) \in Debt
           /\ Settled(d, cents).amount = d.amount
           /\ Settled(d, cents).settled <= d.amount
           /\ Settled(d, cents).status \in {"open", "settled"}
           /\ Settled(d, cents).status = "settled"
                <=> Settled(d, cents).settled = d.amount
<1> DEFINE s == d.settled + Lower(cents, d.amount - d.settled)
<1>1. s \in Nat /\ s <= d.amount
  BY DEF Debt, Lower
<1> HIDE DEF s
<1>2. Settled(d, cents) = [d EXCEPT !.settled = s,
                             !.status = IF s >= d.amount THEN "settled" ELSE "open"]
  BY DEF Settled, s
<1>3. Settled(d, cents).settled = s /\ Settled(d, cents).amount = d.amount
  BY <1>2 DEF Debt
<1>4. Settled(d, cents).status = IF s >= d.amount THEN "settled" ELSE "open"
  BY <1>2 DEF Debt
<1>5. Settled(d, cents) \in Debt
  BY <1>1, <1>2 DEF Debt
<1> QED BY <1>1, <1>3, <1>4, <1>5 DEF Debt

(* There are finitely many requests, and sets of them can be counted. *)
LEMMA ReqIdsFinite ==
    /\ IsFiniteSet(ReqIds)
    /\ \A S \in SUBSET ReqIds : IsFiniteSet(S) /\ Cardinality(S) \in Nat
<1>1. IsFiniteSet(ReqIds)
  BY FS_Interval, QuotaConstants, 1 \in Int, MaxRequests \in Int DEF ReqIds
<1>2. ASSUME NEW S \in SUBSET ReqIds
      PROVE  IsFiniteSet(S) /\ Cardinality(S) \in Nat
  <2>1. IsFiniteSet(S)
    BY <1>1, FS_Subset
  <2> QED BY <2>1, FS_CardinalityType
<1> QED BY <1>1, <1>2

-----------------------------------------------------------------------------
(* Type correctness needs that a debt is never settled beyond its amount.   *)
LEMMA TypeInit == Init => TypeOK
<1> SUFFICES ASSUME Init PROVE TypeOK
  OBVIOUS
<1>1. bucket \in [Products -> [Keys -> Bucket]]
  <2>1. [k \in Keys |-> NoBucket] \in [Keys -> Bucket]
    BY BucketConstants DEF NoBucket, Bucket
  <2> QED BY <2>1, BucketTypes DEF Init
<1>2. NoRequest \in {NoRequest} /\ NoDebt \in Debt /\ 0 \in Times
  BY QuotaConstants DEF NoDebt, Debt, Times
<1> QED BY <1>1, <1>2 DEF Init, TypeOK

(* A pending request is a row, with a product and a session. *)
LEMMA PendingTypes ==
    ASSUME TypeOK, NEW r \in ReqIds, request[r].status = "pending"
    PROVE  /\ request[r] \in Request
           /\ request[r].product \in Products /\ request[r].session \in Sessions
<1>1. request[r] \in Request
  BY DEF TypeOK, NoRequest
<1> QED BY <1>1 DEF Request

(* Approving or dismissing it leaves a row. *)
LEMMA DecidedTypes ==
    ASSUME TypeOK, NEW r \in ReqIds, request[r].status = "pending"
    PROVE  /\ \A m \in Modes :
                [request[r] EXCEPT !.status = "approved", !.mode = m] \in Request
           /\ \A d \in Decided : [request[r] EXCEPT !.status = d] \in Request
<1> QED BY PendingTypes DEF Request, Decided

(* A handler keeps the types, and what it calls are frames.                 *)
LEMMA TypeHandler ==
    ASSUME TypeOK, DebtsAddUp, NEW w \in Workers, Handler(w)
    PROVE  TypeOK'
<1>1. ASSUME NEW p \in Products, NEW c \in Configs, EditQuotaProduct(w, p, c)
      PROVE  TypeOK'
  <2>1. <<[op |-> "init", todo |-> {p}, at |-> now]>> \in Seq(Frame)
    BY DEF TypeOK, Frame
  <2>2. stack' \in [Workers -> Seq(Frame)] /\ dirty' \in Workers \cup {None}
    BY <1>1, <2>1, CallTypes DEF TypeOK, EditQuotaProduct
  <2> QED BY <1>1, <2>2 DEF TypeOK, EditQuotaProduct
<1>2. ASSUME NEW p \in Products, NEW c \in Configs,
             EditWorkspaceOverride(w, p, c)
      PROVE  TypeOK'
  BY <1>2 DEF TypeOK, EditWorkspaceOverride
<1>3. ASSUME NEW s \in Sessions, NEW a \in Askers, NEW p \in Products,
             RequestAccess(w, s, a, p)
      PROVE  TypeOK'
  <2>1. PICK r \in ReqIds :
          /\ request' = [request EXCEPT ![r] =
                [status |-> "pending", product |-> p, session |-> s,
                 asker |-> a, mode |-> "none"]]
          /\ Call(w, IF HasOpenDebt(p) THEN <<>>
                     ELSE <<InitCall(now), ChargeCall(r)>>)
    BY <1>3 DEF RequestAccess
  <2>2. (IF HasOpenDebt(p) THEN <<>> ELSE <<InitCall(now), ChargeCall(r)>>)
          \in Seq(Frame)
    BY FrameTypes DEF TypeOK
  <2>3. stack' \in [Workers -> Seq(Frame)] /\ dirty' \in Workers \cup {None}
    BY <2>1, <2>2, CallTypes DEF TypeOK
  <2>4. request' \in [ReqIds -> Request \cup {NoRequest}]
    BY <2>1 DEF TypeOK, Request, Modes
  <2> QED BY <1>3, <2>3, <2>4 DEF TypeOK, RequestAccess
<1>4. ASSUME NEW r \in ReqIds, NEW m \in {"override", "courtesy", "manual", "debt"},
             ApproveManually(w, r, m)
      PROVE  TypeOK'
  <2> DEFINE p == request[r].product
  <2>1. request[r] \in Request /\ p \in Products /\ request[r].session \in Sessions
    BY <1>4, PendingTypes DEF ApproveManually
  <2>2. request' \in [ReqIds -> Request \cup {NoRequest}]
    BY <1>4, DecidedTypes DEF TypeOK, ApproveManually, Approved, Modes
  <2>3. ent' \subseteq (Sessions \cup {None}) \X Products
    BY <1>4, <2>1 DEF TypeOK, ApproveManually, Entitled
  <2>4. /\ bucket' \in [Products -> [Keys -> Bucket]]
        /\ ledger' \in [ReqIds -> SUBSET Keys]
    <3>1. CASE UNCHANGED <<bucket, ledger>>
      BY <3>1 DEF TypeOK
    <3>2. ASSUME NEW k \in Heads(bucket[p], now),
                 bucket' = [bucket EXCEPT ![p] = TakeUnit(@, k)],
                 ledger' = [ledger EXCEPT ![r] = @ \cup {k}]
          PROVE  /\ bucket' \in [Products -> [Keys -> Bucket]]
                 /\ ledger' \in [ReqIds -> SUBSET Keys]
      <4>1. k \in Keys
        BY DEF Heads
      <4>2. TakeUnit(bucket[p], k) \in [Keys -> Bucket]
        BY <2>1, <4>1, BucketTypes, 0 \in Nat DEF TypeOK
      <4> QED BY <2>1, <3>2, <4>1, <4>2 DEF TypeOK
    <3> QED BY <1>4, <3>1, <3>2 DEF ApproveManually
  <2>5. debt' \in [ReqIds -> Debt]
    <3>1. CASE m # "debt"
      BY <1>4, <3>1 DEF TypeOK, ApproveManually
    <3>2. CASE m = "debt"
      <4>1. Cardinality(EverOpened) \in Nat
        BY ReqIdsFinite DEF EverOpened
      <4>2. PICK a \in Amounts :
               debt' = [debt EXCEPT ![r] =
                   [status |-> "open", amount |-> a, settled |-> 0,
                    opened |-> Cardinality(EverOpened)]]
        BY <1>4, <3>2 DEF ApproveManually
      <4> QED BY <4>1, <4>2, QuotaConstants DEF TypeOK, Debt
    <3> QED BY <3>1, <3>2
  <2> QED BY <1>4, <2>2, <2>3, <2>4, <2>5 DEF TypeOK, ApproveManually
<1>5. ASSUME NEW r \in ReqIds, NEW d \in {"rejected", "canceled"},
             Dismiss(w, r, d)
      PROVE  TypeOK'
  <2>1. request' \in [ReqIds -> Request \cup {NoRequest}]
    BY <1>5, DecidedTypes DEF TypeOK, Dismiss, Decided
  <2> QED BY <1>5, <2>1 DEF TypeOK, Dismiss
<1>6. ASSUME NEW s \in Sessions, CloseAuthorized(w, s)
      PROVE  TypeOK'
  <2>1. PICK S \in SUBSET ReqIds : Call(w, <<AuthorizeCall(S)>>)
    BY <1>6 DEF CloseAuthorized
  <2>2. <<AuthorizeCall(S)>> \in Seq(Frame)
    BY <2>1, FrameTypes
  <2>3. stack' \in [Workers -> Seq(Frame)] /\ dirty' \in Workers \cup {None}
    BY <2>1, <2>2, CallTypes DEF TypeOK
  <2> QED BY <1>6, <2>3 DEF TypeOK, CloseAuthorized, db
<1>7. ASSUME NEW r \in ReqIds, NEW c \in Amounts, SettleDebt(w, r, c)
      PROVE  TypeOK'
  <2>1. Settled(debt[r], c) \in Debt
    BY SettledTypes, QuotaConstants DEF TypeOK, DebtsAddUp
  <2> QED BY <1>7, <2>1 DEF TypeOK, SettleDebt
<1>8. ASSUME NEW o \in Orders, PaymentSuccess(w, o)
      PROVE  TypeOK'
  <2> DEFINE at == IF paid[o] = -1 THEN now ELSE paid[o]
             todo == {p \in Products : OrderUnits[o][p] > 0}
             settle == <<[op |-> "settle", order |-> o, left |-> OrderAmount[o]]>>
             close == IF o \in Hotmart THEN <<>>
                      ELSE <<[op |-> "close", order |-> o]>>
             rest == << [op |-> "credit", order |-> o, at |-> at, todo |-> todo],
                        [op |-> "finish", order |-> o] >>
  <2>1. at \in Times
    BY DEF TypeOK
  <2>2. OrderAmount[o] \in Nat
    BY QuotaConstants
  <2>3. settle \in Seq(Frame) /\ close \in Seq(Frame) /\ rest \in Seq(Frame)
    BY <2>1, <2>2, FrameTypes
  <2>4. settle \o close \o rest \in Seq(Frame)
    BY <2>3
  <2>5. Call(w, settle \o close \o rest)
    BY <1>8 DEF PaymentSuccess
  <2>6. stack' \in [Workers -> Seq(Frame)] /\ dirty' \in Workers \cup {None}
    <3> HIDE DEF settle, close, rest
    <3> QED BY <2>4, <2>5, CallTypes DEF TypeOK
  <2> QED BY <1>8, <2>6 DEF TypeOK, PaymentSuccess, db
<1> QED BY <1>1, <1>2, <1>3, <1>4, <1>5, <1>6, <1>7, <1>8 DEF Handler

(* The pass an enlarged free bucket starts is a sequence of frames.         *)
LEMMA ReplenishedTypes ==
    ASSUME NEW p \in Products, NEW grew
    PROVE  Replenished(p, grew) \in Seq(Frame)
<1>1. FifoCall(p, Pending(p)) \in Frame
  BY FrameTypes DEF Pending
<1> QED BY <1>1 DEF Replenished

(* A step keeps the types: what it pushes in the place of its frame is one. *)
LEMMA TypeStep ==
    ASSUME TypeOK, DebtsAddUp, \A r \in Closing : Exists(r),
           NEW w \in Workers, Step(w)
    PROVE  TypeOK'
<1> DEFINE f == Head(stack[w])
           rest == Tail(stack[w])
<1>0. stack \in [Workers -> Seq(Frame)] /\ now \in Times /\ Times \subseteq Nat
  BY QuotaConstants DEF TypeOK, Times
<1>1. CASE SettleStep(w)
  <2>1. f \in Frame /\ rest \in Seq(Frame) /\ f.order \in Orders /\ f.left \in Nat
    BY <1>0, <1>1, RunningParts, FrameFields DEF SettleStep
  <2>2. CASE Call(w, rest) /\ UNCHANGED <<debt, applied>>
    <3>1. stack' \in [Workers -> Seq(Frame)] /\ dirty' \in Workers \cup {None}
      BY <1>0, <2>1, <2>2, CallTypes
    <3> QED BY <1>1, <2>2, <3>1 DEF TypeOK, SettleStep
  <2>3. ASSUME NEW r \in OldestDebts,
               debt' = [debt EXCEPT ![r] = Settled(@, f.left)],
               applied' = [applied EXCEPT ![f.order] = @ + Lower(f.left, Owed(r))],
               Call(w, <<[f EXCEPT !.left = @ - Lower(f.left, Owed(r))]>> \o rest)
        PROVE  TypeOK'
    <3>1. r \in ReqIds /\ debt[r] \in Debt /\ debt[r].settled <= debt[r].amount
      BY DEF OldestDebts, OpenDebts, TypeOK, DebtsAddUp
    <3>2. Lower(f.left, Owed(r)) \in Nat /\ f.left - Lower(f.left, Owed(r)) \in Nat
      <4>1. f.left \in Nat /\ Owed(r) \in Nat
        <5>1. debt[r].amount \in Nat /\ debt[r].settled \in Nat
          BY <3>1 DEF Debt
        <5> QED BY <2>1, <3>1, <5>1 DEF Owed
      <4>2. \A a, b \in Nat : Lower(a, b) \in Nat /\ a - Lower(a, b) \in Nat
        BY DEF Lower
      <4> QED BY <4>1, <4>2
    <3>3. Settled(debt[r], f.left) \in Debt
      BY <2>1, <3>1, SettledTypes
    <3>4. [f EXCEPT !.left = @ - Lower(f.left, Owed(r))] \in Frame
      BY <1>0, <1>1, <2>1, <3>2, FrameFields, RunningParts DEF SettleStep
    <3>5. <<[f EXCEPT !.left = @ - Lower(f.left, Owed(r))]>> \o rest \in Seq(Frame)
      BY <2>1, <3>4
    <3>6. stack' \in [Workers -> Seq(Frame)] /\ dirty' \in Workers \cup {None}
      BY <1>0, <2>3, <3>5, CallTypes
    <3>7. debt' \in [ReqIds -> Debt]
      BY <2>3, <3>1, <3>3 DEF TypeOK
    <3>8. applied' \in [Orders -> Nat]
      <4>1. applied \in [Orders -> Nat] /\ applied[f.order] + Lower(f.left, Owed(r)) \in Nat
        BY <2>1, <3>2 DEF TypeOK
      <4> QED BY <2>3, <4>1
    <3> QED BY <1>1, <3>6, <3>7, <3>8 DEF TypeOK, SettleStep
  <2> QED BY <1>1, <2>2, <2>3 DEF SettleStep
<1>2. CASE CloseStep(w)
  <2>1. rest \in Seq(Frame) /\ Call(w, rest)
    BY <1>0, <1>2, RunningParts DEF CloseStep
  <2>2. stack' \in [Workers -> Seq(Frame)] /\ dirty' \in Workers \cup {None}
    BY <1>0, <2>1, CallTypes
  <2>3. request' \in [ReqIds -> Request \cup {NoRequest}]
    <3>1. \A o : \A r \in PaidFor(o) :
            [request[r] EXCEPT !.status = "approved", !.mode = "payment"]
                  \in Request
      BY DecidedTypes DEF PaidFor, Modes
    <3> QED BY <1>2, <3>1 DEF TypeOK, CloseStep
  <2> QED BY <1>2, <2>2, <2>3 DEF TypeOK, CloseStep
<1>3. CASE CreditStep(w)
  <2>1. /\ f \in Frame /\ rest \in Seq(Frame) /\ f.order \in Orders
        /\ f.todo \subseteq Products /\ f.at \in Times
    BY <1>0, <1>3, RunningParts, FrameFields DEF CreditStep
  <2>2. stack' \in [Workers -> Seq(Frame)] /\ dirty' \in Workers \cup {None}
    <3>1. CASE Call(w, rest)
      BY <1>0, <2>1, <3>1, CallTypes
    <3>2. ASSUME NEW p \in f.todo,
                 Call(w, << InitCall(f.at),
                            [op |-> "grant", order |-> f.order, product |-> p,
                             at |-> f.at],
                            [f EXCEPT !.todo = @ \ {p}] >> \o rest)
          PROVE  stack' \in [Workers -> Seq(Frame)] /\ dirty' \in Workers \cup {None}
      <4>1. [f EXCEPT !.todo = @ \ {p}] \in Frame
        BY <1>0, <1>3, <2>1, RunningParts, FrameFields DEF CreditStep
      <4>2. << InitCall(f.at), [op |-> "grant", order |-> f.order, product |-> p,
                                at |-> f.at],
               [f EXCEPT !.todo = @ \ {p}] >> \in Seq(Frame)
        BY <2>1, <4>1, FrameTypes
      <4>3. << InitCall(f.at), [op |-> "grant", order |-> f.order, product |-> p,
                                at |-> f.at],
               [f EXCEPT !.todo = @ \ {p}] >> \o rest \in Seq(Frame)
        BY <2>1, <4>2
      <4> QED BY <1>0, <3>2, <4>3, CallTypes
    <3> QED BY <1>3, <3>1, <3>2 DEF CreditStep
  <2> QED BY <1>3, <2>2 DEF TypeOK, CreditStep, db
<1>4. CASE GrantStep(w)
  <2> DEFINE o == f.order
             p == f.product
  <2>1. /\ rest \in Seq(Frame) /\ o \in Orders /\ p \in Products /\ f.at \in Times
    BY <1>0, <1>4, RunningParts, FrameFields DEF GrantStep
  <2> DEFINE credited(start) == Credit(bucket[p], o, OrderUnits[o][p], start)
             grew(start) == Grew(bucket[p], credited(start), o, f.at)
  <2>2. PICK start \in Starts(bucket[p], o, f.at) :
          /\ bucket' = [bucket EXCEPT ![p] = credited(start)]
          /\ Call(w, Replenished(p, grew(start)) \o rest)
    BY <1>4 DEF GrantStep
  <2>3. bucket' \in [Products -> [Keys -> Bucket]]
    <3>1. bucket[p] \in [Keys -> Bucket] /\ OrderUnits[o][p] \in Nat
      BY <2>1, QuotaConstants DEF TypeOK
    <3>2. start \in Nat
      BY <1>0, <2>1, <2>2, <3>1, BucketTypes
    <3>3. Credit(bucket[p], o, OrderUnits[o][p], start) \in [Keys -> Bucket]
      BY <2>1, <3>1, <3>2, BucketTypes
    <3> QED BY <2>1, <2>2, <3>3 DEF TypeOK
  <2>4. stack' \in [Workers -> Seq(Frame)] /\ dirty' \in Workers \cup {None}
    <3>1. Replenished(p, grew(start)) \o rest \in Seq(Frame)
      BY <2>1, ReplenishedTypes
    <3> QED BY <1>0, <2>2, <3>1, CallTypes
  <2> QED BY <1>4, <2>3, <2>4 DEF TypeOK, GrantStep
<1>5. CASE FinishStep(w)
  <2>1. rest \in Seq(Frame) /\ f.order \in Orders /\ Call(w, rest)
    BY <1>0, <1>5, RunningParts, FrameFields DEF FinishStep
  <2>2. stack' \in [Workers -> Seq(Frame)] /\ dirty' \in Workers \cup {None}
    BY <1>0, <2>1, CallTypes
  <2>3. /\ OrderSession[f.order] \in Sessions \cup {None}
        /\ OrderProduct[f.order] \in Products
    BY <2>1, QuotaConstants
  <2>4. ent' \subseteq (Sessions \cup {None}) \X Products
    <3>1. ent' = ent \cup {<<OrderSession[f.order], OrderProduct[f.order]>>}
      BY <1>5 DEF FinishStep
    <3>2. ent \subseteq (Sessions \cup {None}) \X Products
      BY DEF TypeOK
    <3> QED BY <2>3, <3>1, <3>2
  <2>5. paid' \in [Orders -> Times \cup {-1}]
    <3>1. PICK t \in {paid[f.order], now} : paid' = [paid EXCEPT ![f.order] = t]
      BY <1>5, <2>1 DEF FinishStep, TypeOK
    <3>2. paid \in [Orders -> Times \cup {-1}] /\ now \in Times
      BY DEF TypeOK
    <3> QED BY <2>1, <3>1, <3>2
  <2> QED BY <1>5, <2>2, <2>4, <2>5 DEF TypeOK, FinishStep
<1>6. CASE InitStep(w)
  <2>1. /\ f \in Frame /\ rest \in Seq(Frame) /\ f.todo \subseteq Products
        /\ f.at \in Times
    BY <1>0, <1>6, RunningParts, FrameFields DEF InitStep
  <2>2. CASE Call(w, rest) /\ UNCHANGED bucket
    <3>1. stack' \in [Workers -> Seq(Frame)] /\ dirty' \in Workers \cup {None}
      BY <1>0, <2>1, <2>2, CallTypes
    <3> QED BY <1>6, <2>2, <3>1 DEF TypeOK, InitStep
  <2> DEFINE synced(p) == SyncFree(bucket[p], config[p], f.at)
             grew(p) == Grew(bucket[p], synced(p), Free, f.at)
  <2>3. ASSUME NEW p \in f.todo,
               bucket' = [bucket EXCEPT ![p] = synced(p)],
               Call(w, Replenished(p, grew(p)) \o <<[f EXCEPT !.todo = @ \ {p}]>>
                          \o rest)
        PROVE  TypeOK'
    <3>1. synced(p) \in [Keys -> Bucket]
      BY <1>0, <2>1, BucketTypes DEF TypeOK
    <3>2. [f EXCEPT !.todo = @ \ {p}] \in Frame
      BY <1>0, <1>6, <2>1, RunningParts, FrameFields DEF InitStep
    <3>3. Replenished(p, grew(p)) \in Seq(Frame)
      BY <2>1, ReplenishedTypes
    <3>4. Replenished(p, grew(p)) \o <<[f EXCEPT !.todo = @ \ {p}]>> \o rest
             \in Seq(Frame)
      BY <2>1, <3>2, <3>3
    <3>5. stack' \in [Workers -> Seq(Frame)] /\ dirty' \in Workers \cup {None}
      BY <1>0, <2>3, <3>4, CallTypes
    <3> QED BY <1>6, <2>1, <2>3, <3>1, <3>5 DEF TypeOK, InitStep
  <2> QED BY <1>6, <2>2, <2>3 DEF InitStep
<1>7. CASE FifoStep(w)
  <2>1. /\ f \in Frame /\ rest \in Seq(Frame) /\ f.todo \subseteq ReqIds
    BY <1>0, <1>7, RunningParts, FrameFields DEF FifoStep
  <2>2. stack' \in [Workers -> Seq(Frame)] /\ dirty' \in Workers \cup {None}
    <3>1. CASE Call(w, rest)
      BY <1>0, <2>1, <3>1, CallTypes
    <3>2. ASSUME NEW r \in Oldest(f.todo),
                 Call(w, (IF MayAutoApprove(r)
                            THEN <<InitCall(now), ChargeCall(r)>> ELSE <<>>)
                          \o <<[f EXCEPT !.todo = @ \ {r}]>> \o rest)
          PROVE  stack' \in [Workers -> Seq(Frame)] /\ dirty' \in Workers \cup {None}
      <4> DEFINE calls == IF MayAutoApprove(r)
                            THEN <<InitCall(now), ChargeCall(r)>> ELSE <<>>
      <4>1. [f EXCEPT !.todo = @ \ {r}] \in Frame
        BY <1>0, <1>7, <2>1, RunningParts, FrameFields DEF FifoStep
      <4>2. calls \in Seq(Frame)
        BY <1>0, <2>1, FrameTypes DEF Oldest
      <4>3. calls \o <<[f EXCEPT !.todo = @ \ {r}]>> \o rest \in Seq(Frame)
        BY <2>1, <4>1, <4>2
      <4> HIDE DEF calls
      <4> QED BY <1>0, <3>2, <4>3, CallTypes DEF calls
    <3> QED BY <1>7, <3>1, <3>2 DEF FifoStep
  <2> QED BY <1>7, <2>2 DEF TypeOK, FifoStep, db
<1>8. CASE ChargeStep(w)
  <2> DEFINE r == f.req
             p == request[r].product
  <2>1. rest \in Seq(Frame) /\ r \in ReqIds
    BY <1>0, <1>8, RunningParts, FrameFields DEF ChargeStep
  <2>2. CASE ~StillDue(r)
    <3>1. Call(w, rest) /\ UNCHANGED <<bucket, request, ledger, debt, ent>>
      BY <1>8, <2>2 DEF ChargeStep
    <3>2. stack' \in [Workers -> Seq(Frame)] /\ dirty' \in Workers \cup {None}
      BY <1>0, <2>1, <3>1, CallTypes
    <3> QED BY <1>8, <3>1, <3>2 DEF TypeOK, ChargeStep
  <2>3. CASE StillDue(r)
    <3>1. request[r] \in Request /\ p \in Products /\ request[r].session \in Sessions
      BY <2>1, <2>3, PendingTypes DEF StillDue
    <3>2. PICK k \in Heads(bucket[p], now) :
             /\ bucket' = [bucket EXCEPT ![p] = TakeUnit(@, k)]
             /\ ledger' = [ledger EXCEPT ![r] = @ \cup {k}]
      BY <1>8, <2>3 DEF ChargeStep
    <3>3. bucket' \in [Products -> [Keys -> Bucket]] /\ ledger' \in [ReqIds -> SUBSET Keys]
      <4>1. k \in Keys
        BY DEF Heads
      <4>2. TakeUnit(bucket[p], k) \in [Keys -> Bucket]
        BY <1>0, <3>1, <4>1, BucketTypes DEF TypeOK
      <4> QED BY <2>1, <3>1, <3>2, <4>1, <4>2 DEF TypeOK
    <3>4. request' \in [ReqIds -> Request \cup {NoRequest}]
      <4>1. request' = Approved(r, "balance")
        BY <1>8, <2>3 DEF ChargeStep
      <4>2. [request[r] EXCEPT !.status = "approved", !.mode = "balance"] \in Request
        BY <2>1, <2>3, DecidedTypes DEF StillDue, Modes
      <4> QED BY <2>1, <4>1, <4>2 DEF TypeOK, Approved
    <3>5. debt' \in [ReqIds -> Debt]
      <4>1. \A q \in ReqIds : Settled(debt[q], Owed(q)) \in Debt
        <5> SUFFICES ASSUME NEW q \in ReqIds
                     PROVE  Settled(debt[q], Owed(q)) \in Debt
          OBVIOUS
        <5>1. debt[q] \in Debt /\ debt[q].settled <= debt[q].amount
          BY DEF TypeOK, DebtsAddUp
        <5>2. Owed(q) \in Nat
          BY <5>1 DEF Owed, Debt
        <5> QED BY <5>1, <5>2, SettledTypes
      <4>2. debt' = [q \in ReqIds |->
                        IF q \in OpenDebts /\ request[q].product = p
                          THEN Settled(debt[q], Owed(q)) ELSE debt[q]]
        BY <1>8, <2>3 DEF ChargeStep
      <4>3. \A q \in ReqIds : debt[q] \in Debt
        BY DEF TypeOK
      <4> QED BY <4>1, <4>2, <4>3
    <3>6. ent' \subseteq (Sessions \cup {None}) \X Products
      <4>1. ent' = ent \cup {<<request[r].session, p>>}
        BY <1>8, <2>3 DEF ChargeStep, Entitled
      <4>2. ent \subseteq (Sessions \cup {None}) \X Products
        BY DEF TypeOK
      <4>3. <<request[r].session, p>> \in (Sessions \cup {None}) \X Products
        BY <3>1
      <4> QED BY <4>1, <4>2, <4>3
    <3>7. stack' \in [Workers -> Seq(Frame)] /\ dirty' \in Workers \cup {None}
      BY <1>0, <1>8, <2>1, <2>3 DEF ChargeStep
    <3> QED BY <1>8, <3>3, <3>4, <3>5, <3>6, <3>7 DEF TypeOK, ChargeStep
  <2> QED BY <2>2, <2>3
<1>9. CASE AuthorizeStep(w)
  <2>1. /\ f \in Frame /\ rest \in Seq(Frame) /\ f.todo \subseteq ReqIds
    BY <1>0, <1>9, RunningParts, FrameFields DEF AuthorizeStep
  <2>2. CASE Call(w, rest) /\ UNCHANGED request
    <3>1. stack' \in [Workers -> Seq(Frame)] /\ dirty' \in Workers \cup {None}
      BY <1>0, <2>1, <2>2, CallTypes
    <3> QED BY <1>9, <2>2, <3>1 DEF TypeOK, AuthorizeStep
  <2>3. ASSUME NEW r \in f.todo, request' = Approved(r, "authorized"),
               stack' = [stack EXCEPT ![w] = <<[f EXCEPT !.todo = @ \ {r}]>> \o Tail(@)],
               dirty' \in {None, w}
        PROVE  TypeOK'
    <3>1. r \in ReqIds /\ request[r] \in Request
      <4>1. r \in Closing
        BY <1>0, <1>9, <2>1, <2>3, TakenFirst DEF AuthorizeStep, Running, Closing
      <4> QED BY <2>1, <4>1 DEF TypeOK, Exists, NoRequest
    <3>2. request' \in [ReqIds -> Request \cup {NoRequest}]
      <4>1. [request[r] EXCEPT !.status = "approved", !.mode = "authorized"] \in Request
        BY <3>1 DEF Request, Decided, Modes
      <4> QED BY <2>3, <3>1, <4>1 DEF TypeOK, Approved
    <3>3. [f EXCEPT !.todo = @ \ {r}] \in Frame
      BY <1>0, <1>9, <2>1, RunningParts, FrameFields DEF AuthorizeStep
    <3>4. <<[f EXCEPT !.todo = @ \ {r}]>> \o rest \in Seq(Frame)
      BY <2>1, <3>3
    <3>5. stack' \in [Workers -> Seq(Frame)] /\ dirty' \in Workers \cup {None}
      BY <1>0, <2>3, <3>4
    <3> QED BY <1>9, <3>2, <3>5 DEF TypeOK, AuthorizeStep
  <2> QED BY <1>9, <2>2, <2>3 DEF AuthorizeStep, Oldest
<1> QED BY <1>1, <1>2, <1>3, <1>4, <1>5, <1>6, <1>7, <1>8, <1>9 DEF Step

-----------------------------------------------------------------------------
(* The promise of AccessDecisions, with the lemmas proved about it.  It is  *)
(* the instance Decisions of CommercialQuota.                               *)
Promise == INSTANCE AccessDecisionsProofs WITH
    Requests <- ReqIds, Buckets <- Keys,
    status   <- [r \in ReqIds |-> request[r].status],
    product  <- [r \in ReqIds |-> request[r].product],
    mode     <- [r \in ReqIds |-> request[r].mode],
    booked   <- ledger,
    spent    <- [p \in Products |-> [k \in Keys |-> bucket[p][k].consumed]],
    closing  <- Closing

(* Synchronising or crediting a bucket keeps what was consumed of it, a     *)
(* unit taken adds one to the consumption of its bucket only.               *)
LEMMA BucketConsumed ==
    ASSUME NEW bs \in [Keys -> Bucket], NEW k \in Keys
    PROVE  /\ \A c, t : SyncFree(bs, c, t)[k].consumed = bs[k].consumed
           /\ \A o \in Orders : \A n, t :
                 Credit(bs, o, n, t)[k].consumed = bs[k].consumed
           /\ \A l \in Keys : TakeUnit(bs, l)[k].consumed =
                 IF k = l THEN bs[k].consumed + 1 ELSE bs[k].consumed
<1>1. Free \in Keys /\ Orders \subseteq Keys
  BY DEF Keys
<1>2. \A c, t : SyncFree(bs, c, t)[k].consumed = bs[k].consumed
  BY <1>1 DEF SyncFree
<1>3. \A o \in Orders : \A n, t :
         Credit(bs, o, n, t)[k].consumed = bs[k].consumed
  BY <1>1 DEF Credit
<1>4. \A l \in Keys : TakeUnit(bs, l)[k].consumed =
         IF k = l THEN bs[k].consumed + 1 ELSE bs[k].consumed
  BY DEF TakeUnit, Bucket
<1> QED BY <1>2, <1>3, <1>4

(* A step that decides nothing and takes no unit is invisible. *)
LEMMA Invisible ==
    ASSUME UNCHANGED <<request, ledger>>, UNCHANGED Closing,
           \A p \in Products, k \in Keys :
              bucket'[p][k].consumed = bucket[p][k].consumed
    PROVE  UNCHANGED Promise!vars
<1> QED BY DEF Promise!vars

(* Requests approved together, with nothing charged. *)
LEMMA ApprovedTogether ==
    ASSUME TypeOK, UNCHANGED <<ledger, bucket>>, UNCHANGED Closing,
           NEW S \in SUBSET ReqIds, NEW m \in Promise!Unfunded,
           \A r \in S : request[r].status = "pending",
           request' = [r \in ReqIds |->
                         IF r \in S THEN [request[r] EXCEPT !.status = "approved",
                                                            !.mode = m]
                         ELSE request[r]]
    PROVE  Promise!Next
<1>1. \A r \in S : request[r] \in Request
  BY PendingTypes
<1>2. \A r \in ReqIds :
         /\ request'[r].status = IF r \in S THEN "approved" ELSE request[r].status
         /\ request'[r].mode = IF r \in S THEN m ELSE request[r].mode
         /\ request'[r].product = request[r].product
  BY <1>1 DEF Request
<1>3. S \subseteq Promise!Waiting
  BY DEF Promise!Waiting
<1>4. Promise!Approve(S, m)
  <2>1. [r \in ReqIds |-> request'[r].status]
          = [r \in ReqIds |-> IF r \in S THEN "approved"
                ELSE [q \in ReqIds |-> request[q].status][r]]
    BY <1>2
  <2>2. [r \in ReqIds |-> request'[r].mode]
          = [r \in ReqIds |-> IF r \in S THEN m
                ELSE [q \in ReqIds |-> request[q].mode][r]]
    BY <1>2
  <2>3. [r \in ReqIds |-> request'[r].product]
          = [r \in ReqIds |-> request[r].product]
    BY <1>2
  <2> QED BY <1>3, <2>1, <2>2, <2>3 DEF Promise!Approve
<1> QED BY <1>4 DEF Promise!Next

(* One unit more at one key.                                                *)
LEMMA OneMore ==
    ASSUME NEW f, f = [l \in Keys |-> f[l]], NEW k \in Keys,
           NEW g, g = [l \in Keys |-> IF l = k THEN f[l] + 1 ELSE f[l]]
    PROVE  g = [f EXCEPT ![k] = @ + 1]
OBVIOUS

(* A request approved with a unit of bucket k. *)
LEMMA ApprovedCharged ==
    ASSUME TypeOK, NEW r \in ReqIds, request[r].status = "pending",
           NEW m \in Promise!Charging, NEW k \in Keys,
           request' = Approved(r, m),
           bucket' = [bucket EXCEPT ![request[r].product] = TakeUnit(@, k)],
           ledger' = [ledger EXCEPT ![r] = @ \cup {k}],
           UNCHANGED Closing
    PROVE  Promise!Next
<1> DEFINE p == request[r].product
<1>1. request[r] \in Request /\ p \in Products
  BY PendingTypes
<1>2. \A q \in ReqIds :
         /\ request'[q].status = IF q = r THEN "approved" ELSE request[q].status
         /\ request'[q].mode = IF q = r THEN m ELSE request[q].mode
         /\ request'[q].product = request[q].product
  BY <1>1 DEF Approved, TypeOK, Request
<1>3. \A q \in Products, l \in Keys :
         bucket'[q][l].consumed = IF q = p /\ l = k THEN bucket[q][l].consumed + 1
                                  ELSE bucket[q][l].consumed
  <2> SUFFICES ASSUME NEW q \in Products, NEW l \in Keys
               PROVE  bucket'[q][l].consumed =
                        IF q = p /\ l = k THEN bucket[q][l].consumed + 1
                                  ELSE bucket[q][l].consumed
    OBVIOUS
  <2>1. bucket[q] \in [Keys -> Bucket] /\ bucket \in [Products -> [Keys -> Bucket]]
    BY DEF TypeOK
  <2>2. bucket'[q] = IF q = p THEN TakeUnit(bucket[q], k) ELSE bucket[q]
    BY <2>1
  <2> QED BY <2>1, <2>2, BucketConsumed
<1>4. Promise!Charge(r, m, k)
  <2> DEFINE status == [q \in ReqIds |-> request[q].status]
             mode == [q \in ReqIds |-> request[q].mode]
             product == [q \in ReqIds |-> request[q].product]
             spent == [q \in Products |-> [l \in Keys |-> bucket[q][l].consumed]]
  <2>1. status' = [status EXCEPT ![r] = "approved"]
    BY <1>2
  <2>2. mode' = [mode EXCEPT ![r] = m]
    BY <1>2
  <2>3. product' = product /\ product[r] = p
    BY <1>2
  <2>4. spent' = [spent EXCEPT ![p][k] = @ + 1]
    <3>1. spent'[p] = [spent[p] EXCEPT ![k] = @ + 1]
      <4>1. spent[p] = [l \in Keys |-> bucket[p][l].consumed]
        BY <1>1
      <4>2. spent'[p] = [l \in Keys |-> bucket'[p][l].consumed]
        BY <1>1
      <4>3. \A l \in Keys : bucket'[p][l].consumed =
                IF l = k THEN bucket[p][l].consumed + 1 ELSE bucket[p][l].consumed
        BY <1>1, <1>3
      <4>4. spent'[p] = [l \in Keys |-> IF l = k THEN spent[p][l] + 1 ELSE spent[p][l]]
        <5>1. \A l \in Keys : spent[p][l] = bucket[p][l].consumed
          BY <4>1
        <5> HIDE DEF p, spent
        <5> QED BY <4>2, <4>3, <5>1, SMTT(30)
      <4>5. spent[p] = [l \in Keys |-> spent[p][l]]
        BY <4>1
      <4> HIDE DEF p, spent
      <4> QED BY <4>4, <4>5, OneMore
    <3>2. \A q \in Products \ {p} : spent'[q] = spent[q]
      BY <1>3
    <3> QED BY <1>1, <3>1, <3>2
  <2>5. r \in Promise!Waiting
    BY DEF Promise!Waiting
  <2>6. spent' = [spent EXCEPT ![product[r]][k] = @ + 1]
    BY <2>3, <2>4
  <2> QED BY <2>1, <2>2, <2>3, <2>5, <2>6 DEF Promise!Charge
<1> QED BY <1>4 DEF Promise!Next

(* A worker that is idle has taken nothing up.                              *)
LEMMA CallFromIdle ==
    ASSUME TypeOK, NEW w \in Workers, Idle(w), NEW frames \in Seq(Frame),
           Call(w, frames)
    PROVE  Closing' = Closing \cup TakenBy(frames)
<1>1. TakenBy(stack[w]) = {}
  <2>1. Len(stack[w]) = 0
    BY DEF Idle
  <2> QED BY <2>1, TakenNothing
<1>2. stack' = [stack EXCEPT ![w] = frames] /\ stack \in [Workers -> Seq(Frame)]
  BY DEF Call, TypeOK
<1>3. PICK others \in SUBSET ReqIds : /\ Closing = others \cup TakenBy(stack[w])
                                     /\ Closing' = others \cup TakenBy(frames)
  BY <1>2, ClosingCall
<1> QED BY <1>1, <1>3

(* Only CloseAuthorized takes requests up.                                  *)
LEMMA HandlerKeepsClosing ==
    ASSUME TypeOK, NEW w \in Workers, Handler(w),
           \A s \in Sessions : ~CloseAuthorized(w, s)
    PROVE  UNCHANGED Closing
<1>1. ASSUME UNCHANGED stack
      PROVE  UNCHANGED Closing
  BY <1>1 DEF Closing
<1>2. ASSUME Idle(w), NEW frames \in Seq(Frame), Call(w, frames),
             TakenBy(frames) = {}
      PROVE  UNCHANGED Closing
  BY <1>2, CallFromIdle
<1>3. ASSUME NEW p \in Products, NEW c \in Configs, EditQuotaProduct(w, p, c)
      PROVE  UNCHANGED Closing
  <2> DEFINE f == [op |-> "init", todo |-> {p}, at |-> now]
  <2>1. f \in Frame /\ f.op # "authorize"
    BY DEF TypeOK, Frame
  <2>2. Idle(w) /\ Call(w, <<f>>)
    BY <1>3 DEF EditQuotaProduct
  <2> HIDE DEF f
  <2>3. <<f>> \in Seq(Frame) /\ TakenBy(<<f>>) = {}
    BY <2>1, TakenOne
  <2> QED BY <1>2, <2>2, <2>3
<1>4. ASSUME NEW s \in Sessions, NEW a \in Askers, NEW p \in Products,
             RequestAccess(w, s, a, p)
      PROVE  UNCHANGED Closing
  <2>1. PICK r \in ReqIds : Call(w, IF HasOpenDebt(p) THEN <<>>
                                    ELSE <<InitCall(now), ChargeCall(r)>>)
    BY <1>4 DEF RequestAccess
  <2> DEFINE new == IF HasOpenDebt(p) THEN <<>> ELSE <<InitCall(now), ChargeCall(r)>>
  <2>2. InitCall(now) \in Frame /\ ChargeCall(r) \in Frame
        /\ InitCall(now).op # "authorize" /\ ChargeCall(r).op # "authorize"
    BY <2>1, FrameTypes DEF TypeOK, InitCall, ChargeCall
  <2>3. new \in Seq(Frame) /\ \A i \in 1..Len(new) : new[i].op # "authorize"
    BY <2>2
  <2>4. Idle(w) /\ Call(w, new)
    BY <1>4, <2>1 DEF RequestAccess
  <2> HIDE DEF new
  <2> QED BY <1>2, <2>3, <2>4, TakenNothing
<1>5. ASSUME NEW o \in Orders, PaymentSuccess(w, o)
      PROVE  UNCHANGED Closing
  <2> DEFINE at == IF paid[o] = -1 THEN now ELSE paid[o]
             todo == {p \in Products : OrderUnits[o][p] > 0}
             f1 == [op |-> "settle", order |-> o, left |-> OrderAmount[o]]
             f2 == [op |-> "close", order |-> o]
             f3 == [op |-> "credit", order |-> o, at |-> at, todo |-> todo]
             f4 == [op |-> "finish", order |-> o]
             close == IF o \in Hotmart THEN <<>> ELSE <<f2>>
  <2>1. f1 \in Frame /\ f2 \in Frame /\ f3 \in Frame /\ f4 \in Frame
    <3>1. at \in Times /\ OrderAmount[o] \in Nat
      BY QuotaConstants DEF TypeOK
    <3> QED BY <3>1, FrameTypes
  <2>2. f1.op # "authorize" /\ f2.op # "authorize" /\ f3.op # "authorize" /\ f4.op # "authorize"
    OBVIOUS
  <2>3. Idle(w) /\ Call(w, <<f1>> \o close \o <<f3, f4>>)
    BY <1>5 DEF PaymentSuccess
  <2> HIDE DEF f1, f2, f3, f4
  <2>4. <<f1>> \in Seq(Frame) /\ close \in Seq(Frame) /\ <<f3, f4>> \in Seq(Frame)
    BY <2>1
  <2>5. TakenBy(<<f1>>) = {} /\ TakenBy(close) = {} /\ TakenBy(<<f3, f4>>) = {}
    <3>1. \A i \in 1..Len(<<f3, f4>>) : <<f3, f4>>[i].op # "authorize"
      BY <2>2
    <3>2. \A i \in 1..Len(close) : close[i].op # "authorize"
      BY <2>2
    <3> HIDE DEF close
    <3> QED BY <2>2, <3>1, <3>2, TakenNothing, TakenOne
  <2> HIDE DEF close
  <2> DEFINE before == <<f1>> \o close
             after == <<f3, f4>>
  <2>6. before \in Seq(Frame) /\ after \in Seq(Frame) /\ before \o after \in Seq(Frame)
    BY <2>4
  <2>7. TakenBy(before) = {} /\ TakenBy(after) = {}
    <3>1. TakenBy(<<f1>> \o close) = {}
      BY <2>4, <2>5, TakenJoined
    <3>2. TakenBy(after) = {}
      BY <2>5
    <3> HIDE DEF after
    <3> QED BY <3>1, <3>2
  <2>8. Call(w, before \o after)
    BY <2>3
  <2> HIDE DEF before, after
  <2>9. TakenBy(before \o after) = {}
    BY <2>6, <2>7, TakenJoined
  <2> QED BY <1>2, <2>3, <2>6, <2>8, <2>9
<1> QED BY <1>1, <1>3, <1>4, <1>5 DEF Handler, EditWorkspaceOverride, ApproveManually,
        Dismiss, SettleDebt

(* A step lets requests go as it approves them, and only then.              *)
LEMMA StepKeepsClosing ==
    ASSUME TypeOK, DebtsAddUp, NEW w \in Workers, Step(w)
    PROVE  \/ UNCHANGED Closing /\ (~AuthorizeStep(w) \/ UNCHANGED request)
           \/ /\ AuthorizeStep(w)
              /\ \E r \in Closing : /\ request' = Approved(r, "authorized")
                                     /\ Closing' \in {Closing, Closing \ {r}}
<1> DEFINE f == Head(stack[w])
           rest == Tail(stack[w])
<1>1. /\ stack[w] \in Seq(Frame) /\ stack[w] # <<>> /\ rest \in Seq(Frame)
      /\ f = stack[w][1] /\ f \in Frame /\ <<f>> \in Seq(Frame)
  <2>1. stack[w] \in Seq(Frame) /\ stack[w] # <<>>
    BY StepMoves
  <2>2. rest \in Seq(Frame) /\ f = stack[w][1] /\ f \in Frame
    BY <2>1
  <2> QED BY <2>1, <2>2
<1>2. TakenBy(stack[w]) = TakenBy(<<f>>) \cup TakenBy(rest)
  BY <1>1, TakenTop
<1>3. ASSUME NEW new \in Seq(Frame), Moves(w, new)
      PROVE  \E others \in SUBSET ReqIds :
                /\ Closing = others \cup TakenBy(<<f>>) \cup TakenBy(rest)
                /\ Closing' = others \cup TakenBy(new) \cup TakenBy(rest)
  <2>1. stack' = [stack EXCEPT ![w] = new \o rest] /\ stack \in [Workers -> Seq(Frame)]
    BY <1>3 DEF Moves, TypeOK
  <2>2. TakenBy(new \o rest) = TakenBy(new) \cup TakenBy(rest)
    BY <1>1, <1>3, TakenJoined
  <2>3. PICK others \in SUBSET ReqIds : /\ Closing = others \cup TakenBy(stack[w])
                                       /\ Closing' = others \cup TakenBy(new \o rest)
    BY <2>1, ClosingCall
  <2>4. /\ Closing = others \cup TakenBy(<<f>>) \cup TakenBy(rest)
        /\ Closing' = others \cup TakenBy(new) \cup TakenBy(rest)
    BY <1>2, <2>2, <2>3
  <2> QED BY <2>3, <2>4
<1>4. CASE ~AuthorizeStep(w)
  <2>1. PICK new \in Seq(Frame) : Moves(w, new)
    BY StepMoves
  <2>2. f.op # "authorize"
    <3>1. \E op \in {"settle", "close", "credit", "grant", "finish", "init", "fifo", "charge"} :
             Running(w, op)
      BY <1>4 DEF Step, SettleStep, CloseStep, CreditStep, GrantStep, FinishStep,
                  InitStep, FifoStep, ChargeStep
    <3> QED BY <3>1 DEF Running
  <2>3. TakenBy(<<f>>) = {}
    BY <2>2, TakenOne
  <2>4. \A i \in 1..Len(new) : new[i].op # "authorize"
    BY <1>1, <2>1, <2>2 DEF Moves, MoveOf, Proper
  <2>5. TakenBy(new) = {}
    BY <2>4, TakenNothing
  <2>6. PICK others \in SUBSET ReqIds :
           /\ Closing = others \cup TakenBy(<<f>>) \cup TakenBy(rest)
           /\ Closing' = others \cup TakenBy(new) \cup TakenBy(rest)
    BY <1>3, <2>1
  <2> QED BY <1>4, <2>3, <2>5, <2>6
<1>5. CASE AuthorizeStep(w)
  <2>1. f.op = "authorize" /\ f.todo \subseteq ReqIds
    BY <1>1, <1>5, FrameFields DEF AuthorizeStep, Running
  <2>2. TakenBy(<<f>>) = f.todo
    BY <2>1, TakenOne
  <2>3. CASE f.todo = {} /\ Call(w, rest) /\ UNCHANGED request
    <3>1. <<>> \in Seq(Frame) /\ <<>> \o rest = rest
      BY <1>1
    <3>2. Moves(w, <<>>)
      BY <2>3, <3>1 DEF Moves, MoveOf, Call
    <3>3. PICK others \in SUBSET ReqIds :
             /\ Closing = others \cup TakenBy(<<f>>) \cup TakenBy(rest)
             /\ Closing' = others \cup TakenBy(<<>>) \cup TakenBy(rest)
      BY <1>3, <3>1, <3>2
    <3>4. TakenBy(<<>>) = {}
      BY TakenNothing
    <3> QED BY <2>2, <2>3, <3>3, <3>4
  <2>4. ASSUME NEW r \in f.todo, request' = Approved(r, "authorized"),
               stack' = [stack EXCEPT ![w] = <<[f EXCEPT !.todo = @ \ {r}]>> \o Tail(@)]
        PROVE  \E q \in Closing : /\ request' = Approved(q, "authorized")
                                  /\ Closing' \in {Closing, Closing \ {q}}
    <3> DEFINE c == [f EXCEPT !.todo = f.todo \ {r}]
    <3>1. c \in Frame /\ c.op = "authorize" /\ c.todo = f.todo \ {r}
      BY <1>1, <2>1, FrameFields, FrameStays
    <3>2. stack' = [stack EXCEPT ![w] = <<c>> \o rest]
      BY <2>4
    <3> HIDE DEF c
    <3>3. <<c>> \in Seq(Frame) /\ Len(<<c>>) = 1 /\ <<c>>[1] = c
      BY <3>1
    <3>4. Moves(w, <<c>>)
      BY <1>1, <2>1, <3>1, <3>2, <3>3 DEF Moves, MoveOf
    <3>5. TakenBy(<<c>>) = f.todo \ {r}
      BY <2>1, <3>1, TakenOne
    <3>6. PICK others \in SUBSET ReqIds :
             /\ Closing = others \cup TakenBy(<<f>>) \cup TakenBy(rest)
             /\ Closing' = others \cup TakenBy(<<c>>) \cup TakenBy(rest)
      BY <1>3, <3>3, <3>4
    <3>7. r \in Closing /\ Closing' \in {Closing, Closing \ {r}}
      BY <2>2, <2>4, <3>5, <3>6
    <3> QED BY <2>4, <3>7
  <2> QED BY <1>5, <2>3, <2>4 DEF AuthorizeStep, Oldest
<1> QED BY <1>4, <1>5

(* Any other handler opens, dismisses or approves requests, or is invisible. *)
LEMMA OtherHandler ==
    ASSUME TypeOK, NEW w \in Workers, Handler(w),
           \A s \in Sessions : ~CloseAuthorized(w, s)
    PROVE  Promise!Next \/ UNCHANGED Promise!vars
<1>0. UNCHANGED Closing
  BY HandlerKeepsClosing
<1>1. ASSUME NEW p \in Products, NEW c \in Configs,
             EditQuotaProduct(w, p, c) \/ EditWorkspaceOverride(w, p, c)
      PROVE  UNCHANGED Promise!vars
  BY <1>0, <1>1, Invisible DEF EditQuotaProduct, EditWorkspaceOverride
<1>2. ASSUME NEW s \in Sessions, NEW a \in Askers, NEW p \in Products,
             RequestAccess(w, s, a, p)
      PROVE  Promise!Next
  <2>1. PICK r \in ReqIds :
          /\ ~Exists(r)
          /\ request' = [request EXCEPT ![r] =
                [status |-> "pending", product |-> p, session |-> s,
                 asker |-> a, mode |-> "none"]]
    <3>1. PICK r \in ReqIds :
            /\ \A q \in ReqIds : Exists(q) <=> q < r
            /\ request' = [request EXCEPT ![r] =
                  [status |-> "pending", product |-> p, session |-> s,
                   asker |-> a, mode |-> "none"]]
      BY <1>2 DEF RequestAccess
    <3>2. ~(r < r)
      BY QuotaConstants DEF ReqIds
    <3> QED BY <3>1, <3>2
  <2>2. request[r].mode = "none" /\ request[r].status = "absent"
    <3>1. request[r].status = "absent"
      BY <2>1 DEF Exists
    <3>2. request[r] \notin Request
      BY <3>1 DEF Request, Decided
    <3>3. request[r] = NoRequest
      BY <3>2 DEF TypeOK
    <3> QED BY <3>1, <3>3 DEF NoRequest
  <2>3. \A q \in ReqIds :
          /\ request'[q].status = IF q = r THEN "pending" ELSE request[q].status
          /\ request'[q].product = IF q = r THEN p ELSE request[q].product
          /\ request'[q].mode = request[q].mode
    BY <2>1, <2>2 DEF TypeOK
  <2>4. Promise!Open(r, p)
    <3>1. [q \in ReqIds |-> request'[q].status]
            = [[q \in ReqIds |-> request[q].status] EXCEPT ![r] = "pending"]
      BY <2>3
    <3>2. [q \in ReqIds |-> request'[q].product]
            = [[q \in ReqIds |-> request[q].product] EXCEPT ![r] = p]
      BY <2>3
    <3>3. [q \in ReqIds |-> request'[q].mode]
            = [q \in ReqIds |-> request[q].mode]
      BY <2>3
    <3>4. UNCHANGED <<ledger, bucket>>
      BY <1>2 DEF RequestAccess
    <3> QED BY <1>0, <2>2, <3>1, <3>2, <3>3, <3>4 DEF Promise!Open
  <2> QED BY <2>4 DEF Promise!Next
<1>3. ASSUME NEW r \in ReqIds, NEW m \in {"override", "courtesy", "manual", "debt"},
             ApproveManually(w, r, m)
      PROVE  Promise!Next
  <2>1. request[r].status = "pending" /\ request' = Approved(r, m)
    BY <1>3 DEF ApproveManually
  <2>2. CASE UNCHANGED <<bucket, ledger>>
    <3>1. request' = [q \in ReqIds |->
                         IF q \in {r} THEN [request[q] EXCEPT !.status = "approved",
                                                              !.mode = m]
                         ELSE request[q]]
      BY <2>1 DEF Approved, TypeOK
    <3>2. /\ {r} \in SUBSET ReqIds /\ m \in Promise!Unfunded
          /\ \A q \in {r} : request[q].status = "pending"
      BY <1>3, <2>1 DEF Promise!Unfunded
    <3> QED BY <1>0, <2>2, <3>1, <3>2, ApprovedTogether
  <2>3. ASSUME m = "override", NEW k \in Heads(bucket[request[r].product], now),
               bucket' = [bucket EXCEPT ![request[r].product] = TakeUnit(@, k)],
               ledger' = [ledger EXCEPT ![r] = @ \cup {k}]
        PROVE  Promise!Next
    BY <1>0, <2>1, <2>3, ApprovedCharged DEF Heads, Promise!Charging
  <2> QED BY <1>3, <2>2, <2>3 DEF ApproveManually
<1>4. ASSUME NEW r \in ReqIds, NEW d \in {"rejected", "canceled"},
             Dismiss(w, r, d)
      PROVE  Promise!Next
  <2>1. request[r].status = "pending" /\ UNCHANGED <<ledger, bucket>>
    BY <1>4 DEF Dismiss
  <2>2. request[r] \in Request
    BY <2>1, PendingTypes
  <2>3. \A q \in ReqIds :
          /\ request'[q].status = IF q = r THEN d ELSE request[q].status
          /\ request'[q].product = request[q].product
          /\ request'[q].mode = request[q].mode
    BY <1>4, <2>2 DEF Dismiss, TypeOK, Request
  <2>4. Promise!Dismiss(r)
    <3>1. [q \in ReqIds |-> request'[q].status]
            = [[q \in ReqIds |-> request[q].status] EXCEPT ![r] = d]
      BY <2>3
    <3>2. /\ [q \in ReqIds |-> request'[q].product]
                = [q \in ReqIds |-> request[q].product]
          /\ [q \in ReqIds |-> request'[q].mode]
                = [q \in ReqIds |-> request[q].mode]
      BY <2>3
    <3>3. r \in Promise!Waiting /\ d \in Promise!Dismissed
      BY <2>1 DEF Promise!Waiting, Promise!Dismissed
    <3> QED BY <1>0, <2>1, <3>1, <3>2, <3>3 DEF Promise!Dismiss
  <2> QED BY <2>4 DEF Promise!Next
<1>5. ASSUME NEW r \in ReqIds, NEW c \in Amounts, SettleDebt(w, r, c)
      PROVE  UNCHANGED Promise!vars
  BY <1>0, <1>5, Invisible DEF SettleDebt
<1>6. ASSUME NEW o \in Orders, PaymentSuccess(w, o)
      PROVE  UNCHANGED Promise!vars
  BY <1>0, <1>6, Invisible DEF PaymentSuccess, db
<1> QED BY <1>1, <1>2, <1>3, <1>4, <1>5, <1>6 DEF Handler

(* A handler takes requests up, opens, dismisses or approves them, or is     *)
(* invisible.                                                                *)
LEMMA PromiseHandler ==
    ASSUME TypeOK, NEW w \in Workers, Handler(w)
    PROVE  Promise!Next \/ UNCHANGED Promise!vars
<1>1. ASSUME NEW s \in Sessions, CloseAuthorized(w, s)
      PROVE  Promise!Next
  <2> DEFINE closable == {r \in ReqIds : /\ request[r].status = "pending"
                                         /\ request[r].session = s
                                         /\ Authorized(s, request[r].product)}
  <2>1. /\ Idle(w) /\ Call(w, <<AuthorizeCall(closable)>>)
        /\ UNCHANGED <<request, ledger, bucket>>
    BY <1>1 DEF CloseAuthorized, db
  <2>2. closable \in SUBSET ReqIds /\ \A r \in closable : request[r].status = "pending"
    OBVIOUS
  <2> HIDE DEF closable
  <2>3. /\ <<AuthorizeCall(closable)>> \in Seq(Frame)
        /\ AuthorizeCall(closable).op = "authorize" /\ AuthorizeCall(closable).todo = closable
    BY <2>2, FrameTypes DEF AuthorizeCall
  <2>4. Closing' = Closing \cup closable
    BY <2>1, <2>2, <2>3, CallFromIdle, TakenOne
  <2>5. Promise!TakeUp(closable)
    BY <2>1, <2>2, <2>4 DEF Promise!TakeUp, Promise!Waiting
  <2> QED BY <2>2, <2>5 DEF Promise!Next
<1> QED BY <1>1, OtherHandler

(* A step approves what it closes, charges what it takes, or is invisible.  *)
LEMMA OtherStep ==
    ASSUME TypeOK, DebtsAddUp, NEW w \in Workers, Step(w), ~AuthorizeStep(w)
    PROVE  Promise!Next \/ UNCHANGED Promise!vars
<1> DEFINE f == Head(stack[w])
<1>a. UNCHANGED Closing
  BY StepKeepsClosing
<1>0. stack \in [Workers -> Seq(Frame)] /\ now \in Times
  BY DEF TypeOK
<1>1. CASE SettleStep(w) \/ CreditStep(w) \/ FinishStep(w) \/ FifoStep(w)
  <2>1. UNCHANGED <<request, ledger, bucket>>
    BY <1>1 DEF SettleStep, CreditStep, FinishStep, FifoStep, db
  <2> QED BY <1>a, <2>1, Invisible
<1>2. CASE CloseStep(w)
  <2> DEFINE o == f.order
  <2>1. /\ request' = [r \in ReqIds |->
               IF r \in PaidFor(o)
                 THEN [request[r] EXCEPT !.status = "approved", !.mode = "payment"]
                 ELSE request[r]]
        /\ UNCHANGED <<ledger, bucket>>
    BY <1>2 DEF CloseStep
  <2>2. PaidFor(o) \in SUBSET ReqIds /\ \A r \in PaidFor(o) : request[r].status = "pending"
    BY DEF PaidFor
  <2> QED BY <1>a, <2>1, <2>2, ApprovedTogether DEF Promise!Unfunded
<1>3. CASE GrantStep(w)
  <2>1. f.order \in Orders /\ f.product \in Products
    BY <1>0, <1>3, RunningParts, FrameFields DEF GrantStep
  <2>2. PICK start :
          bucket' = [bucket EXCEPT ![f.product] =
             Credit(bucket[f.product], f.order, OrderUnits[f.order][f.product], start)]
    BY <1>3 DEF GrantStep
  <2>3. \A p \in Products, k \in Keys :
           bucket'[p][k].consumed = bucket[p][k].consumed
    <3> SUFFICES ASSUME NEW p \in Products, NEW k \in Keys
                 PROVE  bucket'[p][k].consumed = bucket[p][k].consumed
      OBVIOUS
    <3>1. bucket[p] \in [Keys -> Bucket] /\ bucket \in [Products -> [Keys -> Bucket]]
      BY DEF TypeOK
    <3>2. \A n, t : Credit(bucket[p], f.order, n, t)[k].consumed = bucket[p][k].consumed
      BY <2>1, <3>1, BucketConsumed
    <3>3. CASE p = f.product
      <4>1. bucket'[p] = Credit(bucket[p], f.order, OrderUnits[f.order][p], start)
        BY <2>2, <3>1, <3>3
      <4> QED BY <3>2, <4>1
    <3>4. CASE p # f.product
      BY <2>2, <3>1, <3>4
    <3> QED BY <3>3, <3>4
  <2> QED BY <1>a, <1>3, <2>3, Invisible DEF GrantStep
<1>4. CASE InitStep(w)
  <2>1. f.todo \subseteq Products
    BY <1>0, <1>4, RunningParts, FrameFields DEF InitStep
  <2>2. CASE UNCHANGED bucket
    BY <1>a, <1>4, <2>2, Invisible DEF InitStep
  <2>3. ASSUME NEW q \in f.todo,
               bucket' = [bucket EXCEPT ![q] = SyncFree(bucket[q], config[q], f.at)]
        PROVE  UNCHANGED Promise!vars
    <3>1. \A p \in Products, k \in Keys :
             bucket'[p][k].consumed = bucket[p][k].consumed
      <4> SUFFICES ASSUME NEW p \in Products, NEW k \in Keys
                   PROVE  bucket'[p][k].consumed = bucket[p][k].consumed
        OBVIOUS
      <4>1. bucket[p] \in [Keys -> Bucket] /\ bucket \in [Products -> [Keys -> Bucket]]
        BY DEF TypeOK
      <4> QED BY <2>1, <2>3, <4>1, BucketConsumed
    <3> QED BY <1>a, <1>4, <3>1, Invisible DEF InitStep
  <2> QED BY <1>4, <2>2, <2>3 DEF InitStep
<1>5. CASE ChargeStep(w)
  <2> DEFINE r == f.req
  <2>1. r \in ReqIds
    BY <1>0, <1>5, RunningParts, FrameFields DEF ChargeStep
  <2>2. CASE ~StillDue(r)
    BY <1>a, <1>5, <2>2, Invisible DEF ChargeStep
  <2>3. CASE StillDue(r)
    <3>1. PICK k \in Heads(bucket[request[r].product], now) :
             /\ bucket' = [bucket EXCEPT ![request[r].product] = TakeUnit(@, k)]
             /\ ledger' = [ledger EXCEPT ![r] = @ \cup {k}]
             /\ request' = Approved(r, "balance")
      BY <1>5, <2>3 DEF ChargeStep
    <3> HIDE DEF r
    <3> QED BY <1>a, <2>1, <2>3, <3>1, ApprovedCharged DEF Heads, StillDue, Promise!Charging
  <2> QED BY <2>2, <2>3
<1> QED BY <1>1, <1>2, <1>3, <1>4, <1>5 DEF Step

(* And the approval of an authorized session's request is the promise's.    *)
LEMMA PromiseStep ==
    ASSUME TypeOK, DebtsAddUp, \A r \in Closing : Exists(r),
           NEW w \in Workers, Step(w)
    PROVE  Promise!Next \/ UNCHANGED Promise!vars
<1>1. CASE AuthorizeStep(w) /\ UNCHANGED Closing /\ UNCHANGED request
  BY <1>1, Invisible DEF AuthorizeStep
<1>2. ASSUME AuthorizeStep(w), NEW r \in Closing, request' = Approved(r, "authorized"),
             Closing' \in {Closing, Closing \ {r}}
      PROVE  Promise!Authorize(r)
  <2>1. r \in ReqIds /\ UNCHANGED <<ledger, bucket>>
    BY <1>2 DEF AuthorizeStep, Closing
  <2>2. \A q \in ReqIds :
          /\ request'[q].status = IF q = r THEN "approved" ELSE request[q].status
          /\ request'[q].mode = IF q = r THEN "authorized" ELSE request[q].mode
          /\ request'[q].product = request[q].product
    <3>1. request[r] \in Request
      BY <1>2, <2>1 DEF TypeOK, Exists, NoRequest
    <3> QED BY <1>2, <2>1, <3>1 DEF Approved, TypeOK, Request
  <2>3. [q \in ReqIds |-> request'[q].status]
          = [[q \in ReqIds |-> request[q].status] EXCEPT ![r] = "approved"]
    BY <2>2
  <2>4. [q \in ReqIds |-> request'[q].mode]
          = [[q \in ReqIds |-> request[q].mode] EXCEPT ![r] = "authorized"]
    BY <2>2
  <2>5. [q \in ReqIds |-> request'[q].product] = [q \in ReqIds |-> request[q].product]
    BY <2>2
  <2> QED BY <1>2, <2>1, <2>3, <2>4, <2>5 DEF Promise!Authorize
<1> QED BY <1>1, <1>2, OtherStep, StepKeepsClosing DEF Promise!Next, Closing

(* So every transition of the core is one of the promise or none.           *)
LEMMA PromiseNext ==
    ASSUME TypeOK, DebtsAddUp, \A r \in Closing : Exists(r), [Next]_vars
    PROVE  [Promise!Next]_(Promise!vars)
<1>1. CASE Tick \/ (\E s \in Sessions : BlueprintFree(s)) \/ UNCHANGED vars
  <2>1. UNCHANGED Closing
    BY <1>1 DEF Tick, BlueprintFree, vars, Closing
  <2> QED BY <1>1, <2>1, Invisible DEF Tick, BlueprintFree, vars, db
<1>2. ASSUME NEW w \in Workers, Crash(w)
      PROVE  Promise!Next
  <2>1. /\ stack' = [stack EXCEPT ![w] = <<>>] /\ stack \in [Workers -> Seq(Frame)]
        /\ UNCHANGED <<request, ledger, bucket>>
    BY <1>2 DEF Crash, db, TypeOK
  <2>2. PICK others \in SUBSET ReqIds : /\ Closing = others \cup TakenBy(stack[w])
                                       /\ Closing' = others \cup TakenBy(<<>>)
    BY <2>1, ClosingCall
  <2>3. TakenBy(<<>>) = {}
    BY TakenNothing
  <2> DEFINE S == Closing \ Closing'
  <2>4. Closing' = Closing \ S /\ S \in SUBSET ReqIds
    BY <2>2, <2>3 DEF Closing
  <2> HIDE DEF S
  <2>5. Promise!LetGo(S)
    BY <2>1, <2>4 DEF Promise!LetGo
  <2> QED BY <2>4, <2>5 DEF Promise!Next
<1> QED BY <1>1, <1>2, PromiseHandler, PromiseStep DEF Next

(* A debt is opened by the approval of a request and by nothing else, and   *)
(* every settlement stops at its amount.                                    *)
LEMMA DebtsNext ==
    ASSUME TypeOK, DebtsAddUp, Promise!OneUnitPerDecision,
           \A r \in Closing : Exists(r), [Next]_vars
    PROVE  DebtsAddUp'
<1>1. \A r \in ReqIds : request[r].status = "pending" => request[r].mode = "none"
  BY DEF Promise!OneUnitPerDecision
<1>2. ASSUME UNCHANGED debt,
             \A r \in ReqIds : \/ request'[r].mode = request[r].mode
                               \/ request[r].mode = "none" /\ request'[r].mode # "debt"
      PROVE  DebtsAddUp'
  BY <1>2 DEF DebtsAddUp
<1>8. \A r \in ReqIds : request[r].mode = "none" => debt[r].status = "none"
  BY DEF DebtsAddUp
<1>3. ASSUME NEW S \in SUBSET ReqIds, NEW m \in Modes, m # "debt",
             \A r \in S : request[r].status = "pending",
             request' = [r \in ReqIds |->
                IF r \in S THEN [request[r] EXCEPT !.status = "approved", !.mode = m]
                ELSE request[r]],
             UNCHANGED debt
      PROVE  DebtsAddUp'
  <2>1. \A r \in S : request[r] \in Request
    BY <1>3, PendingTypes
  <2>2. \A r \in ReqIds : \/ request'[r].mode = request[r].mode
                          \/ request[r].mode = "none" /\ request'[r].mode # "debt"
    BY <1>1, <1>3, <2>1 DEF Request
  <2> QED BY <1>2, <1>3, <2>2
<1>4. ASSUME NEW r \in OpenDebts, NEW c \in Nat,
             debt' = [debt EXCEPT ![r] = Settled(@, c)], UNCHANGED request
      PROVE  DebtsAddUp'
  <2>1. r \in ReqIds /\ debt[r] \in Debt /\ debt[r].settled <= debt[r].amount
        /\ debt[r].status = "open"
    BY DEF OpenDebts, TypeOK, DebtsAddUp
  <2>2. /\ debt'[r].amount = debt[r].amount
        /\ debt'[r].settled <= debt[r].amount
        /\ debt'[r].status \in {"open", "settled"}
        /\ debt'[r].status = "settled" <=> debt'[r].settled = debt[r].amount
        /\ debt'[r] \in Debt
    BY <1>4, <2>1, SettledTypes DEF TypeOK
  <2>3. \A q \in ReqIds \ {r} : debt'[q] = debt[q]
    BY <1>4 DEF TypeOK
  <2> QED BY <1>4, <2>1, <2>2, <2>3 DEF DebtsAddUp, Debt
<1>5. ASSUME NEW w \in Workers, Handler(w)
      PROVE  DebtsAddUp'
  <2>1. ASSUME NEW p \in Products, NEW c \in Configs,
               EditQuotaProduct(w, p, c) \/ EditWorkspaceOverride(w, p, c)
        PROVE  DebtsAddUp'
    BY <1>2, <2>1 DEF EditQuotaProduct, EditWorkspaceOverride
  <2>2. ASSUME NEW s \in Sessions, NEW a \in Askers, NEW p \in Products,
               RequestAccess(w, s, a, p)
        PROVE  DebtsAddUp'
    <3>1. \A r \in ReqIds : \/ request'[r].mode = request[r].mode
                            \/ request[r].mode = "none" /\ request'[r].mode # "debt"
      <4>1. PICK r \in ReqIds :
              /\ \A q \in ReqIds : Exists(q) <=> q < r
              /\ request' = [request EXCEPT ![r] =
                    [status |-> "pending", product |-> p, session |-> s,
                     asker |-> a, mode |-> "none"]]
        BY <2>2 DEF RequestAccess
      <4>2. ~(r < r)
        BY QuotaConstants DEF ReqIds
      <4>3. request[r].mode = "none"
        BY <4>1, <4>2 DEF Exists, Promise!OneUnitPerDecision
      <4> QED BY <4>1, <4>3 DEF TypeOK
    <3> QED BY <1>2, <2>2, <3>1 DEF RequestAccess
  <2>3. ASSUME NEW r \in ReqIds, NEW m \in {"override", "courtesy", "manual", "debt"},
               ApproveManually(w, r, m)
        PROVE  DebtsAddUp'
    <3>1. request[r].status = "pending" /\ request' = Approved(r, m)
      BY <2>3 DEF ApproveManually
    <3>2. request' = [q \in ReqIds |->
             IF q \in {r} THEN [request[q] EXCEPT !.status = "approved", !.mode = m]
             ELSE request[q]]
      BY <3>1 DEF Approved, TypeOK
    <3>3. CASE m # "debt"
      <4>1. UNCHANGED debt
        BY <2>3, <3>3 DEF ApproveManually
      <4>2. {r} \in SUBSET ReqIds /\ m \in Modes /\ \A q \in {r} : request[q].status = "pending"
        BY <3>1 DEF Modes
      <4> QED BY <1>3, <3>2, <3>3, <4>1, <4>2
    <3>4. CASE m = "debt"
      <4>1. PICK a \in Amounts :
               debt' = [debt EXCEPT ![r] =
                   [status |-> "open", amount |-> a, settled |-> 0,
                    opened |-> Cardinality(EverOpened)]]
        BY <2>3, <3>4 DEF ApproveManually
      <4>2. a \in Nat \ {0}
        BY QuotaConstants
      <4>3. request[r] \in Request
        BY <3>1, PendingTypes
      <4>4. request'[r].mode = "debt" /\ \A q \in ReqIds \ {r} : request'[q] = request[q]
        BY <3>2, <3>4, <4>3 DEF Request
      <4>5. debt'[r].status = "open" /\ debt'[r].amount = a /\ debt'[r].settled = 0
            /\ \A q \in ReqIds \ {r} : debt'[q] = debt[q]
        BY <4>1 DEF TypeOK
      <4> QED BY <4>2, <4>4, <4>5 DEF DebtsAddUp
    <3> QED BY <3>3, <3>4
  <2>4. ASSUME NEW r \in ReqIds, NEW d \in {"rejected", "canceled"},
               Dismiss(w, r, d)
        PROVE  DebtsAddUp'
    <3>1. request[r] \in Request
      BY <2>4, PendingTypes DEF Dismiss
    <3>2. \A q \in ReqIds : request'[q].mode = request[q].mode
      BY <2>4, <3>1 DEF Dismiss, TypeOK, Request
    <3> QED BY <1>2, <2>4, <3>2 DEF Dismiss
  <2>5. ASSUME NEW s \in Sessions, CloseAuthorized(w, s)
        PROVE  DebtsAddUp'
    BY <1>2, <2>5 DEF CloseAuthorized, db
  <2>6. ASSUME NEW r \in ReqIds, NEW c \in Amounts, SettleDebt(w, r, c)
        PROVE  DebtsAddUp'
    <3>1. c \in Nat /\ r \in OpenDebts
      BY <2>6, QuotaConstants DEF SettleDebt, OpenDebts
    <3> QED BY <1>4, <2>6, <3>1 DEF SettleDebt
  <2>7. ASSUME NEW o \in Orders, PaymentSuccess(w, o)
        PROVE  DebtsAddUp'
    BY <1>2, <2>7 DEF PaymentSuccess, db
  <2> QED BY <1>5, <2>1, <2>2, <2>3, <2>4, <2>5, <2>6, <2>7 DEF Handler
<1>6. ASSUME NEW w \in Workers, Step(w)
      PROVE  DebtsAddUp'
  <2> DEFINE f == Head(stack[w])
  <2>0. stack \in [Workers -> Seq(Frame)]
    BY DEF TypeOK
  <2>1. CASE CreditStep(w) \/ GrantStep(w) \/ FinishStep(w) \/ InitStep(w) \/ FifoStep(w)
    <3>1. UNCHANGED <<debt, request>>
      BY <2>1 DEF CreditStep, GrantStep, FinishStep, InitStep, FifoStep, db
    <3> QED BY <1>2, <3>1
  <2>2. CASE SettleStep(w)
    <3>1. f.left \in Nat
      BY <2>0, <2>2, RunningParts, FrameFields DEF SettleStep
    <3>2. UNCHANGED request
      BY <2>2 DEF SettleStep
    <3>3. \/ UNCHANGED debt
          \/ \E r \in OpenDebts : debt' = [debt EXCEPT ![r] = Settled(@, f.left)]
      BY <2>2 DEF SettleStep, OldestDebts
    <3> QED BY <1>2, <1>4, <3>1, <3>2, <3>3
  <2>3. CASE CloseStep(w)
    <3>1. /\ request' = [r \in ReqIds |->
                 IF r \in PaidFor(f.order)
                   THEN [request[r] EXCEPT !.status = "approved", !.mode = "payment"]
                   ELSE request[r]]
          /\ UNCHANGED debt
      BY <2>3 DEF CloseStep
    <3>2. PaidFor(f.order) \in SUBSET ReqIds
          /\ \A r \in PaidFor(f.order) : request[r].status = "pending"
      BY DEF PaidFor
    <3> QED BY <1>3, <3>1, <3>2 DEF Modes
  <2>4. CASE ChargeStep(w)
    <3> DEFINE r == f.req
    <3>1. r \in ReqIds
      BY <2>0, <2>4, RunningParts, FrameFields DEF ChargeStep
    <3>2. CASE ~StillDue(r)
      BY <1>2, <2>4, <3>2 DEF ChargeStep
    <3>3. CASE StillDue(r)
      <4>1. /\ request' = Approved(r, "balance")
            /\ debt' = [q \in ReqIds |->
                  IF q \in OpenDebts /\ request[q].product = request[r].product
                    THEN Settled(debt[q], Owed(q)) ELSE debt[q]]
        BY <2>4, <3>3 DEF ChargeStep
      <4>2. request[r] \in Request /\ request[r].mode = "none"
        BY <1>1, <3>1, <3>3, PendingTypes DEF StillDue
      <4>3. \A q \in ReqIds : \/ request'[q].mode = request[q].mode
                              \/ q = r /\ request'[q].mode = "balance"
        BY <3>1, <4>1, <4>2 DEF Approved, TypeOK, Request
      <4>4. ASSUME NEW q \in ReqIds
            PROVE  /\ debt'[q].settled <= debt'[q].amount
                   /\ debt'[q].status = "open" => debt'[q].settled < debt'[q].amount
                   /\ debt'[q].status = "settled" => debt'[q].settled = debt'[q].amount
                   /\ debt'[q].status # "none" <=> debt[q].status # "none"
        <5>1. CASE debt'[q] = debt[q]
          BY <5>1 DEF DebtsAddUp
        <5>2. CASE q \in OpenDebts /\ debt'[q] = Settled(debt[q], Owed(q))
          <6>1. debt[q] \in Debt /\ debt[q].settled <= debt[q].amount
                /\ debt[q].status = "open"
            BY <5>2 DEF TypeOK, DebtsAddUp, OpenDebts
          <6>2. Owed(q) \in Nat
            BY <6>1 DEF Owed, Debt
          <6>3. /\ debt'[q].amount = debt[q].amount
                /\ debt'[q].settled <= debt[q].amount
                /\ debt'[q].status \in {"open", "settled"}
                /\ debt'[q].status = "settled" <=> debt'[q].settled = debt[q].amount
                /\ debt'[q] \in Debt
            BY <5>2, <6>1, <6>2, SettledTypes
          <6> QED BY <6>1, <6>3 DEF Debt
        <5> QED BY <4>1, <5>1, <5>2
      <4> QED BY <1>8, <3>1, <4>2, <4>3, <4>4 DEF DebtsAddUp
    <3> QED BY <3>2, <3>3
  <2>5. CASE AuthorizeStep(w)
    <3>1. UNCHANGED debt
      BY <2>5 DEF AuthorizeStep
    <3>2. CASE UNCHANGED request
      BY <1>2, <3>1, <3>2
    <3>3. ASSUME NEW r \in Closing, request' = Approved(r, "authorized")
          PROVE  DebtsAddUp'
      <4>1. r \in ReqIds /\ request[r] \in Request
        <5>1. r \in ReqIds /\ Exists(r)
          BY <3>3 DEF Closing
        <5>2. request[r] \in Request \cup {NoRequest}
          BY <5>1 DEF TypeOK
        <5> QED BY <5>1, <5>2 DEF Exists, NoRequest
      <4>2. /\ request'[r].mode = "authorized"
            /\ \A q \in ReqIds \ {r} : request'[q] = request[q]
        BY <3>3, <4>1 DEF Approved, TypeOK, Request
      <4> QED BY <3>1, <4>1, <4>2 DEF DebtsAddUp
    <3> QED BY <2>5, <3>2, <3>3, <1>6, StepKeepsClosing
  <2> QED BY <1>6, <2>1, <2>2, <2>3, <2>4, <2>5 DEF Step
<1>7. CASE Tick \/ (\E s \in Sessions : BlueprintFree(s)) \/ UNCHANGED vars
           \/ \E w \in Workers : Crash(w)
  BY <1>2, <1>7 DEF Tick, BlueprintFree, Crash, vars, db
<1> QED BY <1>5, <1>6, <1>7 DEF Next

-----------------------------------------------------------------------------
(* The inductive invariant: types need the debts within their amounts, the  *)
(* debts need that an undecided request has none, which the promise says,   *)
(* and the promise needs the types.                                         *)
IInv == TypeOK /\ DebtsAddUp /\ Promise!Inv

(* It holds in the initial state.                                           *)
LEMMA IInvInit == Init => IInv
<1> SUFFICES ASSUME Init PROVE IInv
  OBVIOUS
<1>1. TypeOK
  BY TypeInit
<1>2. DebtsAddUp
  BY DEF Init, DebtsAddUp, NoDebt, NoRequest
<1>3. Promise!Init
  <2>0. Closing = {}
    BY DEF Init, Closing, TakenBy
  <2>1. \A p \in Products, k \in Keys : bucket[p][k].consumed = 0
    <3>1. [k \in Keys |-> NoBucket] \in [Keys -> Bucket]
      BY BucketConstants DEF NoBucket, Bucket
    <3>2. \A k \in Keys : \A c : SyncFree([l \in Keys |-> NoBucket], c, 0)[k].consumed
                               = [l \in Keys |-> NoBucket][k].consumed
      BY <3>1, BucketConsumed
    <3> QED BY <3>2 DEF Init, NoBucket
  <2> QED BY <2>0, <2>1 DEF Init, Promise!Init, NoRequest
<1>4. Promise!Inv
  BY <1>3, Promise!InvInit
<1> QED BY <1>1, <1>2, <1>4 DEF IInv

(* And every transition keeps it.                                           *)
LEMMA IInvNext == IInv /\ [Next]_vars => IInv'
<1> SUFFICES ASSUME IInv, [Next]_vars PROVE IInv'
  OBVIOUS
<1> USE DEF IInv
<1>0. \A r \in Closing : Exists(r)
  BY DEF Promise!Inv, Promise!TypeOK, Exists
<1>1. TypeOK'
  <2>1. CASE Tick
    <3>1. now' \in Times
      BY <2>1, QuotaConstants DEF Tick, TypeOK, Times
    <3> QED BY <2>1, <3>1 DEF Tick, db, TypeOK
  <2>2. ASSUME NEW s \in Sessions, BlueprintFree(s)
        PROVE  TypeOK'
    BY <2>2 DEF BlueprintFree, db, TypeOK
  <2>3. ASSUME NEW w \in Workers, Crash(w)
        PROVE  TypeOK'
    <3>1. stack' \in [Workers -> Seq(Frame)]
      BY <2>3 DEF Crash, TypeOK
    <3> QED BY <2>3, <3>1 DEF Crash, db, TypeOK
  <2>4. CASE UNCHANGED vars
    BY <2>4 DEF vars, TypeOK
  <2> QED BY <1>0, <2>1, <2>2, <2>3, <2>4, TypeHandler, TypeStep DEF Next
<1>2. Promise!Inv'
  <2>1. [Promise!Next]_(Promise!vars)
    BY <1>0, PromiseNext
  <2>2. Promise!IsFiniteSet(ReqIds)
    BY ReqIdsFinite DEF Promise!IsFiniteSet, IsFiniteSet
  <2> QED BY <2>1, <2>2, Promise!InvNext
<1>3. DebtsAddUp'
  BY <1>0, DebtsNext DEF Promise!Inv
<1> QED BY <1>1, <1>2, <1>3

(* So it holds in every state.                                              *)
LEMMA Invariant == Spec => []IInv
<1> QED BY IInvInit, IInvNext, PTL DEF Spec

(* Every state keeps its types, for any number of workers, orders and       *)
(* requests, through every interleaving and crash.                          *)
THEOREM TypeCorrect == Spec => []TypeOK
<1>1. IInv => TypeOK
  BY DEF IInv
<1> QED BY <1>1, Invariant, PTL

(* Debts add up: nothing is settled beyond the debt, it is settled exactly  *)
(* when all of it has been paid, and only debt_pending approvals open one.  *)
THEOREM DebtsCorrect == Spec => []DebtsAddUp
<1>1. IInv => DebtsAddUp
  BY DEF IInv
<1> QED BY <1>1, Invariant, PTL

(* A request pays at most one unit, and only when the way it was approved   *)
(* is one that charges, or was written over one by the loop that approves   *)
(* the requests of an authorized session.                                   *)
THEOREM FundingCorrect == Spec => []FundingMatchesDecision
<1>1. IInv => FundingMatchesDecision
  <2> SUFFICES ASSUME IInv, NEW r \in ReqIds
               PROVE  /\ request[r].mode # "none" <=> request[r].status = "approved"
                      /\ CASE request[r].mode = "balance"  -> \E k \in Keys : ledger[r] = {k}
                           [] request[r].mode \in {"override", "authorized"} ->
                                \A k, l \in ledger[r] : k = l
                           [] OTHER                        -> ledger[r] = {}
    BY DEF FundingMatchesDecision
  <2>1. /\ request[r].mode # "none" <=> request[r].status = "approved"
        /\ request[r].mode = "balance" => ledger[r] # {}
        /\ \A k, l \in ledger[r] : k = l
        /\ ledger[r] # {} => request[r].mode \in {"balance", "override", "authorized"}
    BY DEF IInv, Promise!Inv, Promise!OneUnitPerDecision, Promise!Charging
  <2>2. ledger[r] \subseteq Keys
    BY DEF IInv, TypeOK
  <2>3. request[r].mode = "balance" => \E k \in Keys : ledger[r] = {k}
    BY <2>1, <2>2
  <2> QED BY <2>1, <2>3
<1> QED BY <1>1, Invariant, PTL

(* Every unit a bucket lost is booked to exactly one request of its product. *)
THEOREM LedgerCorrect == Spec => []LedgerMatchesBuckets
<1>1. IInv => LedgerMatchesBuckets
  <2> SUFFICES ASSUME IInv, NEW p \in Products, NEW k \in Keys
               PROVE  bucket[p][k].consumed = Cardinality(BookedTo(p, k))
    BY DEF LedgerMatchesBuckets
  <2>1. bucket[p][k].consumed = Cardinality(
           {r \in ReqIds : [q \in ReqIds |-> request[q].product][r] = p /\ k \in ledger[r]})
    BY DEF IInv, Promise!Inv, Promise!UnitsAccountedFor,
           Promise!Cardinality, Cardinality
  <2>2. {r \in ReqIds : [q \in ReqIds |-> request[q].product][r] = p /\ k \in ledger[r]}
          = BookedTo(p, k)
    BY DEF BookedTo
  <2> QED BY <2>1, <2>2
<1> QED BY <1>1, Invariant, PTL

(* The two instances of the promise are one and the same. *)
LEMMA SamePromise ==
    /\ Promise!Init <=> Decisions!Init
    /\ Promise!Next <=> Decisions!Next
    /\ UNCHANGED Promise!vars <=> UNCHANGED Decisions!vars
<1>1. Promise!Init <=> Decisions!Init
  BY DEF Promise!Init, Decisions!Init
<1>2. UNCHANGED Promise!vars <=> UNCHANGED Decisions!vars
  BY DEF Promise!vars, Decisions!vars
<1>3. \A r, p : Promise!Open(r, p) <=> Decisions!Open(r, p)
  BY DEF Promise!Open, Decisions!Open
<1>4. Promise!Waiting = Decisions!Waiting /\ Promise!Dismissed = Decisions!Dismissed
      /\ Promise!Unfunded = Decisions!Unfunded /\ Promise!Charging = Decisions!Charging
  BY DEF Promise!Waiting, Decisions!Waiting, Promise!Dismissed, Decisions!Dismissed,
         Promise!Unfunded, Decisions!Unfunded, Promise!Charging, Decisions!Charging
<1>5. \A r : Promise!Dismiss(r) <=> Decisions!Dismiss(r)
  BY <1>4 DEF Promise!Dismiss, Decisions!Dismiss
<1>6. \A S, m : Promise!Approve(S, m) <=> Decisions!Approve(S, m)
  BY <1>4 DEF Promise!Approve, Decisions!Approve
<1>7. \A r, m, b : Promise!Charge(r, m, b) <=> Decisions!Charge(r, m, b)
  BY <1>4 DEF Promise!Charge, Decisions!Charge
<1>9. \A S : (Promise!TakeUp(S) <=> Decisions!TakeUp(S)) /\ (Promise!LetGo(S) <=> Decisions!LetGo(S))
  BY <1>4 DEF Promise!TakeUp, Decisions!TakeUp, Promise!LetGo, Decisions!LetGo
<1>10. \A r : Promise!Authorize(r) <=> Decisions!Authorize(r)
  BY DEF Promise!Authorize, Decisions!Authorize
<1>8. Promise!Next <=> Decisions!Next
  <2>1. (\E S \in SUBSET ReqIds, m \in Promise!Unfunded : Promise!Approve(S, m))
          <=> (\E S \in SUBSET ReqIds, m \in Decisions!Unfunded : Decisions!Approve(S, m))
    BY <1>4, <1>6
  <2>2. (\E r \in ReqIds, m \in Promise!Charging, b \in Keys : Promise!Charge(r, m, b))
          <=> (\E r \in ReqIds, m \in Decisions!Charging, b \in Keys :
                  Decisions!Charge(r, m, b))
    BY <1>4, <1>7
  <2> QED BY <1>3, <1>5, <1>9, <1>10, <2>1, <2>2 DEF Promise!Next, Decisions!Next
<1> QED BY <1>1, <1>2, <1>8

(* The commercial core implements its promise: no handler, pass, payment or *)
(* crash takes a step AccessDecisions does not allow.                       *)
THEOREM Implements == Spec => ImplementsDecisions
<1>1. Init => Decisions!Init
  <2>1. ASSUME Init PROVE Promise!Init
    <3>1. [k \in Keys |-> NoBucket] \in [Keys -> Bucket]
      BY BucketConstants DEF NoBucket, Bucket
    <3>2. \A k \in Keys : \A c : SyncFree([l \in Keys |-> NoBucket], c, 0)[k].consumed
                               = [l \in Keys |-> NoBucket][k].consumed
      BY <3>1, BucketConsumed
    <3>3. \A p \in Products, k \in Keys : bucket[p][k].consumed = 0
      BY <2>1, <3>2 DEF Init, NoBucket
    <3>4. Closing = {}
      BY <2>1 DEF Init, Closing, TakenBy
    <3> QED BY <2>1, <3>3, <3>4 DEF Init, Promise!Init, NoRequest
  <2> QED BY <2>1, SamePromise
<1>2. IInv /\ [Next]_vars => [Decisions!Next]_(Decisions!vars)
  <2> SUFFICES ASSUME IInv, [Next]_vars
               PROVE  Decisions!Next \/ UNCHANGED Decisions!vars
    OBVIOUS
  <2>1. Promise!Next \/ UNCHANGED Promise!vars
    <3>1. \A r \in Closing : Exists(r)
      BY DEF IInv, Promise!Inv, Promise!TypeOK, Exists
    <3> QED BY <3>1, PromiseNext DEF IInv
  <2> QED BY <2>1, SamePromise
<1> QED BY <1>1, <1>2, Invariant, PTL DEF Spec, ImplementsDecisions, Decisions!Spec

(* No step touches a request that was decided, or the unit it was booked,   *)
(* but the loop that took it up while it was open.                          *)
LEMMA DecidedStays ==
    ASSUME TypeOK, DebtsAddUp, [Next]_vars, NEW r \in ReqIds, request[r].status \in Decided
    PROVE  /\ ledger'[r] = ledger[r]
           /\ \/ request'[r] = request[r]
              \/ r \in Closing /\ request'[r] = Approved(r, "authorized")[r]
<1>0. request[r].status # "pending" /\ Exists(r)
  BY DEF Decided, Exists
<1>1. ASSUME NEW w \in Workers, Handler(w)
      PROVE  request'[r] = request[r] /\ ledger'[r] = ledger[r]
  <2>1. CASE UNCHANGED <<request, ledger>>
    BY <2>1
  <2>2. ASSUME NEW s \in Sessions, NEW a \in Askers, NEW p \in Products,
               RequestAccess(w, s, a, p)
        PROVE  request'[r] = request[r] /\ ledger'[r] = ledger[r]
    <3>1. PICK q \in ReqIds :
            /\ \A x \in ReqIds : Exists(x) <=> x < q
            /\ request' = [request EXCEPT ![q] =
                  [status |-> "pending", product |-> p, session |-> s,
                   asker |-> a, mode |-> "none"]]
      BY <2>2 DEF RequestAccess
    <3>2. r < q /\ q \in Int
      BY <1>0, <3>1, QuotaConstants DEF ReqIds
    <3>3. r # q
      BY <3>2
    <3> QED BY <2>2, <3>1, <3>3 DEF RequestAccess, TypeOK
  <2>3. ASSUME NEW q \in ReqIds, NEW m \in {"override", "courtesy", "manual", "debt"},
               ApproveManually(w, q, m)
        PROVE  request'[r] = request[r] /\ ledger'[r] = ledger[r]
    <3>1. q # r /\ request' = Approved(q, m)
      BY <1>0, <2>3 DEF ApproveManually
    <3>2. \/ UNCHANGED ledger
          \/ \E k : ledger' = [ledger EXCEPT ![q] = @ \cup {k}]
      BY <2>3 DEF ApproveManually
    <3> QED BY <3>1, <3>2 DEF Approved, TypeOK
  <2>4. ASSUME NEW q \in ReqIds, NEW d \in {"rejected", "canceled"},
               Dismiss(w, q, d)
        PROVE  request'[r] = request[r] /\ ledger'[r] = ledger[r]
    BY <1>0, <2>4 DEF Dismiss, TypeOK
  <2>5. ASSUME NEW s \in Sessions, CloseAuthorized(w, s)
        PROVE  request'[r] = request[r] /\ ledger'[r] = ledger[r]
    BY <2>5 DEF CloseAuthorized, db
  <2>6. ASSUME NEW o \in Orders, PaymentSuccess(w, o)
        PROVE  UNCHANGED <<request, ledger>>
    BY <2>6 DEF PaymentSuccess, db
  <2> QED BY <1>1, <2>1, <2>2, <2>3, <2>4, <2>5, <2>6
          DEF Handler, EditQuotaProduct, EditWorkspaceOverride, SettleDebt
<1>2. ASSUME NEW w \in Workers, Step(w), ~AuthorizeStep(w)
      PROVE  request'[r] = request[r] /\ ledger'[r] = ledger[r]
  <2>1. CASE UNCHANGED <<request, ledger>>
    BY <2>1
  <2>2. CASE CloseStep(w)
    BY <1>0, <2>2 DEF CloseStep, PaidFor
  <2>3. CASE ChargeStep(w) /\ StillDue(Head(stack[w]).req)
    <3> DEFINE q == Head(stack[w]).req
    <3>1. q # r /\ request' = Approved(q, "balance")
          /\ \E k : ledger' = [ledger EXCEPT ![q] = @ \cup {k}]
      BY <1>0, <2>3 DEF ChargeStep, StillDue
    <3> QED BY <3>1 DEF Approved, TypeOK
  <2> QED BY <1>2, <2>1, <2>2, <2>3
          DEF Step, SettleStep, CreditStep, GrantStep, FinishStep, InitStep,
              FifoStep, ChargeStep, db
<1>3. ASSUME NEW w \in Workers, AuthorizeStep(w)
      PROVE  /\ ledger'[r] = ledger[r]
             /\ \/ request'[r] = request[r]
                \/ r \in Closing /\ request'[r] = Approved(r, "authorized")[r]
  <2>1. Step(w) /\ UNCHANGED ledger
    BY <1>3 DEF Step, AuthorizeStep
  <2>2. CASE UNCHANGED request
    BY <2>1, <2>2
  <2>3. ASSUME NEW q \in Closing, request' = Approved(q, "authorized")
        PROVE  \/ request'[r] = request[r]
               \/ r \in Closing /\ request'[r] = Approved(r, "authorized")[r]
    <3>1. CASE q = r
      BY <2>3, <3>1
    <3>2. CASE q # r
      BY <2>3, <3>2 DEF Approved, TypeOK
    <3> QED BY <3>1, <3>2
  <2> QED BY <1>3, <2>1, <2>2, <2>3, StepKeepsClosing
<1> QED BY <1>1, <1>2, <1>3 DEF Next, Tick, BlueprintFree, Crash, vars, db

(* A decision stands, and only the loop over the open requests of an        *)
(* authorized session, which commits half way to run a build, may write its *)
(* own over a decision taken meanwhile, without touching what was booked.   *)
THEOREM DecisionsStand == Spec => DecisionsAreFinal
<1>1. IInv /\ [Next]_vars =>
        [\A r \in ReqIds : request[r].status \in Decided =>
            /\ ledger'[r] = ledger[r]
            /\ \/ request'[r] = request[r]
               \/ r \in Closing /\ request'[r] = Approved(r, "authorized")[r]]_vars
  BY DecidedStays DEF IInv
<1> QED BY <1>1, Invariant, PTL DEF Spec, DecisionsAreFinal
=============================================================================
