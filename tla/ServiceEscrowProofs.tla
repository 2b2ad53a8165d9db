------------------------ MODULE ServiceEscrowProofs ------------------------
(***************************************************************************)
(* Proofs about ServiceEscrow for every set of contexts, addresses and     *)
(* amounts, and every depth of re-entrant calls.                           *)
(*                                                                         *)
(* The lifecycle is a statement about whole transactions, so the invariant *)
(* relates every frame of the stack to the storage of now: what a frame    *)
(* keeps can reach what is there now and what every frame above it keeps.  *)
(* Solvency is one about the storage and the balance that belong together, *)
(* those of now and those of each frame.                                   *)
(***************************************************************************)
EXTENDS ServiceEscrow, OperatorLemmas, SequenceTheorems

Frames == 1..Len(stack)

(* Every storage a revert can restore has returned exactly what it owes. *)
FramesOwe ==
  \A i \in Frames : \A h \in Contexts :
    stack[i].returned[h] = Lifecycle!Owed(stack[i].escrows[h])

(* The storage has moved forward since each frame was pushed. *)
FramesReachNow ==
  \A i \in Frames : \A h \in Contexts :
    Lifecycle!Reaches(stack[i].escrows[h], escrows[h])
FramesReachFrames ==
  \A i, j \in Frames : i < j =>
    \A h \in Contexts : Lifecycle!Reaches(stack[i].escrows[h], stack[j].escrows[h])

(* The context of a frame is refunded in every later storage. *)
RefundedNow == \A i \in Frames : escrows[stack[i].context].state = "Refunded"
RefundedAbove ==
  \A i, j \in Frames : i < j => stack[j].escrows[stack[i].context].state = "Refunded"

(* A frame was pushed by a refund that was allowed. *)
FundedBelow == \A i \in Frames : stack[i].escrows[stack[i].context].state = "Funded"

IInv ==
  /\ TypeOK /\ ReturnedOnce
  /\ FramesOwe /\ FramesReachNow /\ FramesReachFrames
  /\ RefundedNow /\ RefundedAbove /\ FundedBelow

-----------------------------------------------------------------------------
(* What every frame keeps is storage the contract can have. *)
LEMMA FrameFacts ==
  ASSUME TypeOK, NEW i \in Frames
  PROVE  /\ stack[i] \in Frame
         /\ stack[i].context \in Contexts
         /\ stack[i].escrows \in [Contexts -> Lifecycle!Escrow]
         /\ stack[i].balance \in Nat
         /\ stack[i].returned \in [Contexts -> Nat]
<1>1. stack[i] \in Frame
  BY DEF TypeOK, Frames
<1> QED
  BY <1>1 DEF Frame

(* Lifecycle moves compose. *)
LEMMA ReachesTransitive ==
  ASSUME NEW a \in Lifecycle!Escrow, NEW b \in Lifecycle!Escrow, NEW c \in Lifecycle!Escrow,
         Lifecycle!Reaches(a, b), Lifecycle!Reaches(b, c)
  PROVE  Lifecycle!Reaches(a, c)
  BY DEF Lifecycle!Reaches, Lifecycle!Escrow, Lifecycle!NoEscrow, Lifecycle!State

(* What the stack holds after the innermost call ends. *)
LEMMA PopFacts ==
  ASSUME TypeOK, stack # <<>>, Pop
  PROVE  /\ Len(stack) \in Frames
         /\ stack' \in Seq(Frame)
         /\ Len(stack') = Len(stack) - 1
         /\ \A i \in Frames' : i \in Frames /\ i < Len(stack) /\ stack'[i] = stack[i]
<1>1. stack \in Seq(Frame) /\ Len(stack) \in Nat /\ Len(stack) # 0
  BY EmptySeq DEF TypeOK
<1> DEFINE n == Len(stack) - 1
<1>2. n \in Nat /\ \A i \in 1..n : stack[i] \in Frame
  BY <1>1
<1>3. stack' = SubSeq(stack, 1, n)
  BY DEF Pop
<1>4. /\ stack' \in Seq(Frame)
      /\ Len(stack') = n
      /\ \A i \in 1..n : stack'[i] = stack[i]
  <2> HIDE DEF n
  <2>1. /\ SubSeq(stack, 1, n) \in Seq(Frame)
        /\ Len(SubSeq(stack, 1, n)) = IF 1 <= n THEN n - 1 + 1 ELSE 0
        /\ \A i \in 1 .. n - 1 + 1 : SubSeq(stack, 1, n)[i] = stack[1 + i - 1]
    BY <1>2, SubSeqProperties, Z3
  <2>2. n - 1 + 1 = n /\ \A i \in 1..n : 1 + i - 1 = i
    BY <1>2
  <2> QED
    BY <1>2, <1>3, <2>1, <2>2
<1> QED
  BY <1>1, <1>4 DEF Frames

(* What it holds after a refund has pushed its frame. *)
LEMMA PushFacts ==
  ASSUME TypeOK, NEW h \in Contexts, Push(h)
  PROVE  /\ stack' \in Seq(Frame)
         /\ Len(stack') = Len(stack) + 1
         /\ \A i \in Frames : stack'[i] = stack[i]
         /\ stack'[Len(stack) + 1] =
              [context |-> h, escrows |-> escrows, balance |-> balance, returned |-> returned]
         /\ \A i \in Frames' : i \in Frames \/ i = Len(stack) + 1
<1>1. [context |-> h, escrows |-> escrows, balance |-> balance, returned |-> returned] \in Frame
  BY DEF TypeOK, Frame
<1> QED
  BY <1>1 DEF TypeOK, Push, Frames

-----------------------------------------------------------------------------
(* The strengthened invariant is inductive. *)
LEMMA IInvInit == Init => IInv
<1> SUFFICES ASSUME Init PROVE IInv
  OBVIOUS
<1>1. stack = <<>> /\ Len(stack) = 0 /\ Frames = {} /\ stack \in Seq(Frame)
  BY DEF Init, Frames
<1>2. TypeOK
  BY <1>1 DEF Init, TypeOK, Lifecycle!Escrow
<1>3. ReturnedOnce
  BY DEF Init, ReturnedOnce, Lifecycle!Owed, Lifecycle!NoEscrow
<1> QED
  BY <1>1, <1>2, <1>3
     DEF IInv, FramesOwe, FramesReachNow, FramesReachFrames, RefundedNow, RefundedAbove,
         FundedBelow

(* A call that leaves the stack alone and moves one context forward. *)
LEMMA ForwardStep ==
  ASSUME EscrowAssumption, IInv, UNCHANGED <<returned, stack>>, TypeOK',
         NEW h \in Contexts, escrows[h].state \in {"Empty", "Funded"},
         \A c \in Contexts \ {h} : escrows'[c] = escrows[c],
         Lifecycle!Reaches(escrows[h], escrows'[h]),
         escrows'[h].state # "Refunded"
  PROVE  IInv'
<1> USE DEF IInv
<1>1. Frames' = Frames
  BY DEF Frames
<1>2. ReturnedOnce'
  BY DEF ReturnedOnce, Lifecycle!Owed
<1>3. FramesOwe'
  BY <1>1 DEF FramesOwe
<1>4. FramesReachNow'
  <2> SUFFICES ASSUME NEW i \in Frames, NEW c \in Contexts
               PROVE  Lifecycle!Reaches(stack[i].escrows[c], escrows'[c])
    BY <1>1 DEF FramesReachNow
  <2>1. /\ stack[i].escrows[c] \in Lifecycle!Escrow
        /\ escrows[c] \in Lifecycle!Escrow /\ escrows'[c] \in Lifecycle!Escrow
    BY FrameFacts DEF TypeOK
  <2>2. Lifecycle!Reaches(stack[i].escrows[c], escrows[c])
    BY DEF FramesReachNow
  <2>3. Lifecycle!Reaches(escrows[c], escrows'[c])
    BY DEF Lifecycle!Reaches
  <2> QED
    BY <2>1, <2>2, <2>3, ReachesTransitive
<1>5. FramesReachFrames'
  BY <1>1 DEF FramesReachFrames
<1>6. RefundedNow'
  <2> SUFFICES ASSUME NEW i \in Frames PROVE escrows'[stack[i].context].state = "Refunded"
    BY <1>1 DEF RefundedNow
  <2>1. stack[i].context \in Contexts /\ escrows[stack[i].context].state = "Refunded"
    BY FrameFacts DEF RefundedNow
  <2> QED
    BY <2>1
<1>7. RefundedAbove' /\ FundedBelow'
  BY <1>1 DEF RefundedAbove, FundedBelow
<1> QED
  BY <1>2, <1>3, <1>4, <1>5, <1>6, <1>7

(* Funding a free context moves it forward. *)
LEMMA FundStep ==
  ASSUME EscrowAssumption, IInv, NEW sender \in Addresses, NEW h \in Contexts,
         NEW provider \in Addresses, NEW amount \in Amounts,
         Fund(sender, h, provider, amount)
  PROVE  IInv'
<1> DEFINE new == [state |-> "Funded", payer |-> sender, provider |-> provider, amount |-> amount]
<1>1. new \in Lifecycle!Escrow
  BY DEF Lifecycle!Escrow, Lifecycle!State
<1>2. escrows'[h] = new /\ \A c \in Contexts \ {h} : escrows'[c] = escrows[c]
  BY DEF Fund, IInv, TypeOK
<1>3. TypeOK'
  BY <1>1 DEF Fund, IInv, TypeOK, EscrowAssumption
<1>4. Lifecycle!Reaches(escrows[h], escrows'[h])
  BY DEF Fund, Lifecycle!Reaches
<1> HIDE DEF new
<1>5. escrows'[h].state = "Funded"
  BY <1>2 DEF new
<1> QED
  BY <1>2, <1>3, <1>4, <1>5, ForwardStep DEF Fund

(* A delivery moves its context forward and no other. *)
LEMMA DeliverMoves ==
  ASSUME TypeOK, NEW sender \in Addresses, NEW h \in Contexts, Deliver(sender, h)
  PROVE  /\ escrows'[h] \in Lifecycle!Escrow /\ escrows'[h].state = "Delivered"
         /\ \A c \in Contexts \ {h} : escrows'[c] = escrows[c]
         /\ \A c \in Contexts : Lifecycle!Reaches(escrows[c], escrows'[c])
<1>1. escrows[h] \in Lifecycle!Escrow /\ escrows[h].state = "Funded"
  BY DEF Deliver, TypeOK
<1>2. escrows[h] \in [state : Lifecycle!State \ {"Empty"}, payer : Addresses,
                      provider : Addresses, amount : Amounts]
  BY <1>1 DEF Lifecycle!Escrow, Lifecycle!NoEscrow
<1>3. /\ escrows'[h] = [escrows[h] EXCEPT !.state = "Delivered"]
      /\ \A c \in Contexts \ {h} : escrows'[c] = escrows[c]
  BY DEF Deliver, TypeOK
<1>4. escrows'[h] \in Lifecycle!Escrow /\ escrows'[h].state = "Delivered"
  BY <1>2, <1>3 DEF Lifecycle!Escrow, Lifecycle!State
<1>5. Lifecycle!Reaches(escrows[h], escrows'[h])
  BY <1>1, <1>2, <1>3 DEF Lifecycle!Reaches
<1> QED
  BY <1>3, <1>4, <1>5 DEF Lifecycle!Reaches

(* So does a delivery. *)
LEMMA DeliverStep ==
  ASSUME EscrowAssumption, IInv, NEW sender \in Addresses, NEW h \in Contexts, Deliver(sender, h)
  PROVE  IInv'
<1>1. /\ escrows'[h] \in Lifecycle!Escrow /\ escrows'[h].state = "Delivered"
      /\ \A c \in Contexts \ {h} : escrows'[c] = escrows[c]
      /\ Lifecycle!Reaches(escrows[h], escrows'[h])
  BY DeliverMoves DEF IInv
<1>2. TypeOK'
  BY <1>1 DEF Deliver, IInv, TypeOK
<1> QED
  BY <1>1, <1>2, ForwardStep DEF Deliver

(* A refund pays what it owes and leaves a frame that meets every part. *)
LEMMA RefundStep ==
  ASSUME EscrowAssumption, IInv, NEW sender \in Addresses, NEW h \in Contexts, Refund(sender, h)
  PROVE  IInv'
<1> USE DEF IInv
<1> DEFINE n == Len(stack)
           top == [context |-> h, escrows |-> escrows, balance |-> balance, returned |-> returned]
<1>1. /\ stack' \in Seq(Frame) /\ n \in Nat
      /\ \A i \in Frames : stack'[i] = stack[i]
      /\ stack'[n + 1] = top
      /\ \A i \in Frames' : i \in Frames \/ i = n + 1
      /\ \A i \in Frames : i < n + 1
  BY PushFacts DEF Refund, TypeOK, Frames
<1>2. /\ escrows[h] \in [state : Lifecycle!State \ {"Empty"}, payer : Addresses,
                         provider : Addresses, amount : Amounts]
      /\ escrows[h].state = "Funded" /\ escrows[h].amount \in Nat
  BY DEF Refund, TypeOK, Lifecycle!Escrow, Lifecycle!NoEscrow, EscrowAssumption
<1>3. /\ escrows'[h] = [escrows[h] EXCEPT !.state = "Refunded"]
      /\ \A c \in Contexts \ {h} : escrows'[c] = escrows[c]
      /\ returned'[h] = returned[h] + escrows[h].amount
      /\ \A c \in Contexts \ {h} : returned'[c] = returned[c]
  BY DEF Refund, TypeOK
<1>4. /\ escrows'[h] \in Lifecycle!Escrow
      /\ escrows'[h].state = "Refunded" /\ escrows'[h].amount = escrows[h].amount
  BY <1>2, <1>3 DEF Lifecycle!Escrow, Lifecycle!State
<1>5. TypeOK'
  <2>1. escrows' \in [Contexts -> Lifecycle!Escrow]
    BY <1>3, <1>4 DEF Refund, TypeOK
  <2>2. returned' \in [Contexts -> Nat]
    BY <1>2 DEF Refund, TypeOK
  <2>3. balance' \in Nat
    BY <1>2 DEF Refund, TypeOK
  <2> QED
    BY <1>1, <2>1, <2>2, <2>3 DEF TypeOK
<1>6. ReturnedOnce'
  <2>1. returned[h] = 0
    BY <1>2 DEF ReturnedOnce, Lifecycle!Owed
  <2>2. returned'[h] = Lifecycle!Owed(escrows'[h])
    BY <1>2, <1>3, <1>4, <2>1 DEF Lifecycle!Owed
  <2> QED
    BY <1>3, <2>2 DEF ReturnedOnce, Lifecycle!Owed
<1>7. \A c \in Contexts : Lifecycle!Reaches(escrows[c], escrows'[c])
  BY <1>2, <1>3, <1>4 DEF Lifecycle!Reaches
<1>8. \A i \in Frames, c \in Contexts : Lifecycle!Reaches(stack[i].escrows[c], escrows'[c])
  <2> TAKE i \in Frames, c \in Contexts
  <2>1. /\ stack[i].escrows[c] \in Lifecycle!Escrow
        /\ escrows[c] \in Lifecycle!Escrow /\ escrows'[c] \in Lifecycle!Escrow
    BY <1>5, FrameFacts DEF TypeOK
  <2>2. Lifecycle!Reaches(stack[i].escrows[c], escrows[c])
    BY DEF FramesReachNow
  <2> QED
    BY <1>7, <2>1, <2>2, ReachesTransitive
<1> HIDE DEF n
<1>9. /\ top.context = h /\ top.escrows = escrows /\ top.returned = returned
  OBVIOUS
<1> HIDE DEF top
<1>10. FramesOwe'
  <2> SUFFICES ASSUME NEW i \in Frames', NEW c \in Contexts
               PROVE  stack'[i].returned[c] = Lifecycle!Owed(stack'[i].escrows[c])
    BY DEF FramesOwe, Lifecycle!Owed
  <2> QED
    BY <1>1, <1>9 DEF FramesOwe, ReturnedOnce
<1>11. FramesReachNow'
  <2> SUFFICES ASSUME NEW i \in Frames', NEW c \in Contexts
               PROVE  Lifecycle!Reaches(stack'[i].escrows[c], escrows'[c])
    BY DEF FramesReachNow, Lifecycle!Reaches
  <2> QED
    BY <1>1, <1>7, <1>8, <1>9
<1>12. FramesReachFrames'
  <2> SUFFICES ASSUME NEW i \in Frames', NEW j \in Frames', i < j, NEW c \in Contexts
               PROVE  Lifecycle!Reaches(stack'[i].escrows[c], stack'[j].escrows[c])
    BY DEF FramesReachFrames, Lifecycle!Reaches
  <2>1. i \in Frames
    BY <1>1 DEF Frames
  <2>2. CASE j \in Frames
    BY <1>1, <2>1, <2>2 DEF FramesReachFrames
  <2>3. CASE j = n + 1
    BY <1>1, <1>9, <2>1, <2>3 DEF FramesReachNow
  <2> QED
    BY <1>1, <2>2, <2>3
<1>13. RefundedNow'
  <2> SUFFICES ASSUME NEW i \in Frames'
               PROVE  escrows'[stack'[i].context].state = "Refunded"
    BY DEF RefundedNow
  <2>1. CASE i \in Frames
    <3>1. stack'[i] = stack[i] /\ stack[i].context \in Contexts
      BY <1>1, <2>1, FrameFacts
    <3>2. escrows[stack[i].context].state = "Refunded"
      BY <2>1 DEF RefundedNow
    <3>3. stack[i].context # h
      BY <1>2, <3>2
    <3> QED
      BY <1>3, <3>1, <3>2, <3>3
  <2>2. CASE i = n + 1
    BY <1>1, <1>4, <1>9, <2>2
  <2> QED
    BY <1>1, <2>1, <2>2
<1>14. RefundedAbove'
  <2> SUFFICES ASSUME NEW i \in Frames', NEW j \in Frames', i < j
               PROVE  stack'[j].escrows[stack'[i].context].state = "Refunded"
    BY DEF RefundedAbove
  <2>1. i \in Frames
    BY <1>1 DEF Frames
  <2>2. CASE j \in Frames
    BY <1>1, <2>1, <2>2 DEF RefundedAbove
  <2>3. CASE j = n + 1
    BY <1>1, <1>9, <2>1, <2>3 DEF RefundedNow
  <2> QED
    BY <1>1, <2>2, <2>3
<1>15. FundedBelow'
  BY <1>1, <1>2, <1>9 DEF FundedBelow
<1> QED
  BY <1>5, <1>6, <1>10, <1>11, <1>12, <1>13, <1>14, <1>15

(* A call that ends keeps the frames under its own. *)
LEMMA PopStep ==
  ASSUME IInv, stack # <<>>, Pop, TypeOK', ReturnedOnce',
         \/ UNCHANGED escrows
         \/ escrows' = stack[Len(stack)].escrows
  PROVE  IInv'
<1> USE DEF IInv
<1>1. /\ Len(stack) \in Frames
      /\ \A i \in Frames' : i \in Frames /\ i < Len(stack) /\ stack'[i] = stack[i]
  BY PopFacts
<1>2. FramesOwe'
  BY <1>1 DEF FramesOwe, Lifecycle!Owed
<1>3. FramesReachNow'
  BY <1>1 DEF FramesReachNow, FramesReachFrames, Lifecycle!Reaches
<1>4. FramesReachFrames'
  BY <1>1 DEF FramesReachFrames, Lifecycle!Reaches
<1>5. RefundedNow'
  BY <1>1 DEF RefundedNow, RefundedAbove
<1>6. RefundedAbove' /\ FundedBelow'
  BY <1>1 DEF RefundedAbove, FundedBelow
<1> QED
  BY <1>2, <1>3, <1>4, <1>5, <1>6

(* Every step keeps the invariant ... *)
LEMMA IInvStep == EscrowAssumption /\ IInv /\ [Next]_vars => IInv'
<1> SUFFICES ASSUME EscrowAssumption, IInv, [Next]_vars PROVE IInv'
  OBVIOUS
<1>1. ASSUME NEW sender \in Addresses, NEW h \in Contexts, NEW provider \in Addresses,
             NEW amount \in Amounts, Fund(sender, h, provider, amount)
      PROVE  IInv'
  BY <1>1, FundStep
<1>2. ASSUME NEW sender \in Addresses, NEW h \in Contexts, Deliver(sender, h)
      PROVE  IInv'
  BY <1>2, DeliverStep
<1>3. ASSUME NEW sender \in Addresses, NEW h \in Contexts, Refund(sender, h)
      PROVE  IInv'
  BY <1>3, RefundStep
<1>4. CASE CallReturns
  <2>1. TypeOK' /\ ReturnedOnce'
    BY <1>4, PopFacts DEF CallReturns, IInv, TypeOK, ReturnedOnce, Lifecycle!Owed
  <2> QED
    BY <1>4, <2>1, PopStep DEF CallReturns
<1>5. CASE CallFails
  <2>1. Len(stack) \in Frames /\ stack' \in Seq(Frame)
    BY <1>5, PopFacts DEF CallFails, IInv
  <2>2. TypeOK'
    <3>1. /\ escrows' = stack[Len(stack)].escrows
          /\ balance' = stack[Len(stack)].balance
          /\ returned' = stack[Len(stack)].returned
      BY <1>5 DEF CallFails, Top
    <3>2. /\ stack[Len(stack)].escrows \in [Contexts -> Lifecycle!Escrow]
          /\ stack[Len(stack)].balance \in Nat
          /\ stack[Len(stack)].returned \in [Contexts -> Nat]
      BY <2>1, FrameFacts DEF IInv
    <3> QED
      BY <2>1, <3>1, <3>2 DEF TypeOK
  <2>3. ReturnedOnce'
    BY <1>5, <2>1 DEF CallFails, Top, IInv, FramesOwe, ReturnedOnce, Lifecycle!Owed
  <2> QED
    BY <1>5, <2>2, <2>3, PopStep DEF CallFails, Top
<1>6. CASE UNCHANGED vars
  BY <1>6 DEF vars, IInv, TypeOK, ReturnedOnce, FramesOwe, FramesReachNow, FramesReachFrames,
              RefundedNow, RefundedAbove, FundedBelow, Frames, Lifecycle!Owed, Lifecycle!Reaches
<1> QED
  BY <1>1, <1>2, <1>3, <1>4, <1>5, <1>6 DEF Next

(* ... so that it always holds. *)
LEMMA IInvAlways == Spec => []IInv
  BY EscrowAssumption, IInvInit, IInvStep, PTL DEF Spec

-----------------------------------------------------------------------------
(* Every variable keeps its type; the balance never wraps below zero. *)
THEOREM TypeCorrect == Spec => []TypeOK
  BY IInvAlways, PTL DEF IInv

(* What was sent back is what the refunded contexts hold. *)
THEOREM EachRefundOnce == Spec => []ReturnedOnce
  BY IInvAlways, PTL DEF IInv

(* No context has two refunds running, and each is refunded for every call *)
(* made from its own external call.                                        *)
THEOREM RefundsNeverNest == Spec => []RefundsDoNotNest
<1>1. IInv => RefundsDoNotNest
  <2> SUFFICES ASSUME IInv PROVE RefundsDoNotNest
    OBVIOUS
  <2>1. \A i, j \in Frames : i < j => stack[i].context # stack[j].context
    BY DEF IInv, RefundedAbove, FundedBelow
  <2>2. \A i, j \in Frames : i # j => i < j \/ j < i
    BY DEF IInv, TypeOK, Frames
  <2>3. \A i \in Frames : escrows[stack[i].context].state = "Refunded"
    BY DEF IInv, RefundedNow
  <2> QED
    BY <2>1, <2>2, <2>3 DEF RefundsDoNotNest, Frames
<1> QED
  BY <1>1, IInvAlways, PTL

-----------------------------------------------------------------------------
(* The three things a step may do to the stack. *)
LEMMA StackMoves ==
  ASSUME [Next]_vars
  PROVE  \/ UNCHANGED stack
         \/ \E h \in Contexts : Push(h)
         \/ Pop /\ (CallReturns \/ CallFails)
<1>1. ASSUME NEW sender \in Addresses, NEW h \in Contexts, NEW provider \in Addresses,
             NEW amount \in Amounts, Fund(sender, h, provider, amount)
      PROVE  UNCHANGED stack
  BY <1>1 DEF Fund
<1>2. ASSUME NEW sender \in Addresses, NEW h \in Contexts, Deliver(sender, h)
      PROVE  UNCHANGED stack
  BY <1>2 DEF Deliver
<1>3. ASSUME NEW sender \in Addresses, NEW h \in Contexts, Refund(sender, h)
      PROVE  Push(h)
  BY <1>3 DEF Refund
<1>4. CallReturns => Pop
  BY DEF CallReturns
<1>5. CallFails => Pop
  BY DEF CallFails
<1>6. UNCHANGED vars => UNCHANGED stack
  BY DEF vars
<1> QED
  BY <1>1, <1>2, <1>3, <1>4, <1>5, <1>6 DEF Next

(* A step inside a transaction changes nothing a reader sees; the step     *)
(* that ends one moves every context along its lifecycle.                  *)
LEMMA LifecycleStep ==
  ASSUME IInv, IInv', [Next]_vars
  PROVE  [Lifecycle!Transaction]_<<Committed.escrows, Committed.returned>>
<1> DEFINE seen == Committed
<1>1. CASE stack = <<>> /\ stack' = <<>>
  <2>1. seen = [escrows |-> escrows, returned |-> returned]
        /\ seen' = [escrows |-> escrows', returned |-> returned']
    BY <1>1 DEF Committed
  <2>2. \/ UNCHANGED <<escrows, returned>>
        \/ \A h \in Contexts : Lifecycle!Reaches(escrows[h], escrows'[h])
    <3>1. ASSUME NEW sender \in Addresses, NEW h \in Contexts, NEW provider \in Addresses,
                 NEW amount \in Amounts, Fund(sender, h, provider, amount)
          PROVE  \A c \in Contexts : Lifecycle!Reaches(escrows[c], escrows'[c])
      BY <3>1 DEF Fund, IInv, TypeOK, Lifecycle!Reaches
    <3>2. ASSUME NEW sender \in Addresses, NEW h \in Contexts, Deliver(sender, h)
          PROVE  \A c \in Contexts : Lifecycle!Reaches(escrows[c], escrows'[c])
      BY <3>2, DeliverMoves DEF IInv
    <3>3. ASSUME NEW sender \in Addresses, NEW h \in Contexts, Refund(sender, h)
          PROVE  FALSE
      BY <3>3, <1>1, PushFacts DEF Refund, IInv
    <3>4. ~ CallReturns /\ ~ CallFails
      BY <1>1 DEF CallReturns, CallFails
    <3> QED
      BY <3>1, <3>2, <3>3, <3>4 DEF Next, vars
  <2> QED
    BY <2>1, <2>2 DEF Lifecycle!Transaction, IInv, TypeOK, ReturnedOnce
<1>2. CASE stack = <<>> /\ stack' # <<>>
  <2>1. PICK h \in Contexts : Push(h)
    BY <1>2, StackMoves DEF CallReturns, CallFails
  <2>2. stack'[1] = [context |-> h, escrows |-> escrows, balance |-> balance,
                     returned |-> returned]
    BY <1>2, <2>1, PushFacts DEF IInv
  <2> QED
    BY <1>2, <2>2 DEF Committed
<1>3. CASE stack # <<>> /\ stack' = <<>>
  <2>1. Pop /\ (CallReturns \/ CallFails)
    <3>1. ASSUME NEW h \in Contexts, Push(h) PROVE FALSE
      <4>1. TypeOK
        BY DEF IInv
      <4>2. Len(stack') = Len(stack) + 1
        BY <3>1, <4>1, PushFacts
      <4>3. Len(stack) \in Nat
        BY <4>1 DEF TypeOK
      <4>4. Len(stack') = 0
        BY <1>3
      <4> QED
        BY <4>2, <4>3, <4>4
    <3>2. ~ UNCHANGED stack
      BY <1>3
    <3> QED
      BY <3>1, <3>2, StackMoves
  <2>2. Len(stack) = 1 /\ 1 \in Frames
    BY <1>3, <2>1, PopFacts DEF IInv, Frames
  <2>3. \A h \in Contexts : Lifecycle!Reaches(stack[1].escrows[h], escrows'[h])
    BY <2>1, <2>2 DEF CallReturns, CallFails, Top, IInv, FramesReachNow, Lifecycle!Reaches
  <2>4. /\ Committed.escrows = stack[1].escrows
        /\ Committed'.escrows = escrows' /\ Committed'.returned = returned'
    BY <1>3 DEF Committed
  <2> QED
    BY <2>3, <2>4 DEF Lifecycle!Transaction, IInv, TypeOK, ReturnedOnce
<1>4. CASE stack # <<>> /\ stack' # <<>>
  <2>1. 1 \in Frames /\ 1 \in Frames'
    BY <1>4, EmptySeq DEF IInv, TypeOK, Frames
  <2>2. CASE UNCHANGED stack
    BY <1>4, <2>2 DEF Committed
  <2>3. ASSUME NEW h \in Contexts, Push(h) PROVE UNCHANGED stack[1]
    BY <2>1, <2>3, PushFacts DEF IInv
  <2>4. ASSUME Pop PROVE UNCHANGED stack[1]
    <3>1. TypeOK
      BY DEF IInv
    <3> QED
      BY <1>4, <2>1, <2>4, <3>1, PopFacts
  <2>5. \/ UNCHANGED stack \/ Pop \/ \E h \in Contexts : Push(h)
    BY StackMoves
  <2> QED
    BY <1>4, <2>2, <2>3, <2>4, <2>5 DEF Committed
<1> QED
  BY <1>1, <1>2, <1>3, <1>4

(* Between transactions the contract implements the lifecycle.             *)
THEOREM EscrowRefinesLifecycle == Spec => ImplementsLifecycle
<1>1. Init => Lifecycle!Init
  BY DEF Init, Committed, Lifecycle!Init
<1> QED
  BY <1>1, IInvAlways, LifecycleStep, PTL DEF Spec, ImplementsLifecycle, Lifecycle!Spec
-----------------------------------------------------------------------------
(* Solvency                                                                *)

(* A storage and a balance that belong together; the sum is over finitely  *)
(* many contexts, however many there are to fund.                          *)
Covers(e, b) == IsFiniteSet(Holding(e)) /\ b = Held(e)

(* So do those that a revert can restore. *)
AllCovered ==
  /\ Covers(escrows, balance)
  /\ \A i \in Frames : Covers(stack[i].escrows, stack[i].balance)

Storage == [Contexts -> Lifecycle!Escrow]

LEMMA HoldingValue ==
  ASSUME EscrowAssumption, NEW e \in Storage
  PROVE  \A h \in Holding(e) : e[h].amount \in Nat
<1> SUFFICES ASSUME NEW h \in Holding(e) PROVE e[h].amount \in Nat
  OBVIOUS
<1>1. e[h] \in Lifecycle!Escrow /\ e[h].state # "Empty"
  BY DEF Holding, Storage
<1>2. e[h] \in [state : Lifecycle!State \ {"Empty"}, payer : Addresses,
                provider : Addresses, amount : Amounts]
  BY <1>1 DEF Lifecycle!Escrow, Lifecycle!NoEscrow
<1> QED
  BY <1>2 DEF EscrowAssumption

(* Storages that agree on what they hold, hold the same. *)
LEMMA HeldAgrees ==
  ASSUME NEW e, NEW d, NEW b, Covers(e, b), Holding(d) = Holding(e),
         \A h \in Holding(e) : d[h].amount = e[h].amount
  PROVE  Covers(d, b)
<1> DEFINE S == Holding(e)
           f == [h \in S |-> e[h].amount]
           g == [h \in S |-> d[h].amount]
<1>1. IsFiniteSet(S) /\ \A h \in S : f[h] = g[h]
  BY DEF Covers
<1>2. SumFunctionOnSet(f, S) = SumFunctionOnSet(g, S)
  <2> HIDE DEF S, f, g
  <2> QED
    BY <1>1, SumAgrees
<1> QED
  BY <1>2 DEF Covers, Held, SumFunction

(* A storage that holds one context more, holds its value more. *)
LEMMA HeldMore ==
  ASSUME EscrowAssumption, NEW e \in Storage, NEW d \in Storage, NEW h, h \notin Holding(e),
         Holding(d) = Holding(e) \cup {h}, \A c \in Holding(e) : d[c].amount = e[c].amount,
         IsFiniteSet(Holding(e))
  PROVE  /\ IsFiniteSet(Holding(d))
         /\ Held(d) = d[h].amount + Held(e) /\ Held(e) \in Nat /\ d[h].amount \in Nat
<1> DEFINE S == Holding(e)
           T == Holding(d)
           f == [c \in S |-> e[c].amount]
           g == [c \in T |-> d[c].amount]
<1>1. IsFiniteSet(S) /\ IsFiniteSet(T) /\ T \ {h} = S /\ h \in T
  BY FS_AddElement
<1>2. (\A c \in T : g[c] \in Nat) /\ (\A c \in S : f[c] \in Nat /\ g[c] = f[c]) /\ g[h] = d[h].amount
  BY HoldingValue
<1>3. Held(d) = SumFunctionOnSet(g, T) /\ Held(e) = SumFunctionOnSet(f, S)
  BY DEF Held, SumFunction
<1> HIDE DEF S, T, f, g
<1>4. SumFunctionOnSet(g, T) = g[h] + SumFunctionOnSet(g, S)
  BY <1>1, <1>2, SumRemove
<1>5. SumFunctionOnSet(g, S) = SumFunctionOnSet(f, S) /\ SumFunctionOnSet(f, S) \in Nat
  BY <1>1, <1>2, SumAgrees, SumNat
<1>6. g[h] \in Nat
  BY <1>1, <1>2
<1> QED
  BY <1>1, <1>2, <1>3, <1>4, <1>5, <1>6 DEF T

-----------------------------------------------------------------------------
LEMMA CoveredInit == Init => AllCovered
<1> SUFFICES ASSUME Init PROVE AllCovered
  OBVIOUS
<1>1. Holding(escrows) = {} /\ Frames = {}
  BY DEF Init, Holding, Lifecycle!NoEscrow, Frames
<1>2. Held(escrows) = 0 /\ IsFiniteSet({})
  BY <1>1, SumEmpty, FS_EmptySet DEF Held, SumFunction
<1> QED
  BY <1>1, <1>2 DEF Init, AllCovered, Covers

LEMMA CoveredFund ==
  ASSUME EscrowAssumption, IInv, IInv', Covers(escrows, balance), NEW sender \in Addresses,
         NEW h \in Contexts, NEW provider \in Addresses, NEW amount \in Amounts,
         Fund(sender, h, provider, amount)
  PROVE  Covers(escrows', balance')
<1>1. escrows \in Storage /\ escrows' \in Storage
  BY DEF IInv, TypeOK, Storage
<1>2. /\ escrows[h].state = "Empty"
      /\ escrows'[h].state = "Funded" /\ escrows'[h].amount = amount
      /\ \A c \in Contexts \ {h} : escrows'[c] = escrows[c]
  BY <1>1 DEF Fund, Storage
<1>3. /\ h \notin Holding(escrows) /\ Holding(escrows') = Holding(escrows) \cup {h}
      /\ \A c \in Holding(escrows) : escrows'[c].amount = escrows[c].amount
  BY <1>2 DEF Holding
<1>4. /\ IsFiniteSet(Holding(escrows'))
      /\ Held(escrows') = escrows'[h].amount + Held(escrows)
      /\ Held(escrows) \in Nat /\ escrows'[h].amount \in Nat
  BY <1>1, <1>3, HeldMore DEF Covers
<1> QED
  BY <1>2, <1>4 DEF Covers, Fund

LEMMA CoveredDeliver ==
  ASSUME IInv, Covers(escrows, balance), NEW sender \in Addresses, NEW h \in Contexts,
         Deliver(sender, h)
  PROVE  Covers(escrows', balance')
<1>1. /\ escrows[h].state = "Funded" /\ escrows'[h] = [escrows[h] EXCEPT !.state = "Delivered"]
      /\ \A c \in Contexts \ {h} : escrows'[c] = escrows[c]
  BY DEF Deliver, IInv, TypeOK
<1>2. escrows'[h].state = "Delivered" /\ escrows'[h].amount = escrows[h].amount
  <2>1. escrows[h] \in [state : Lifecycle!State \ {"Empty"}, payer : Addresses,
                        provider : Addresses, amount : Amounts]
    BY <1>1 DEF IInv, TypeOK, Lifecycle!Escrow, Lifecycle!NoEscrow
  <2> QED
    BY <1>1, <2>1
<1>3. /\ Holding(escrows') = Holding(escrows)
      /\ \A c \in Holding(escrows) : escrows'[c].amount = escrows[c].amount
  BY <1>1, <1>2 DEF Holding
<1> QED
  BY <1>3, HeldAgrees DEF Deliver

LEMMA CoveredRefund ==
  ASSUME EscrowAssumption, IInv, IInv', Covers(escrows, balance), NEW sender \in Addresses,
         NEW h \in Contexts, Refund(sender, h)
  PROVE  Covers(escrows', balance')
<1>1. escrows \in Storage /\ escrows' \in Storage
  BY DEF IInv, TypeOK, Storage
<1>2. /\ escrows[h].state = "Funded"
      /\ escrows'[h] = [escrows[h] EXCEPT !.state = "Refunded"]
      /\ \A c \in Contexts \ {h} : escrows'[c] = escrows[c]
  BY <1>1 DEF Refund, Storage
<1>3. escrows'[h].state = "Refunded"
  <2>1. escrows[h] \in [state : Lifecycle!State \ {"Empty"}, payer : Addresses,
                        provider : Addresses, amount : Amounts]
    BY <1>1, <1>2 DEF Storage, Lifecycle!Escrow, Lifecycle!NoEscrow
  <2> QED
    BY <1>2, <2>1
<1>4. /\ h \notin Holding(escrows') /\ Holding(escrows) = Holding(escrows') \cup {h}
      /\ \A c \in Holding(escrows') : escrows[c].amount = escrows'[c].amount
  BY <1>2, <1>3 DEF Holding
<1>5. IsFiniteSet(Holding(escrows'))
  BY <1>4, FS_Subset DEF Covers
<1>6. /\ Held(escrows) = escrows[h].amount + Held(escrows')
      /\ Held(escrows') \in Nat /\ escrows[h].amount \in Nat
  BY <1>1, <1>4, <1>5, HeldMore
<1> QED
  BY <1>5, <1>6 DEF Covers, Refund

LEMMA CoveredStep ==
  EscrowAssumption /\ IInv /\ IInv' /\ AllCovered /\ [Next]_vars => AllCovered'
<1> SUFFICES ASSUME EscrowAssumption, IInv, IInv', AllCovered, [Next]_vars PROVE AllCovered'
  OBVIOUS
<1>1. CASE Covers(escrows', balance') /\ UNCHANGED stack
  BY <1>1 DEF AllCovered, Frames, Covers, Held, Holding
<1>2. ASSUME NEW sender \in Addresses, NEW h \in Contexts, NEW provider \in Addresses,
             NEW amount \in Amounts, Fund(sender, h, provider, amount)
      PROVE  AllCovered'
  BY <1>1, <1>2, CoveredFund DEF AllCovered, Fund
<1>3. ASSUME NEW sender \in Addresses, NEW h \in Contexts, Deliver(sender, h)
      PROVE  AllCovered'
  BY <1>1, <1>3, CoveredDeliver DEF AllCovered, Deliver
<1>4. ASSUME NEW sender \in Addresses, NEW h \in Contexts, Refund(sender, h)
      PROVE  AllCovered'
  <2>1. Covers(escrows', balance')
    BY <1>4, CoveredRefund DEF AllCovered
  <2>2. ASSUME NEW i \in Frames' PROVE Covers(stack'[i].escrows, stack'[i].balance)
    <3>1. /\ \A j \in Frames : stack'[j] = stack[j]
          /\ stack'[Len(stack) + 1] =
               [context |-> h, escrows |-> escrows, balance |-> balance, returned |-> returned]
          /\ i \in Frames \/ i = Len(stack) + 1
      BY <1>4, <2>2, PushFacts DEF IInv, Refund
    <3>2. CASE i \in Frames
      BY <3>1, <3>2 DEF AllCovered
    <3>3. CASE i = Len(stack) + 1
      <4>1. stack'[i].escrows = escrows /\ stack'[i].balance = balance
        BY <3>1, <3>3
      <4> QED
        BY <4>1 DEF AllCovered
    <3> QED
      BY <3>1, <3>2, <3>3
  <2> QED
    BY <2>1, <2>2 DEF AllCovered, Covers, Held, Holding
<1>5. CASE CallReturns \/ CallFails
  <2>1. /\ Len(stack) \in Frames
        /\ \A i \in Frames' : i \in Frames /\ stack'[i] = stack[i]
    BY <1>5, PopFacts DEF CallReturns, CallFails, IInv
  <2>2. \A i \in Frames' : Covers(stack'[i].escrows, stack'[i].balance)
    BY <2>1 DEF AllCovered
  <2>3. Covers(escrows', balance')
    BY <1>5, <2>1 DEF AllCovered, CallReturns, CallFails, Top
  <2> QED
    BY <2>2, <2>3 DEF AllCovered, Covers, Held, Holding
<1>6. CASE UNCHANGED vars
  BY <1>1, <1>6 DEF vars, AllCovered
<1> QED
  BY <1>2, <1>3, <1>4, <1>5, <1>6 DEF Next

LEMMA CoveredAlways == Spec => [](IInv /\ AllCovered)
<1>1. EscrowAssumption /\ IInv /\ AllCovered /\ [Next]_vars => IInv' /\ AllCovered'
  BY IInvStep, CoveredStep
<1> QED
  BY <1>1, EscrowAssumption, IInvInit, CoveredInit, PTL DEF Spec

(* The contract holds exactly the value of what is funded or delivered,    *)
(* also within a refund's external call and after any revert.              *)
THEOREM AlwaysSolvent == Spec => []Solvent
  BY CoveredAlways, PTL DEF AllCovered, Covers, Solvent

(* So a refund never fails for want of value: the balance covers each      *)
(* funded context.                                                         *)
THEOREM RefundsAreCovered ==
  Spec => [](\A h \in Contexts : escrows[h].state = "Funded" => escrows[h].amount <= balance)
<1>1. ASSUME IInv, AllCovered, NEW h \in Contexts, escrows[h].state = "Funded"
      PROVE  escrows[h].amount <= balance
  <2> DEFINE S == Holding(escrows)
             f == [c \in S |-> escrows[c].amount]
  <2>1. h \in S /\ IsFiniteSet(S) /\ balance = SumFunctionOnSet(f, S) /\ f[h] = escrows[h].amount
    BY <1>1 DEF AllCovered, Covers, Held, SumFunction, Holding
  <2>2. \A c \in S : f[c] \in Nat
    BY <1>1, EscrowAssumption, HoldingValue DEF IInv, TypeOK, Storage
  <2> HIDE DEF S, f
  <2>3. IsFiniteSet(S \ {h}) /\ \A c \in S \ {h} : f[c] \in Nat
    BY <2>1, <2>2, FS_Subset
  <2>4. balance = f[h] + SumFunctionOnSet(f, S \ {h})
    BY <2>1, <2>2, SumRemove
  <2>5. f[h] \in Nat /\ SumFunctionOnSet(f, S \ {h}) \in Nat
    BY <2>1, <2>2, <2>3, SumNat
  <2> QED
    BY <2>1, <2>4, <2>5
<1>2. IInv /\ AllCovered =>
        \A h \in Contexts : escrows[h].state = "Funded" => escrows[h].amount <= balance
  BY <1>1
<1> QED
  BY <1>2, CoveredAlways, PTL
=============================================================================
