--------------------------- MODULE DisputesProofs ---------------------------
(***************************************************************************)
(* Proofs about disputes, for every number of bidders, moderators,         *)
(* auctions and disputes: as long as no two threads overlap (~raced), an   *)
(* auction is DISPUTED exactly when one of its disputes is pending, its    *)
(* winner is refunded at most once, and refunds are paid by the sellers.   *)
(***************************************************************************)
EXTENDS Disputes, WalletProofs, SequenceTheorems

USE DisputesAssumption DEF Threads, Users

-----------------------------------------------------------------------------
(* The inductive invariant *)

\* Each thread is where its handler can be, and an overlap is recorded.
Places ==
  /\ \A f \in Filers : pc[f] \in FilerLabels
  /\ \A m \in Moderators : pc[m] \in ModeratorLabels
  /\ Overlap => raced

\* The handlers of disputes put nothing on hold.
NoHolds == \A u \in Users : wallet[u].hold = 0

IsPending(i) == disputes[i].status \in {"open", "resolved"}
IsDispute(i, a, s) ==
  i \in 1..Len(disputes) /\ disputes[i] = [auction |-> a, status |-> s]

OnePending ==
  \A i, j \in 1..Len(disputes) :
    IsPending(i) /\ IsPending(j) /\ disputes[i].auction = disputes[j].auction
      => i = j

\* What a bidder's thread that files a dispute over a can count on.
FilerAt(f, a) ==
  /\ status[a] = AuctionClosed
  /\ doc[f].status = "open"
  /\ pc[f] \in {"number", "write"} => ~Pending(a)
  /\ pc[f] = "write" => doc[f].id = Len(disputes) + 1
  /\ pc[f] = "mark" => IsDispute(doc[f].id, a, "open")

\* What a moderator's thread that resolves a dispute over a can count on.
ModeratorAt(m, a) ==
  /\ status[a] = AuctionDisputed
  /\ pc[m] = "decide" => /\ IsDispute(doc[m].id, a, "open")
                         /\ doc[m].status \in {"resolved", "rejected"}
  /\ pc[m] \in {"credit", "check", "debit"} => IsDispute(doc[m].id, a, "resolved")
  /\ pc[m] = "restore" => IsDispute(doc[m].id, a, "rejected") /\ ~Pending(a)

StatusRight(a) == status[a] = AuctionDisputed <=> Pending(a)
Quiet(a) == \A t \in Threads : Busy(t) => doc[t].auction # a

OrderInv ==
  /\ OnePending
  /\ \A f \in Filers : Busy(f) => FilerAt(f, doc[f].auction)
  /\ \A m \in Moderators : Busy(m) => ModeratorAt(m, doc[m].auction)
  /\ \A a \in Auctions : Quiet(a) => StatusRight(a)

\* A refund follows each granted dispute, once, and what is flagged was
\* refunded.
At(a, labels) ==
  \E m \in Moderators : doc[m].auction = a /\ pc[m] \in labels
Granted(a) == \E i \in 1..Len(disputes) : IsDispute(i, a, "resolved")

RefundRight(a) ==
  /\ refunds[a] = IF Granted(a) /\ ~At(a, {"credit"}) THEN 1 ELSE 0
  /\ a \in anomalies => Granted(a) /\ ~At(a, {"credit", "check", "debit"})

RefundInv == \A a \in Auctions : RefundRight(a)

\* A seller who was found able to pay still is.
SellersCanPay ==
  \A m \in Moderators : pc[m] = "debit" =>
    wallet[SellerOf[doc[m].auction]].balance >= PriceOf[doc[m].auction]

\* What the refund of an auction added to the balances so far.
Owed(a) == Credited(a) - Debited(a)
Accounted ==
  Balances = SumFunction(InitialBalance)
             + SumFunction([a \in Auctions |-> Owed(a)])

DisputesInv ==
  /\ Places
  /\ NoHolds
  /\ ~raced => OrderInv /\ RefundInv /\ SellersCanPay /\ Accounted

-----------------------------------------------------------------------------
(* Types *)

\* The three calls that change a wallet are credits of a price or of minus
\* a price.
LEMMA CreditNoHold ==
  ASSUME NEW w \in WalletRecord, w.hold = 0, NEW n \in Int
  PROVE  Outcome("credit", w, n) =
           [balance |-> IF w.balance + n >= 0 THEN w.balance + n ELSE w.balance,
            hold |-> 0]
<1>1. w = [balance |-> w.balance, hold |-> 0] /\ w.balance \in Nat
  BY DEF WalletRecord
<1>2. NewHold(w, 0) = 0
  BY DEF NewHold
<1>3. BalanceDelta("credit", n) = n /\ HoldDelta("credit", n) = 0
  BY DEF BalanceDelta, HoldDelta
<1>4. DeltaAccepted(w, n, 0) <=> w.balance + n >= 0
  BY <1>1, <1>2 DEF DeltaAccepted
<1> QED
  BY <1>1, <1>2, <1>3, <1>4 DEF Outcome, Accepted, FundsCover, ApplyDelta

LEMMA WalletCallType ==
  ASSUME TypeOK, NEW u, NEW n \in Int, WalletCall("credit", u, n)
  PROVE  wallet' \in [Users -> WalletRecord]
<1>1. \A v \in Users : Outcome("credit", wallet[v], n) \in WalletRecord
  BY OutcomeType DEF TypeOK, CallAmount, Ops
<1> QED
  BY <1>1 DEF WalletCall, TypeOK

\* write_dispute appends a record or replaces one.
LEMMA WriteDisputeType ==
  ASSUME TypeOK, NEW d \in Local, WriteDispute(d)
  PROVE  disputes' \in Seq(DisputeRecord)
<1> DEFINE r == [auction |-> d.auction, status |-> d.status]
<1>1. r \in DisputeRecord /\ disputes \in Seq(DisputeRecord)
  BY DEF Local, DisputeRecord, TypeOK
<1>2. CASE d.id = Len(disputes) + 1
  <2>1. disputes' = Append(disputes, r)
    BY <1>2 DEF WriteDispute
  <2> HIDE DEF r
  <2> QED
    BY <1>1, <2>1
<1>3. CASE d.id # Len(disputes) + 1
  <2>1. disputes' = [disputes EXCEPT ![d.id] = r]
    BY <1>3 DEF WriteDispute
  <2> HIDE DEF r
  <2>2. CASE d.id \in 1..Len(disputes)
    BY <1>1, <2>1, <2>2, ExceptSeq
  <2>3. CASE d.id \notin 1..Len(disputes)
    <3>1. DOMAIN disputes = 1..Len(disputes)
      BY <1>1
    <3>2. disputes' = disputes
      BY <2>1, <2>3, <3>1, <1>1
    <3> QED
      BY <1>1, <3>2
  <2> QED
    BY <2>2, <2>3
<1> QED
  BY <1>2, <1>3

LEMMA NoDocType == NoDoc \in Local
BY DEF NoDoc, Local, DisputeStatus

LEMMA InitType == Init => TypeOK
<1> SUFFICES ASSUME Init PROVE TypeOK
  OBVIOUS
<1>1. wallet \in [Users -> WalletRecord]
  BY DEF Init, WalletRecord
<1>2. doc \in [Threads -> Local]
  BY NoDocType DEF Init
<1>3. disputes \in Seq(DisputeRecord)
  BY EmptySeq DEF Init
<1>4. pc \in [Threads -> FilerLabels \cup ModeratorLabels]
  BY DEF Init, FilerLabels
<1>5. /\ status \in [Auctions -> {AuctionClosed, AuctionDisputed}]
      /\ anomalies \subseteq Auctions /\ raced \in BOOLEAN
      /\ refunds \in [Auctions -> Nat]
  BY DEF Init
<1> QED
  BY <1>1, <1>2, <1>3, <1>4, <1>5 DEF TypeOK

\* Steps that only move one thread and its copy.
LEMMA MoveType ==
  ASSUME TypeOK, NEW t \in Threads,
         NEW label \in FilerLabels \cup ModeratorLabels, Goto(t, label),
         NEW d \in Local, doc' = [doc EXCEPT ![t] = d] \/ doc' = doc
  PROVE  /\ pc' \in [Threads -> FilerLabels \cup ModeratorLabels]
         /\ doc' \in [Threads -> Local]
<1>1. pc' = [pc EXCEPT ![t] = label] /\ pc \in [Threads -> FilerLabels \cup ModeratorLabels]
  BY DEF TypeOK, Goto
<1>2. doc \in [Threads -> Local]
  BY DEF TypeOK
<1>3. pc' \in [Threads -> FilerLabels \cup ModeratorLabels]
  BY <1>1
<1>4. doc' \in [Threads -> Local]
  BY <1>2
<1> QED
  BY <1>3, <1>4

LEMMA NextType ==
  ASSUME TypeOK, Next
  PROVE  TypeOK'
<1>1. raced' \in BOOLEAN
  BY DEF Next, TypeOK
<1>2. NoDoc \in Local /\ \A t \in Threads : doc[t] \in Local
  BY NoDocType DEF TypeOK
<1>3. \A a \in Auctions : [NoDoc EXCEPT !.auction = a] \in Local
  BY NoDocType DEF Local
<1>4. \A label \in FilerLabels \cup ModeratorLabels, t \in Threads, d \in Local :
        Goto(t, label) /\ (doc' = [doc EXCEPT ![t] = d] \/ doc' = doc)
          => /\ pc' \in [Threads -> FilerLabels \cup ModeratorLabels]
             /\ doc' \in [Threads -> Local]
  BY MoveType
<1>5. ASSUME NEW f \in Filers, FileStep(f) PROVE TypeOK'
  <2>0. f \in Threads /\ doc[f] \in Local
    BY <1>2
  <2>1. CASE FileRead(f)
    <3>1. PICK a \in Auctions : doc' = [doc EXCEPT ![f] = [NoDoc EXCEPT !.auction = a]]
      BY <2>1 DEF FileRead
    <3>2. Goto(f, "number") /\ UNCHANGED <<status, disputes, wallet, anomalies, refunds>>
      BY <2>1 DEF FileRead
    <3> QED
      BY <1>1, <1>3, <1>4, <2>0, <3>1, <3>2 DEF TypeOK, FilerLabels
  <2>2. CASE FileNumber(f)
    <3> DEFINE d == [doc[f] EXCEPT !.id = Len(disputes) + 1]
    <3>1. Len(disputes) + 1 \in Nat
      BY LenProperties DEF TypeOK
    <3>2. d \in Local
      BY <2>0, <3>1 DEF Local
    <3>3. doc' = [doc EXCEPT ![f] = d] /\ Goto(f, "write")
          /\ UNCHANGED <<status, disputes, wallet, anomalies, refunds>>
      BY <2>2, <2>0 DEF FileNumber, TypeOK
    <3> HIDE DEF d
    <3> QED
      BY <1>1, <1>4, <2>0, <3>2, <3>3 DEF TypeOK, FilerLabels
  <2>3. CASE FileWrite(f)
    <3>1. disputes' \in Seq(DisputeRecord)
      BY <2>0, <2>3, WriteDisputeType DEF FileWrite
    <3>2. Goto(f, "mark") /\ UNCHANGED <<status, wallet, anomalies, doc, refunds>>
      BY <2>3 DEF FileWrite
    <3> QED
      BY <1>1, <1>4, <2>0, <3>1, <3>2 DEF TypeOK, FilerLabels
  <2>4. CASE FileMark(f)
    <3>1. Goto(f, "idle") /\ doc' = [doc EXCEPT ![f] = NoDoc]
          /\ UNCHANGED <<disputes, wallet, anomalies, refunds>>
      BY <2>4 DEF FileMark, Return
    <3>2. status' \in [Auctions -> {AuctionClosed, AuctionDisputed}]
      BY <2>4 DEF FileMark, TypeOK
    <3> QED
      BY <1>1, <1>2, <1>4, <2>0, <3>1, <3>2 DEF TypeOK, FilerLabels
  <2> QED
    BY <1>5, <2>1, <2>2, <2>3, <2>4 DEF FileStep
<1>6. ASSUME NEW m \in Moderators, ResolveStep(m) PROVE TypeOK'
  <2>0. /\ m \in Threads /\ doc[m] \in Local /\ doc[m].auction \in Auctions
        /\ PriceOf[doc[m].auction] \in Int /\ -PriceOf[doc[m].auction] \in Int
    BY <1>2 DEF Local
  <2>1. CASE ResolveRead(m)
    <3>1. PICK i \in 1..Len(disputes), verdict \in {"resolved", "rejected"} :
            doc' = [doc EXCEPT ![m] =
              [id |-> i, auction |-> disputes[i].auction, status |-> verdict]]
      BY <2>1 DEF ResolveRead
    <3>2. disputes[i] \in DisputeRecord
      BY ElementOfSeq DEF TypeOK
    <3>3. [id |-> i, auction |-> disputes[i].auction, status |-> verdict] \in Local
      BY <3>2 DEF Local, DisputeRecord, DisputeStatus
    <3>4. Goto(m, "decide") /\ UNCHANGED <<status, disputes, wallet, anomalies, refunds>>
      BY <2>1 DEF ResolveRead
    <3> QED
      BY <1>1, <1>4, <2>0, <3>1, <3>3, <3>4 DEF TypeOK, ModeratorLabels
  <2>2. CASE ResolveWrite(m)
    <3>1. disputes' \in Seq(DisputeRecord)
      BY <2>0, <2>2, WriteDisputeType DEF ResolveWrite
    <3>2. \E label \in {"credit", "restore"} : Goto(m, label)
      BY <2>2 DEF ResolveWrite
    <3>3. UNCHANGED <<status, wallet, anomalies, doc, refunds>>
      BY <2>2 DEF ResolveWrite
    <3> QED
      BY <1>1, <1>4, <2>0, <3>1, <3>2, <3>3 DEF TypeOK, ModeratorLabels
  <2>3. CASE RefundWinner(m)
    <3>1. wallet' \in [Users -> WalletRecord]
      BY <2>0, <2>3, WalletCallType DEF RefundWinner
    <3>2. refunds' \in [Auctions -> Nat]
      <4>1. refunds' = [refunds EXCEPT ![doc[m].auction] = refunds[doc[m].auction] + 1]
        BY <2>0, <2>3 DEF RefundWinner, TypeOK
      <4>2. refunds \in [Auctions -> Nat]
        BY DEF TypeOK
      <4> QED
        BY <2>0, <4>1, <4>2
    <3>3. Goto(m, "check") /\ UNCHANGED <<status, disputes, anomalies, doc>>
      BY <2>3 DEF RefundWinner
    <3> QED
      BY <1>1, <1>4, <2>0, <3>1, <3>2, <3>3 DEF TypeOK, ModeratorLabels
  <2>4. CASE CheckSeller(m)
    <3>1. UNCHANGED <<status, disputes, wallet, refunds>>
      BY <2>4 DEF CheckSeller
    <3>2. CASE Goto(m, "debit") /\ UNCHANGED <<doc, anomalies>>
      BY <1>1, <1>4, <2>0, <3>1, <3>2 DEF TypeOK, ModeratorLabels
    <3>3. CASE /\ Goto(m, "idle") /\ doc' = [doc EXCEPT ![m] = NoDoc]
               /\ anomalies' = anomalies \cup {doc[m].auction}
      BY <1>1, <1>2, <1>4, <2>0, <3>1, <3>3 DEF TypeOK, ModeratorLabels
    <3> QED
      BY <2>4, <3>2, <3>3 DEF CheckSeller, Return
  <2>5. CASE DebitSeller(m)
    <3>1. wallet' \in [Users -> WalletRecord]
      BY <2>0, <2>5, WalletCallType DEF DebitSeller
    <3>2. Goto(m, "idle") /\ doc' = [doc EXCEPT ![m] = NoDoc]
          /\ UNCHANGED <<status, disputes, anomalies, refunds>>
      BY <2>5 DEF DebitSeller, Return
    <3> QED
      BY <1>1, <1>2, <1>4, <2>0, <3>1, <3>2 DEF TypeOK, ModeratorLabels
  <2>6. CASE Restore(m)
    <3>1. Goto(m, "idle") /\ doc' = [doc EXCEPT ![m] = NoDoc]
          /\ UNCHANGED <<disputes, wallet, anomalies, refunds>>
      BY <2>6 DEF Restore, Return
    <3>2. status' \in [Auctions -> {AuctionClosed, AuctionDisputed}]
      BY <2>6 DEF Restore, TypeOK
    <3> QED
      BY <1>1, <1>2, <1>4, <2>0, <3>1, <3>2 DEF TypeOK, ModeratorLabels
  <2> QED
    BY <1>6, <2>1, <2>2, <2>3, <2>4, <2>5, <2>6 DEF ResolveStep
<1> QED
  BY <1>5, <1>6 DEF Next

\* The files and the threads' copies keep their shape.
THEOREM TypeCorrect == Spec => []TypeOK
<1>1. TypeOK /\ [Next]_vars => TypeOK'
  <2>1. TypeOK /\ UNCHANGED vars => TypeOK'
    BY DEF TypeOK, vars
  <2> QED
    BY <2>1, NextType
<1> QED
  BY <1>1, InitType, PTL DEF Spec

-----------------------------------------------------------------------------
(* What a step of one thread leaves alone                                  *)

\* What write_dispute does to disputes.dat.
LEMMA AppendDispute ==
  ASSUME TypeOK, NEW t \in Threads, WriteDispute(doc[t]),
         doc[t].id = Len(disputes) + 1
  PROVE  /\ Len(disputes') = Len(disputes) + 1
         /\ \A i \in 1..Len(disputes) : disputes'[i] = disputes[i]
         /\ disputes'[doc[t].id] =
              [auction |-> doc[t].auction, status |-> doc[t].status]
<1> DEFINE r == [auction |-> doc[t].auction, status |-> doc[t].status]
<1>1. disputes' = Append(disputes, r)
  BY DEF WriteDispute
<1>2. r \in DisputeRecord /\ disputes \in Seq(DisputeRecord)
  BY DEF TypeOK, Local, DisputeRecord
<1> HIDE DEF r
<1>3. /\ Len(disputes') = Len(disputes) + 1
      /\ \A i \in 1..Len(disputes) : disputes'[i] = disputes[i]
      /\ disputes'[Len(disputes) + 1] = r
  BY <1>1, <1>2
<1> QED
  BY <1>3 DEF r

LEMMA ReplaceDispute ==
  ASSUME TypeOK, NEW t \in Threads, WriteDispute(doc[t]),
         doc[t].id \in 1..Len(disputes)
  PROVE  /\ Len(disputes') = Len(disputes)
         /\ \A i \in 1..Len(disputes) :
              disputes'[i] =
                IF i = doc[t].id
                THEN [auction |-> doc[t].auction, status |-> doc[t].status]
                ELSE disputes[i]
<1> DEFINE r == [auction |-> doc[t].auction, status |-> doc[t].status]
<1>0. Len(disputes) \in Nat
  BY LenProperties DEF TypeOK
<1>1. disputes' = [disputes EXCEPT ![doc[t].id] = r]
  BY <1>0 DEF WriteDispute
<1>2. r \in DisputeRecord /\ disputes \in Seq(DisputeRecord)
  BY DEF TypeOK, Local, DisputeRecord
<1> HIDE DEF r
<1>3. /\ Len(disputes') = Len(disputes)
      /\ \A i \in 1..Len(disputes) :
           disputes'[i] = IF i = doc[t].id THEN r ELSE disputes[i]
  BY <1>1, <1>2, ExceptSeq
<1> QED
  BY <1>3 DEF r

\* A step of thread t over auction a, with nobody else at work on a: the
\* other threads, auctions and disputes are as they were.
StepOn(t, a) ==
  /\ \A s \in Threads \ {t} :
       pc'[s] = pc[s] /\ doc'[s] = doc[s] /\ (Busy(s) => doc[s].auction # a)
  /\ Busy(t) => doc[t].auction = a
  /\ pc'[t] # "idle" => doc'[t].auction = a
  /\ \A b \in Auctions \ {a} :
       /\ status'[b] = status[b]
       /\ refunds'[b] = refunds[b]
       /\ b \in anomalies' <=> b \in anomalies
  /\ \/ Len(disputes') = Len(disputes)
     \/ /\ Len(disputes') = Len(disputes) + 1
        /\ disputes'[Len(disputes) + 1].auction = a
        /\ \A f \in Filers \ {t} : ~Busy(f)
  /\ \A i \in 1..Len(disputes) :
       /\ disputes'[i].auction = disputes[i].auction
       /\ disputes[i].auction # a => disputes'[i] = disputes[i]

\* Without an overlap, nobody else is at work on a thread's auction, nor
\* two bidders at all.
LEMMA Alone ==
  ASSUME ~Overlap, NEW t \in Threads, Busy(t), NEW s \in Threads \ {t}, Busy(s)
  PROVE  /\ doc[s].auction # doc[t].auction
         /\ ~(s \in Filers /\ t \in Filers)
         /\ s \in Moderators /\ t \in Moderators
              => SellerOf[doc[s].auction] # SellerOf[doc[t].auction]
BY DEF Overlap, SameSubject

LEMMA AloneAfter ==
  ASSUME ~Overlap', NEW t \in Threads, pc'[t] # "idle",
         NEW s \in Threads \ {t}, pc'[s] # "idle"
  PROVE  /\ doc'[s].auction # doc'[t].auction
         /\ ~(s \in Filers /\ t \in Filers)
BY DEF Overlap, SameSubject, Busy

\* A thread that takes up an auction.
LEMMA ReadStep ==
  ASSUME TypeOK, ~Overlap', NEW t \in Threads, pc[t] = "idle",
         NEW label \in {"number", "decide"}, Goto(t, label),
         NEW d \in Local, doc' = [doc EXCEPT ![t] = d],
         UNCHANGED <<status, disputes, wallet, anomalies, refunds>>
  PROVE  /\ StepOn(t, d.auction)
         /\ pc'[t] = label /\ doc'[t] = d
         /\ Quiet(d.auction)
<1>1. pc'[t] = label /\ doc'[t] = d
  BY DEF TypeOK, Goto
<1>2. \A s \in Threads \ {t} : pc'[s] = pc[s] /\ doc'[s] = doc[s]
  BY DEF TypeOK, Goto
<1>3. \A s \in Threads \ {t} : Busy(s) => doc[s].auction # d.auction
  BY <1>1, <1>2, AloneAfter DEF Busy
<1>4. ~Busy(t)
  BY DEF Busy
<1> QED
  BY <1>1, <1>2, <1>3, <1>4 DEF StepOn, Quiet

\* A thread that goes on with an auction, or returns.
LEMMA BusyStep ==
  ASSUME TypeOK, ~Overlap, NEW t \in Threads, Busy(t),
         (FileStep(t) /\ t \in Filers) \/ (ResolveStep(t) /\ t \in Moderators)
  PROVE  \A s \in Threads \ {t} :
           /\ pc'[s] = pc[s] /\ doc'[s] = doc[s]
           /\ Busy(s) => doc[s].auction # doc[t].auction
<1>1. \A s \in Threads \ {t} : Busy(s) => doc[s].auction # doc[t].auction
  BY Alone
<1>2. CASE FileStep(t)
  BY <1>1, <1>2 DEF TypeOK, Busy, FileStep, FileRead, FileNumber, FileWrite,
                    FileMark, Goto, Return
<1>3. CASE ResolveStep(t)
  <2>1. CASE ResolveRead(t) \/ ResolveWrite(t) \/ RefundWinner(t)
    BY <1>1, <2>1 DEF TypeOK, Busy, ResolveRead, ResolveWrite, RefundWinner, Goto
  <2>2. CASE CheckSeller(t)
    BY <1>1, <2>2 DEF TypeOK, CheckSeller, Goto, Return
  <2>3. CASE DebitSeller(t) \/ Restore(t)
    BY <1>1, <2>3 DEF TypeOK, DebitSeller, Restore, Goto, Return
  <2> QED
    BY <1>3, <2>1, <2>2, <2>3 DEF ResolveStep
<1> QED
  BY <1>2, <1>3

\* Pending and granted disputes of other auctions stay what they are.
LEMMA ElsewhereSame ==
  ASSUME TypeOK, TypeOK', NEW t \in Threads, NEW a \in Auctions, StepOn(t, a),
         NEW b \in Auctions \ {a}
  PROVE  /\ Pending(b)' <=> Pending(b)
         /\ Granted(b)' <=> Granted(b)
         /\ \A i, s : IsDispute(i, b, s) => IsDispute(i, b, s)'
<1>0. Len(disputes) \in Nat
  BY LenProperties DEF TypeOK
<1>1. \A i, s : IsDispute(i, b, s) <=> IsDispute(i, b, s)'
  <2> SUFFICES ASSUME NEW i, NEW s
               PROVE  IsDispute(i, b, s) <=> IsDispute(i, b, s)'
    OBVIOUS
  <2> DEFINE r == [auction |-> b, status |-> s]
  <2>0. r.auction = b
    OBVIOUS
  <2> HIDE DEF r
  <2>1. ASSUME i \in 1..Len(disputes), disputes[i] = r
        PROVE  i \in 1..Len(disputes') /\ disputes'[i] = r
    BY <1>0, <2>0, <2>1 DEF StepOn
  <2>2. ASSUME i \in 1..Len(disputes'), disputes'[i] = r
        PROVE  i \in 1..Len(disputes) /\ disputes[i] = r
    <3>1. disputes'[i].auction # a
      BY <2>0, <2>2
    <3>2. i \in 1..Len(disputes)
      BY <1>0, <2>2, <3>1 DEF StepOn
    <3>3. disputes[i].auction # a /\ disputes'[i] = disputes[i]
      BY <3>1, <3>2 DEF StepOn
    <3> QED
      BY <2>2, <3>2, <3>3
  <2> QED
    BY <2>1, <2>2 DEF IsDispute, r
<1>2. \A i : i \in 1..Len(disputes) /\ disputes[i].auction = b
             <=> i \in 1..Len(disputes') /\ disputes'[i].auction = b
  BY <1>0 DEF StepOn
<1>3. \A i \in 1..Len(disputes) : disputes[i].auction = b => disputes'[i] = disputes[i]
  BY DEF StepOn
<1>4. Pending(b)' <=> Pending(b)
  BY <1>2, <1>3 DEF Pending
<1>5. Granted(b)' <=> Granted(b)
  <2>1. \A i : /\ IsDispute(i, b, "resolved") => i \in 1..Len(disputes)
               /\ IsDispute(i, b, "resolved")' => i \in 1..Len(disputes')
    BY DEF IsDispute
  <2> QED
    BY <1>1, <2>1 DEF Granted
<1> QED
  BY <1>1, <1>4, <1>5

LEMMA FileStepOn ==
  ASSUME TypeOK, OrderInv, ~Overlap, NEW f \in Filers, FileStep(f), Busy(f)
  PROVE  StepOn(f, doc[f].auction)
<1> DEFINE a == doc[f].auction
<1>0. f \in Threads /\ a \in Auctions /\ doc[f] \in Local /\ Len(disputes) \in Nat
  BY LenProperties DEF TypeOK, Local
<1>1. \A s \in Threads \ {f} :
        pc'[s] = pc[s] /\ doc'[s] = doc[s] /\ (Busy(s) => doc[s].auction # a)
  BY <1>0, BusyStep
<1>2. \A g \in Filers \ {f} : ~Busy(g)
  BY <1>0, Alone
<1> HIDE DEF a
<1>3. CASE FileNumber(f)
  <2>1. doc'[f].auction = a
    BY <1>0, <1>3 DEF FileNumber, TypeOK, Local, a
  <2>2. UNCHANGED <<status, disputes, anomalies, refunds>>
    BY <1>3 DEF FileNumber
  <2> QED
    BY <1>1, <2>1, <2>2 DEF StepOn, a
<1>4. CASE FileWrite(f)
  <2>1. UNCHANGED <<status, anomalies, doc, refunds>>
    BY <1>4 DEF FileWrite
  <2>2. doc[f].id = Len(disputes) + 1 /\ WriteDispute(doc[f])
    BY <1>4 DEF FileWrite, OrderInv, FilerAt
  <2>3. /\ Len(disputes') = Len(disputes) + 1
        /\ \A i \in 1..Len(disputes) : disputes'[i] = disputes[i]
        /\ disputes'[Len(disputes) + 1].auction = a
    <3>1. disputes'[doc[f].id] = [auction |-> doc[f].auction, status |-> doc[f].status]
          /\ Len(disputes') = Len(disputes) + 1
          /\ \A i \in 1..Len(disputes) : disputes'[i] = disputes[i]
      BY <1>0, <2>2, AppendDispute
    <3>2. disputes'[doc[f].id].auction = a
      BY <3>1 DEF a
    <3> QED
      BY <2>2, <3>1, <3>2
  <2> QED
    BY <1>1, <1>2, <2>1, <2>3 DEF StepOn, a
<1>5. CASE FileMark(f)
  <2>1. pc'[f] = "idle" /\ UNCHANGED <<disputes, anomalies, refunds>>
    BY <1>0, <1>5 DEF FileMark, Return, Goto, TypeOK
  <2>2. \A b \in Auctions \ {a} : status'[b] = status[b]
    BY <1>5 DEF FileMark, TypeOK, a
  <2> QED
    BY <1>1, <2>1, <2>2 DEF StepOn, a
<1> QED
  BY <1>3, <1>4, <1>5 DEF FileStep, FileRead, Busy

LEMMA ResolveStepOn ==
  ASSUME TypeOK, OrderInv, ~Overlap, NEW m \in Moderators, ResolveStep(m), Busy(m)
  PROVE  StepOn(m, doc[m].auction)
<1> DEFINE a == doc[m].auction
<1>0. m \in Threads /\ a \in Auctions /\ doc[m] \in Local /\ Len(disputes) \in Nat
  BY LenProperties DEF TypeOK, Local
<1>1. \A s \in Threads \ {m} :
        pc'[s] = pc[s] /\ doc'[s] = doc[s] /\ (Busy(s) => doc[s].auction # a)
  BY BusyStep
<1> HIDE DEF a
<1>2. CASE ResolveWrite(m)
  <2>1. UNCHANGED <<status, anomalies, doc, refunds>>
    BY <1>2 DEF ResolveWrite
  <2>2. IsDispute(doc[m].id, a, "open") /\ WriteDispute(doc[m])
    BY <1>2 DEF ResolveWrite, OrderInv, ModeratorAt, a
  <2>3. doc[m].id \in 1..Len(disputes) /\ disputes[doc[m].id].auction = a
    BY <2>2 DEF IsDispute
  <2>4. /\ Len(disputes') = Len(disputes)
        /\ \A i \in 1..Len(disputes) :
             disputes'[i] = IF i = doc[m].id
                            THEN [auction |-> a, status |-> doc[m].status]
                            ELSE disputes[i]
    BY <1>0, <2>2, <2>3, ReplaceDispute DEF a
  <2>5. \A i \in 1..Len(disputes) :
          /\ disputes'[i].auction = disputes[i].auction
          /\ disputes[i].auction # a => disputes'[i] = disputes[i]
    BY <2>3, <2>4
  <2> QED
    BY <1>1, <2>1, <2>4, <2>5 DEF StepOn, a
<1>3. CASE RefundWinner(m)
  <2>1. UNCHANGED <<status, disputes, anomalies, doc>>
    BY <1>3 DEF RefundWinner
  <2>2. \A b \in Auctions \ {a} : refunds'[b] = refunds[b]
    BY <1>3 DEF RefundWinner, TypeOK, a
  <2> QED
    BY <1>1, <2>1, <2>2 DEF StepOn, a
<1>4. CASE CheckSeller(m)
  <2>1. UNCHANGED <<status, disputes, refunds>>
    BY <1>4 DEF CheckSeller
  <2>2. \A b \in Auctions \ {a} : b \in anomalies' <=> b \in anomalies
    BY <1>4 DEF CheckSeller, a
  <2>3. doc' = doc \/ pc'[m] = "idle"
    BY <1>0, <1>4 DEF CheckSeller, Return, Goto, TypeOK
  <2> QED
    BY <1>1, <2>1, <2>2, <2>3 DEF StepOn, a
<1>5. CASE DebitSeller(m)
  <2>1. pc'[m] = "idle" /\ UNCHANGED <<status, disputes, anomalies, refunds>>
    BY <1>0, <1>5 DEF DebitSeller, Return, Goto, TypeOK
  <2> QED
    BY <1>1, <2>1 DEF StepOn, a
<1>6. CASE Restore(m)
  <2>1. pc'[m] = "idle" /\ UNCHANGED <<disputes, anomalies, refunds>>
    BY <1>0, <1>6 DEF Restore, Return, Goto, TypeOK
  <2>2. \A b \in Auctions \ {a} : status'[b] = status[b]
    BY <1>6 DEF Restore, TypeOK, a
  <2> QED
    BY <1>1, <2>1, <2>2 DEF StepOn, a
<1> QED
  BY <1>2, <1>3, <1>4, <1>5, <1>6 DEF ResolveStep, ResolveRead, Busy

-----------------------------------------------------------------------------
(* Disputes and the status of their auction                                *)

\* What a step has to show for its own thread and auction; the others need
\* nothing.
LEMMA OrderFrame ==
  ASSUME TypeOK, TypeOK', OrderInv, NEW t \in Threads, NEW a \in Auctions,
         StepOn(t, a), OnePending',
         t \in Filers /\ pc'[t] # "idle" => FilerAt(t, a)',
         t \in Moderators /\ pc'[t] # "idle" => ModeratorAt(t, a)',
         pc'[t] = "idle" => StatusRight(a)'
  PROVE  OrderInv'
<1>1. \A b \in Auctions \ {a} :
        /\ Pending(b)' <=> Pending(b)
        /\ \A i, s : IsDispute(i, b, s) => IsDispute(i, b, s)'
        /\ status'[b] = status[b]
  BY ElsewhereSame DEF StepOn
<1>2. ASSUME NEW f \in Filers, pc'[f] # "idle"
      PROVE  FilerAt(f, doc[f].auction)'
  <2>1. CASE f = t
    <3>1. doc'[f].auction = a
      BY <1>2, <2>1 DEF StepOn
    <3>2. FilerAt(t, a)'
      BY <1>2, <2>1
    <3> QED
      BY <2>1, <3>1, <3>2 DEF FilerAt
  <2>2. CASE f # t
    <3>1. /\ pc'[f] = pc[f] /\ doc'[f] = doc[f] /\ Busy(f) /\ doc[f].auction # a
          /\ Len(disputes') = Len(disputes)
      BY <1>2, <2>2 DEF StepOn, Busy
    <3> PICK b \in Auctions \ {a} : b = doc[f].auction
      BY <3>1 DEF TypeOK, Local
    <3>2. FilerAt(f, b)
      BY <3>1 DEF OrderInv
    <3>3. FilerAt(f, b)'
      BY <1>1, <3>1, <3>2 DEF FilerAt
    <3> QED
      BY <3>1, <3>3 DEF FilerAt
  <2> QED
    BY <2>1, <2>2
<1>3. ASSUME NEW m \in Moderators, pc'[m] # "idle"
      PROVE  ModeratorAt(m, doc[m].auction)'
  <2>1. CASE m = t
    <3>1. doc'[m].auction = a
      BY <1>3, <2>1 DEF StepOn
    <3>2. ModeratorAt(t, a)'
      BY <1>3, <2>1
    <3> QED
      BY <2>1, <3>1, <3>2 DEF ModeratorAt
  <2>2. CASE m # t
    <3>1. pc'[m] = pc[m] /\ doc'[m] = doc[m] /\ Busy(m) /\ doc[m].auction # a
      BY <1>3, <2>2 DEF StepOn, Busy
    <3> PICK b \in Auctions \ {a} : b = doc[m].auction
      BY <3>1 DEF TypeOK, Local
    <3>2. ModeratorAt(m, b)
      BY <3>1 DEF OrderInv
    <3>3. ModeratorAt(m, b)'
      BY <1>1, <3>1, <3>2 DEF ModeratorAt
    <3> QED
      BY <3>1, <3>3 DEF ModeratorAt
  <2> QED
    BY <2>1, <2>2
<1>4. ASSUME NEW b \in Auctions, Quiet(b)' PROVE StatusRight(b)'
  <2>1. CASE b = a
    <3>1. pc'[t] = "idle"
      BY <1>4, <2>1 DEF StepOn, Quiet, Busy
    <3> QED
      BY <2>1, <3>1
  <2>2. CASE b # a
    <3>1. Quiet(b)
      BY <1>4, <2>2 DEF StepOn, Quiet, Busy
    <3>2. StatusRight(b)
      BY <3>1 DEF OrderInv
    <3> QED
      BY <1>1, <2>2, <3>2 DEF StatusRight
  <2> QED
    BY <2>1, <2>2
<1> QED
  BY <1>2, <1>3, <1>4 DEF OrderInv, Busy

LEMMA PendingDispute ==
  ASSUME NEW i, NEW a, NEW s \in {"open", "resolved"}, IsDispute(i, a, s)
  PROVE  Pending(a)
<1>1. i \in 1..Len(disputes) /\ disputes[i].auction = a /\ disputes[i].status = s
  BY DEF IsDispute
<1> QED
  BY <1>1 DEF Pending

LEMMA OrderFileRead ==
  ASSUME TypeOK, TypeOK', OrderInv, ~Overlap', NEW f \in Filers, FileRead(f)
  PROVE  OrderInv'
<1> PICK a \in Auctions :
      status[a] = AuctionClosed /\ doc' = [doc EXCEPT ![f] = [NoDoc EXCEPT !.auction = a]]
  BY DEF FileRead
<1> DEFINE d == [NoDoc EXCEPT !.auction = a]
<1>1. d \in Local /\ d.auction = a /\ d.status = "open"
  BY NoDocType DEF Local, NoDoc
<1>2. f \in Threads /\ f \notin Moderators
  OBVIOUS
<1>3. /\ pc[f] = "idle" /\ Goto(f, "number")
      /\ UNCHANGED <<status, disputes, wallet, anomalies, refunds>>
  BY DEF FileRead
<1>4. doc' = [doc EXCEPT ![f] = d]
  OBVIOUS
<1> HIDE DEF d
<1>5. StepOn(f, a) /\ pc'[f] = "number" /\ doc'[f] = d /\ Quiet(a)
  BY <1>1, <1>2, <1>3, <1>4, ReadStep
<1>6. ~Pending(a)'
  <2>1. ~Pending(a)
    BY <1>5 DEF OrderInv, StatusRight, AuctionClosed, AuctionDisputed
  <2> QED
    BY <1>3, <2>1 DEF Pending
<1>7. FilerAt(f, a)'
  BY <1>1, <1>3, <1>5, <1>6 DEF FilerAt
<1>8. OnePending'
  BY <1>3 DEF OrderInv, OnePending, IsPending
<1> QED
  BY <1>2, <1>5, <1>7, <1>8, OrderFrame

LEMMA OrderFile ==
  ASSUME TypeOK, TypeOK', OrderInv, ~Overlap, NEW f \in Filers, FileStep(f), Busy(f)
  PROVE  OrderInv'
<1> PICK a \in Auctions : a = doc[f].auction
  BY DEF TypeOK, Local
<1>0. /\ f \in Threads /\ f \notin Moderators /\ Len(disputes) \in Nat
      /\ doc[f] \in Local
  BY LenProperties DEF TypeOK
<1>1. StepOn(f, a)
  BY FileStepOn
<1>2. FilerAt(f, a)
  BY DEF OrderInv
<1>3. CASE FileNumber(f)
  <2>1. /\ pc[f] = "number" /\ pc'[f] = "write"
        /\ doc'[f] = [doc[f] EXCEPT !.id = Len(disputes) + 1]
        /\ UNCHANGED <<status, disputes>>
    BY <1>0, <1>3 DEF FileNumber, Goto, TypeOK
  <2>2. doc'[f].id = Len(disputes') + 1 /\ doc'[f].status = doc[f].status
    BY <1>0, <2>1 DEF Local
  <2>3. ~Pending(a)'
    BY <1>2, <2>1 DEF FilerAt, Pending
  <2>4. FilerAt(f, a)'
    BY <1>2, <2>1, <2>2, <2>3 DEF FilerAt
  <2>5. OnePending'
    BY <2>1 DEF OrderInv, OnePending, IsPending
  <2> QED
    BY <1>0, <1>1, <2>1, <2>4, <2>5, OrderFrame
<1>4. CASE FileWrite(f)
  <2>1. /\ pc[f] = "write" /\ pc'[f] = "mark" /\ WriteDispute(doc[f])
        /\ UNCHANGED <<status, doc>>
    BY <1>0, <1>4 DEF FileWrite, Goto, TypeOK
  <2>2. /\ doc[f].id = Len(disputes) + 1 /\ doc[f].status = "open"
        /\ ~Pending(a) /\ status[a] = AuctionClosed
    BY <1>2, <2>1 DEF FilerAt
  <2>3. /\ Len(disputes') = Len(disputes) + 1
        /\ \A i \in 1..Len(disputes) : disputes'[i] = disputes[i]
        /\ disputes'[Len(disputes) + 1] = [auction |-> a, status |-> "open"]
    BY <1>0, <2>1, <2>2, AppendDispute
  <2>4. IsDispute(doc[f].id, a, "open")'
    BY <1>0, <2>1, <2>2, <2>3 DEF IsDispute
  <2>5. FilerAt(f, a)'
    BY <2>1, <2>2, <2>4 DEF FilerAt
  <2>6. OnePending'
    <3>1. ASSUME NEW i \in 1..Len(disputes), IsPending(i)'
          PROVE  IsPending(i) /\ disputes[i].auction # a
                 /\ disputes'[i].auction = disputes[i].auction
      BY <2>2, <2>3, <3>1 DEF IsPending, Pending
    <3>2. \A i \in 1..Len(disputes') : i \in 1..Len(disputes) \/ i = Len(disputes) + 1
      BY <1>0, <2>3
    <3>3. disputes'[Len(disputes) + 1].auction = a
      BY <2>3
    <3> SUFFICES ASSUME NEW i \in 1..Len(disputes'), NEW j \in 1..Len(disputes'),
                        IsPending(i)', IsPending(j)',
                        disputes'[i].auction = disputes'[j].auction
                 PROVE  i = j
      BY DEF OnePending
    <3>4. CASE i \in 1..Len(disputes) /\ j \in 1..Len(disputes)
      BY <3>1, <3>4 DEF OrderInv, OnePending
    <3>5. CASE i = Len(disputes) + 1 \/ j = Len(disputes) + 1
      BY <3>1, <3>2, <3>3, <3>5
    <3> QED
      BY <3>2, <3>4, <3>5
  <2> QED
    BY <1>0, <1>1, <2>1, <2>5, <2>6, OrderFrame
<1>5. CASE FileMark(f)
  <2>1. /\ pc[f] = "mark" /\ pc'[f] = "idle" /\ status'[a] = AuctionDisputed
        /\ UNCHANGED disputes
    BY <1>0, <1>5 DEF FileMark, Return, Goto, TypeOK
  <2>2. IsDispute(doc[f].id, a, "open")
    BY <1>2, <2>1 DEF FilerAt
  <2>3. StatusRight(a)'
    <3>1. Pending(a)
      BY <2>2, PendingDispute
    <3> QED
      BY <2>1, <3>1 DEF StatusRight, Pending
  <2>4. OnePending'
    BY <2>1 DEF OrderInv, OnePending, IsPending
  <2> QED
    BY <1>0, <1>1, <2>1, <2>3, <2>4, OrderFrame
<1> QED
  BY <1>3, <1>4, <1>5 DEF FileStep, FileRead, Busy

LEMMA OrderResolveRead ==
  ASSUME TypeOK, TypeOK', OrderInv, ~Overlap', NEW m \in Moderators, ResolveRead(m)
  PROVE  OrderInv'
<1> PICK i \in 1..Len(disputes), verdict \in {"resolved", "rejected"} :
      /\ disputes[i].status = "open"
      /\ doc' = [doc EXCEPT ![m] =
           [id |-> i, auction |-> disputes[i].auction, status |-> verdict]]
  BY DEF ResolveRead
<1> DEFINE d == [id |-> i, auction |-> disputes[i].auction, status |-> verdict]
<1>0. disputes[i] \in DisputeRecord
  BY ElementOfSeq DEF TypeOK
<1> PICK a \in Auctions : a = disputes[i].auction
  BY <1>0 DEF DisputeRecord
<1>1. /\ d \in Local /\ d.auction = a /\ d.id = i
      /\ d.status \in {"resolved", "rejected"}
  BY <1>0, LenProperties DEF Local, DisputeStatus, TypeOK
<1>2. m \in Threads /\ m \notin Filers
  OBVIOUS
<1>3. /\ pc[m] = "idle" /\ Goto(m, "decide")
      /\ UNCHANGED <<status, disputes, wallet, anomalies, refunds>>
  BY DEF ResolveRead
<1>4. doc' = [doc EXCEPT ![m] = d]
  OBVIOUS
<1> HIDE DEF d
<1>5. StepOn(m, a) /\ pc'[m] = "decide" /\ doc'[m] = d /\ Quiet(a)
  <2>1. /\ StepOn(m, d.auction) /\ pc'[m] = "decide" /\ doc'[m] = d
        /\ Quiet(d.auction)
    BY <1>1, <1>2, <1>3, <1>4, ReadStep
  <2> QED
    BY <1>1, <2>1
<1>6. disputes[i] = [auction |-> a, status |-> "open"]
  BY <1>0 DEF DisputeRecord
<1>7. status[a] = AuctionDisputed
  <2>1. Pending(a)
    BY <1>6 DEF Pending
  <2> QED
    BY <1>5, <2>1 DEF OrderInv, StatusRight
<1>8. ModeratorAt(m, a)'
  <2>1. IsDispute(doc[m].id, a, "open")'
    BY <1>1, <1>3, <1>5, <1>6 DEF IsDispute
  <2> QED
    BY <1>1, <1>3, <1>5, <1>7, <2>1 DEF ModeratorAt
<1>9. OnePending'
  BY <1>3 DEF OrderInv, OnePending, IsPending
<1> QED
  BY <1>2, <1>5, <1>8, <1>9, OrderFrame

\* What ResolveWrite does to the disputes of its auction.
LEMMA VerdictWritten ==
  ASSUME TypeOK, OrderInv, NEW m \in Moderators, ResolveWrite(m),
         NEW a \in Auctions, a = doc[m].auction
  PROVE  /\ IsDispute(doc[m].id, a, "open")
         /\ doc[m].status \in {"resolved", "rejected"}
         /\ Len(disputes') = Len(disputes)
         /\ \A i \in 1..Len(disputes) :
              disputes'[i] = IF i = doc[m].id
                             THEN [auction |-> a, status |-> doc[m].status]
                             ELSE disputes[i]
         /\ \A i \in 1..Len(disputes) \ {doc[m].id} :
              disputes[i].auction = a => ~IsPending(i)
<1>0. m \in Threads
  OBVIOUS
<1>1. IsDispute(doc[m].id, a, "open") /\ doc[m].status \in {"resolved", "rejected"}
  BY DEF ResolveWrite, OrderInv, ModeratorAt, Busy
<1>2. doc[m].id \in 1..Len(disputes) /\ WriteDispute(doc[m])
  BY <1>1 DEF IsDispute, ResolveWrite
<1>3. disputes[doc[m].id].auction = a /\ disputes[doc[m].id].status = "open"
  BY <1>1 DEF IsDispute
<1>4. \A i \in 1..Len(disputes) \ {doc[m].id} :
        disputes[i].auction = a => ~IsPending(i)
  BY <1>2, <1>3 DEF OrderInv, OnePending, IsPending
<1> QED
  BY <1>0, <1>1, <1>2, <1>4, ReplaceDispute

LEMMA OrderResolve ==
  ASSUME TypeOK, TypeOK', OrderInv, ~Overlap,
         NEW m \in Moderators, ResolveStep(m), Busy(m)
  PROVE  OrderInv'
<1> PICK a \in Auctions : a = doc[m].auction
  BY DEF TypeOK, Local
<1>0. /\ m \in Threads /\ m \notin Filers /\ Len(disputes) \in Nat
      /\ doc[m] \in Local
  BY LenProperties DEF TypeOK
<1>1. StepOn(m, a)
  BY ResolveStepOn
<1>2. ModeratorAt(m, a)
  BY DEF OrderInv
<1>3. CASE ResolveWrite(m)
  <2>1. /\ pc[m] = "decide" /\ UNCHANGED <<status, doc>>
        /\ pc'[m] = IF doc[m].status = "resolved" THEN "credit" ELSE "restore"
    BY <1>0, <1>3 DEF ResolveWrite, Goto, TypeOK
  <2>2. /\ IsDispute(doc[m].id, a, "open")
        /\ doc[m].status \in {"resolved", "rejected"}
        /\ Len(disputes') = Len(disputes)
        /\ \A i \in 1..Len(disputes) :
              disputes'[i] = IF i = doc[m].id
                             THEN [auction |-> a, status |-> doc[m].status]
                             ELSE disputes[i]
        /\ \A i \in 1..Len(disputes) \ {doc[m].id} :
              disputes[i].auction = a => ~IsPending(i)
    BY <1>3, VerdictWritten
  <2>3. /\ doc[m].id \in 1..Len(disputes)
        /\ disputes[doc[m].id].auction = a /\ disputes[doc[m].id].status = "open"
    BY <2>2 DEF IsDispute
  <2>4. IsDispute(doc[m].id, a, doc[m].status)'
    BY <2>1, <2>2, <2>3 DEF IsDispute
  <2>5. doc[m].status = "rejected" => ~Pending(a)'
    <3>1. ASSUME doc[m].status = "rejected", NEW i \in 1..Len(disputes'),
                 disputes'[i].auction = a, IsPending(i)'
          PROVE  FALSE
      <4>1. CASE i = doc[m].id
        BY <2>2, <3>1, <4>1 DEF IsPending
      <4>2. CASE i # doc[m].id
        BY <2>2, <3>1, <4>2 DEF IsPending
      <4> QED
        BY <4>1, <4>2
    <3> QED
      BY <3>1 DEF Pending, IsPending
  <2>6. ModeratorAt(m, a)'
    <3>1. status'[a] = AuctionDisputed
      BY <1>2, <2>1 DEF ModeratorAt
    <3>2. CASE doc[m].status = "resolved"
      BY <2>1, <2>4, <3>1, <3>2 DEF ModeratorAt
    <3>3. CASE doc[m].status = "rejected"
      BY <2>1, <2>4, <2>5, <3>1, <3>3 DEF ModeratorAt
    <3> QED
      BY <2>2, <3>2, <3>3
  <2>7. OnePending'
    <3>1. ASSUME NEW i \in 1..Len(disputes), IsPending(i)'
          PROVE  IsPending(i) /\ disputes'[i].auction = disputes[i].auction
      <4>1. CASE i = doc[m].id
        BY <2>2, <2>3, <4>1 DEF IsPending
      <4>2. CASE i # doc[m].id
        BY <2>2, <3>1, <4>2 DEF IsPending
      <4> QED
        BY <4>1, <4>2
    <3> QED
      BY <2>2, <3>1 DEF OrderInv, OnePending
  <2>8. pc'[m] # "idle"
    BY <2>1
  <2> QED
    BY <1>0, <1>1, <2>6, <2>7, <2>8, OrderFrame
<1>4. CASE ~ResolveWrite(m)
  <2>1. UNCHANGED disputes
    BY <1>4 DEF ResolveStep, ResolveRead, Busy, RefundWinner, CheckSeller,
                DebitSeller, Restore
  <2>2. OnePending'
    BY <2>1 DEF OrderInv, OnePending, IsPending
  <2>3. /\ Pending(a)' <=> Pending(a)
        /\ \A i, s : IsDispute(i, a, s)' <=> IsDispute(i, a, s)
    BY <2>1 DEF Pending, IsDispute
  <2>4. CASE RefundWinner(m)
    <3>1. pc[m] = "credit" /\ pc'[m] = "check" /\ UNCHANGED <<status, doc>>
      BY <1>0, <2>4 DEF RefundWinner, Goto, TypeOK
    <3>2. ModeratorAt(m, a)'
      BY <1>2, <2>3, <3>1 DEF ModeratorAt
    <3> QED
      BY <1>0, <1>1, <2>2, <3>1, <3>2, OrderFrame
  <2>5. CASE CheckSeller(m)
    <3>1. pc[m] = "check" /\ UNCHANGED status
      BY <2>5 DEF CheckSeller
    <3>2. \/ pc'[m] = "debit" /\ UNCHANGED doc
          \/ pc'[m] = "idle"
      BY <1>0, <2>5 DEF CheckSeller, Return, Goto, TypeOK
    <3>3. status[a] = AuctionDisputed /\ IsDispute(doc[m].id, a, "resolved")
      BY <1>2, <3>1 DEF ModeratorAt
    <3>4. pc'[m] # "idle" => ModeratorAt(m, a)'
      BY <2>3, <3>1, <3>2, <3>3 DEF ModeratorAt
    <3>5. StatusRight(a)'
      BY <2>3, <3>1, <3>3, PendingDispute DEF StatusRight
    <3> QED
      BY <1>0, <1>1, <2>2, <3>4, <3>5, OrderFrame
  <2>6. CASE DebitSeller(m)
    <3>1. pc[m] = "debit" /\ pc'[m] = "idle" /\ UNCHANGED status
      BY <1>0, <2>6 DEF DebitSeller, Return, Goto, TypeOK
    <3>2. status[a] = AuctionDisputed /\ IsDispute(doc[m].id, a, "resolved")
      BY <1>2, <3>1 DEF ModeratorAt
    <3>3. StatusRight(a)'
      BY <2>3, <3>1, <3>2, PendingDispute DEF StatusRight
    <3> QED
      BY <1>0, <1>1, <2>2, <3>1, <3>3, OrderFrame
  <2>7. CASE Restore(m)
    <3>1. pc[m] = "restore" /\ pc'[m] = "idle" /\ status'[a] = AuctionClosed
      BY <1>0, <2>7 DEF Restore, Return, Goto, TypeOK
    <3>2. ~Pending(a)
      BY <1>2, <3>1 DEF ModeratorAt
    <3>3. StatusRight(a)'
      BY <2>3, <3>1, <3>2 DEF StatusRight, AuctionClosed, AuctionDisputed
    <3> QED
      BY <1>0, <1>1, <2>2, <3>1, <3>3, OrderFrame
  <2> QED
    BY <1>4, <2>4, <2>5, <2>6, <2>7 DEF ResolveStep, ResolveRead, Busy
<1> QED
  BY <1>3, <1>4

LEMMA NextOrder ==
  ASSUME TypeOK, TypeOK', OrderInv, ~Overlap, ~Overlap', Next
  PROVE  OrderInv'
<1>1. ASSUME NEW f \in Filers, FileStep(f) PROVE OrderInv'
  BY <1>1, OrderFileRead, OrderFile DEF FileStep, FileNumber, FileWrite, FileMark, Busy
<1>2. ASSUME NEW m \in Moderators, ResolveStep(m) PROVE OrderInv'
  BY <1>2, OrderResolveRead, OrderResolve
     DEF ResolveStep, ResolveWrite, RefundWinner, CheckSeller, DebitSeller, Restore, Busy
<1> QED
  BY <1>1, <1>2 DEF Next

-----------------------------------------------------------------------------
(* Refunds                                                                 *)

\* Where the moderators are with the other auctions does not change; with
\* this one there is nobody but t.
LEMMA AtElsewhere ==
  ASSUME NEW t \in Threads, NEW a \in Auctions, StepOn(t, a),
         NEW b \in Auctions \ {a}, NEW labels, "idle" \notin labels
  PROVE  At(b, labels)' <=> At(b, labels)
<1>1. \A m \in Moderators \ {t} : pc'[m] = pc[m] /\ doc'[m] = doc[m]
  BY DEF StepOn
<1>2. /\ pc[t] \in labels => doc[t].auction # b
      /\ pc'[t] \in labels => doc'[t].auction # b
  BY DEF StepOn, Busy
<1> QED
  BY <1>1, <1>2 DEF At

LEMMA AtSubject ==
  ASSUME NEW t \in Threads, NEW a \in Auctions, StepOn(t, a),
         NEW labels, "idle" \notin labels
  PROVE  /\ At(a, labels) <=> t \in Moderators /\ pc[t] \in labels
         /\ At(a, labels)' <=> t \in Moderators /\ pc'[t] \in labels
<1>1. \A m \in Moderators \ {t} :
        (pc[m] \in labels => doc[m].auction # a)
        /\ (pc'[m] \in labels => doc'[m].auction # a)
  BY DEF StepOn, Busy
<1>2. /\ pc[t] \in labels => doc[t].auction = a
      /\ pc'[t] \in labels => doc'[t].auction = a
  BY DEF StepOn, Busy
<1> QED
  BY <1>1, <1>2 DEF At

LEMMA RefundFrame ==
  ASSUME TypeOK, TypeOK', RefundInv, NEW t \in Threads, NEW a \in Auctions,
         StepOn(t, a), RefundRight(a)'
  PROVE  RefundInv'
<1> SUFFICES ASSUME NEW b \in Auctions \ {a} PROVE RefundRight(b)'
  BY DEF RefundInv
<1>1. RefundRight(b)
  BY DEF RefundInv
<1>2. /\ Granted(b)' <=> Granted(b)
      /\ At(b, {"credit"})' <=> At(b, {"credit"})
      /\ At(b, {"credit", "check", "debit"})' <=> At(b, {"credit", "check", "debit"})
  BY ElsewhereSame, AtElsewhere
<1>3. refunds'[b] = refunds[b] /\ (b \in anomalies' <=> b \in anomalies)
  BY DEF StepOn
<1> QED
  BY <1>1, <1>2, <1>3 DEF RefundRight

LEMMA RefundFile ==
  ASSUME TypeOK, TypeOK', OrderInv, RefundInv, ~Overlap, ~Overlap',
         NEW f \in Filers, FileStep(f)
  PROVE  RefundInv'
<1>0. f \in Threads /\ f \notin Moderators /\ Len(disputes) \in Nat
  BY LenProperties DEF TypeOK
<1>1. PICK a \in Auctions : StepOn(f, a) /\ (FileWrite(f) => a = doc[f].auction)
  <2>1. CASE FileRead(f)
    <3> PICK a \in Auctions : doc' = [doc EXCEPT ![f] = [NoDoc EXCEPT !.auction = a]]
      BY <2>1 DEF FileRead
    <3> DEFINE d == [NoDoc EXCEPT !.auction = a]
    <3>1. d \in Local /\ d.auction = a
      BY NoDocType DEF Local
    <3>2. /\ pc[f] = "idle" /\ Goto(f, "number") /\ doc' = [doc EXCEPT ![f] = d]
          /\ UNCHANGED <<status, disputes, wallet, anomalies, refunds>>
      BY <2>1 DEF FileRead
    <3> HIDE DEF d
    <3>3. StepOn(f, d.auction)
      BY <1>0, <3>1, <3>2, ReadStep
    <3> QED
      BY <2>1, <3>1, <3>2, <3>3 DEF FileWrite
  <2>2. CASE ~FileRead(f)
    <3>1. doc[f].auction \in Auctions
      BY DEF TypeOK, Local
    <3>2. Busy(f)
      BY <2>2 DEF FileStep, FileNumber, FileWrite, FileMark, Busy
    <3> QED
      BY <3>1, <3>2, FileStepOn
  <2> QED
    BY <2>1, <2>2
<1>2. UNCHANGED <<refunds, anomalies>>
  BY DEF FileStep, FileRead, FileNumber, FileWrite, FileMark
<1>3. Granted(a)' <=> Granted(a)
  <2>1. CASE FileWrite(f)
    <3>1. /\ doc[f].id = Len(disputes) + 1 /\ doc[f].status = "open"
          /\ WriteDispute(doc[f])
      BY <2>1 DEF FileWrite, OrderInv, FilerAt, Busy
    <3>2. /\ Len(disputes') = Len(disputes) + 1
          /\ \A i \in 1..Len(disputes) : disputes'[i] = disputes[i]
          /\ disputes'[Len(disputes) + 1].status = "open"
      <4>1. /\ Len(disputes') = Len(disputes) + 1
            /\ \A i \in 1..Len(disputes) : disputes'[i] = disputes[i]
            /\ disputes'[doc[f].id] =
                 [auction |-> doc[f].auction, status |-> doc[f].status]
        BY <1>0, <3>1, AppendDispute
      <4> QED
        BY <3>1, <4>1
    <3>3. \A i : IsDispute(i, a, "resolved") <=> IsDispute(i, a, "resolved")'
      <4> SUFFICES ASSUME NEW i
                   PROVE  IsDispute(i, a, "resolved") <=> IsDispute(i, a, "resolved")'
        OBVIOUS
      <4>1. CASE i \in 1..Len(disputes)
        BY <1>0, <3>2, <4>1 DEF IsDispute
      <4>2. CASE i = Len(disputes) + 1
        BY <1>0, <3>2, <4>2 DEF IsDispute
      <4>3. CASE i \notin 1..(Len(disputes) + 1)
        BY <1>0, <3>2, <4>3 DEF IsDispute
      <4> QED
        BY <1>0, <4>1, <4>2, <4>3
    <3>4. \A i : /\ IsDispute(i, a, "resolved") => i \in 1..Len(disputes)
                 /\ IsDispute(i, a, "resolved")' => i \in 1..Len(disputes')
      BY DEF IsDispute
    <3> QED
      BY <3>3, <3>4 DEF Granted
  <2>2. CASE ~FileWrite(f)
    <3>1. UNCHANGED disputes
      BY <2>2 DEF FileStep, FileRead, FileNumber, FileMark
    <3> QED
      BY <3>1 DEF Granted, IsDispute
  <2> QED
    BY <2>1, <2>2
<1>4. \A labels : "idle" \notin labels => ~At(a, labels) /\ ~At(a, labels)'
  BY <1>0, <1>1, AtSubject
<1>5. RefundRight(a)'
  BY <1>2, <1>3, <1>4 DEF RefundInv, RefundRight
<1> QED
  BY <1>0, <1>1, <1>5, RefundFrame

LEMMA RefundResolveRead ==
  ASSUME TypeOK, TypeOK', RefundInv, ~Overlap', NEW m \in Moderators, ResolveRead(m)
  PROVE  \E a \in Auctions : StepOn(m, a) /\ RefundRight(a)'
<1> PICK i \in 1..Len(disputes), verdict \in {"resolved", "rejected"} :
      doc' = [doc EXCEPT ![m] =
        [id |-> i, auction |-> disputes[i].auction, status |-> verdict]]
  BY DEF ResolveRead
<1> DEFINE d == [id |-> i, auction |-> disputes[i].auction, status |-> verdict]
<1>1. disputes[i] \in DisputeRecord
  BY ElementOfSeq DEF TypeOK
<1>2. d \in Local /\ d.auction \in Auctions
  BY <1>1, LenProperties DEF Local, DisputeStatus, DisputeRecord, TypeOK
<1>3. /\ pc[m] = "idle" /\ Goto(m, "decide") /\ m \in Threads
      /\ UNCHANGED <<status, disputes, wallet, anomalies, refunds>>
  BY DEF ResolveRead
<1>4. doc' = [doc EXCEPT ![m] = d]
  OBVIOUS
<1> HIDE DEF d
<1> PICK a \in Auctions : a = d.auction
  BY <1>2
<1>5. StepOn(m, a) /\ pc'[m] = "decide"
  <2>1. StepOn(m, d.auction) /\ pc'[m] = "decide"
    BY <1>2, <1>3, <1>4, ReadStep
  <2> QED
    BY <2>1
<1>6. \A labels : "idle" \notin labels =>
        /\ At(a, labels) <=> pc[m] \in labels
        /\ At(a, labels)' <=> pc'[m] \in labels
  BY <1>3, <1>5, AtSubject
<1>7. /\ At(a, {"credit"})' <=> At(a, {"credit"})
      /\ At(a, {"credit", "check", "debit"})' <=> At(a, {"credit", "check", "debit"})
  BY <1>3, <1>5, <1>6
<1>8. Granted(a)' <=> Granted(a)
  BY <1>3 DEF Granted, IsDispute
<1>9. RefundRight(a)'
  <2>1. RefundRight(a)
    BY DEF RefundInv
  <2> QED
    BY <1>3, <1>7, <1>8, <2>1 DEF RefundRight
<1> QED
  BY <1>5, <1>9

LEMMA RefundResolve ==
  ASSUME TypeOK, TypeOK', OrderInv, RefundInv, ~Overlap,
         NEW m \in Moderators, ResolveStep(m), Busy(m),
         NEW a \in Auctions, a = doc[m].auction
  PROVE  RefundRight(a)'
<1>0. m \in Threads /\ Len(disputes) \in Nat
  BY LenProperties DEF TypeOK
<1>1. StepOn(m, a)
  BY ResolveStepOn
<1>2. /\ At(a, {"credit"}) <=> pc[m] = "credit"
      /\ At(a, {"credit"})' <=> pc'[m] = "credit"
      /\ At(a, {"credit", "check", "debit"}) <=> pc[m] \in {"credit", "check", "debit"}
      /\ At(a, {"credit", "check", "debit"})' <=> pc'[m] \in {"credit", "check", "debit"}
  <2>1. \A labels : "idle" \notin labels =>
          /\ At(a, labels) <=> pc[m] \in labels
          /\ At(a, labels)' <=> pc'[m] \in labels
    BY <1>0, <1>1, AtSubject
  <2> QED
    BY <2>1
<1>3. RefundRight(a)
  BY DEF RefundInv
<1>4. ModeratorAt(m, a)
  BY DEF OrderInv
<1>5. CASE ResolveWrite(m)
  <2>1. /\ pc'[m] = IF doc[m].status = "resolved" THEN "credit" ELSE "restore"
        /\ UNCHANGED <<anomalies, refunds>>
    BY <1>0, <1>5 DEF ResolveWrite, Goto, TypeOK
  <2>2. /\ IsDispute(doc[m].id, a, "open")
        /\ doc[m].status \in {"resolved", "rejected"}
        /\ Len(disputes') = Len(disputes)
        /\ \A i \in 1..Len(disputes) :
              disputes'[i] = IF i = doc[m].id
                             THEN [auction |-> a, status |-> doc[m].status]
                             ELSE disputes[i]
        /\ \A i \in 1..Len(disputes) \ {doc[m].id} :
              disputes[i].auction = a => ~IsPending(i)
    BY <1>5, VerdictWritten
  <2>3. ~Granted(a)
    <3>1. ASSUME NEW i \in 1..Len(disputes), IsDispute(i, a, "resolved") PROVE FALSE
      <4>1. disputes[i].auction = a /\ disputes[i].status = "resolved"
        BY <3>1 DEF IsDispute
      <4>2. i # doc[m].id
        BY <2>2, <4>1 DEF IsDispute
      <4> QED
        BY <2>2, <4>1, <4>2 DEF IsPending
    <3> QED
      BY <3>1 DEF Granted
  <2>4. refunds[a] = 0 /\ a \notin anomalies
    BY <1>3, <2>3 DEF RefundRight
  <2>5. CASE doc[m].status = "resolved"
    <3>1. At(a, {"credit"})'
      BY <1>2, <2>1, <2>5
    <3> QED
      BY <2>1, <2>4, <3>1 DEF RefundRight
  <2>6. CASE doc[m].status = "rejected"
    <3>1. ASSUME NEW i \in 1..Len(disputes'), IsDispute(i, a, "resolved")'
          PROVE  FALSE
      <4>1. disputes'[i].auction = a /\ disputes'[i].status = "resolved"
        BY <3>1 DEF IsDispute
      <4>2. i # doc[m].id
        BY <2>2, <2>6, <4>1
      <4>3. disputes'[i] = disputes[i] /\ i \in 1..Len(disputes)
        BY <2>2, <4>2
      <4> QED
        BY <2>2, <4>1, <4>2, <4>3 DEF IsPending
    <3>2. ~Granted(a)'
      BY <3>1 DEF Granted
    <3> QED
      BY <2>1, <2>4, <3>2 DEF RefundRight
  <2> QED
    BY <2>2, <2>5, <2>6
<1>6. CASE ~ResolveWrite(m)
  <2>1. UNCHANGED disputes
    BY <1>6 DEF ResolveStep, ResolveRead, Busy, RefundWinner, CheckSeller,
                DebitSeller, Restore
  <2>2. Granted(a)' <=> Granted(a)
    BY <2>1 DEF Granted, IsDispute
  <2>3. pc[m] \in {"credit", "check", "debit"} => Granted(a)
    BY <1>4 DEF ModeratorAt, Granted, IsDispute
  <2>4. CASE RefundWinner(m)
    <3>1. /\ pc[m] = "credit" /\ pc'[m] = "check" /\ UNCHANGED anomalies
          /\ refunds'[a] = refunds[a] + 1
      BY <1>0, <2>4 DEF RefundWinner, Goto, TypeOK
    <3>2. refunds[a] = 0 /\ a \notin anomalies
      BY <1>2, <1>3, <3>1 DEF RefundRight
    <3> QED
      BY <1>2, <2>2, <2>3, <3>1, <3>2 DEF RefundRight
  <2>5. CASE CheckSeller(m)
    <3>1. /\ pc[m] = "check" /\ UNCHANGED refunds
          /\ \/ pc'[m] = "debit" /\ UNCHANGED anomalies
             \/ pc'[m] = "idle"
      BY <1>0, <2>5 DEF CheckSeller, Return, Goto, TypeOK
    <3>2. refunds[a] = 1 /\ a \notin anomalies
      BY <1>2, <1>3, <2>3, <3>1 DEF RefundRight
    <3> QED
      BY <1>2, <2>2, <2>3, <3>1, <3>2 DEF RefundRight
  <2>6. CASE DebitSeller(m)
    <3>1. pc[m] = "debit" /\ pc'[m] = "idle" /\ UNCHANGED <<anomalies, refunds>>
      BY <1>0, <2>6 DEF DebitSeller, Return, Goto, TypeOK
    <3> QED
      BY <1>2, <1>3, <2>2, <3>1 DEF RefundRight
  <2>7. CASE Restore(m)
    <3>1. pc[m] = "restore" /\ pc'[m] = "idle" /\ UNCHANGED <<anomalies, refunds>>
      BY <1>0, <2>7 DEF Restore, Return, Goto, TypeOK
    <3> QED
      BY <1>2, <1>3, <2>2, <3>1 DEF RefundRight
  <2> QED
    BY <1>6, <2>4, <2>5, <2>6, <2>7 DEF ResolveStep, ResolveRead, Busy
<1> QED
  BY <1>5, <1>6

LEMMA NextRefund ==
  ASSUME TypeOK, TypeOK', OrderInv, RefundInv, ~Overlap, ~Overlap', Next
  PROVE  RefundInv'
<1>1. ASSUME NEW f \in Filers, FileStep(f) PROVE RefundInv'
  BY <1>1, RefundFile
<1>2. ASSUME NEW m \in Moderators, ResolveStep(m) PROVE RefundInv'
  <2>1. CASE ResolveRead(m)
    <3>1. PICK a \in Auctions : StepOn(m, a) /\ RefundRight(a)'
      BY <2>1, RefundResolveRead
    <3>2. m \in Threads
      OBVIOUS
    <3> QED
      BY <3>1, <3>2, RefundFrame
  <2>2. CASE ~ResolveRead(m)
    <3>1. Busy(m) /\ m \in Threads
      BY <1>2, <2>2 DEF ResolveStep, ResolveWrite, RefundWinner, CheckSeller,
                        DebitSeller, Restore, Busy
    <3>2. PICK a \in Auctions : a = doc[m].auction
      BY <3>1 DEF TypeOK, Local
    <3>3. StepOn(m, a) /\ RefundRight(a)'
      BY <1>2, <3>1, <3>2, RefundResolve, ResolveStepOn
    <3> QED
      BY <3>1, <3>3, RefundFrame
  <2> QED
    BY <2>1, <2>2
<1> QED
  BY <1>1, <1>2 DEF Next

-----------------------------------------------------------------------------
(* Money                                                                   *)

\* What a call of credit_wallet does to each user.
LEMMA CreditCall ==
  ASSUME TypeOK, NoHolds, NEW u, NEW n \in Int, WalletCall("credit", u, n)
  PROVE  \A v \in Users :
           /\ wallet'[v].hold = 0
           /\ wallet'[v].balance = IF v = u /\ wallet[v].balance + n >= 0
                                  THEN wallet[v].balance + n
                                  ELSE wallet[v].balance
<1> SUFFICES ASSUME NEW v \in Users
             PROVE  /\ wallet'[v].hold = 0
                    /\ wallet'[v].balance = IF v = u /\ wallet[v].balance + n >= 0
                                           THEN wallet[v].balance + n
                                           ELSE wallet[v].balance
  OBVIOUS
<1>1. wallet[v] \in WalletRecord /\ wallet[v].hold = 0
  BY DEF TypeOK, NoHolds
<1>2. wallet'[v] = IF v = u THEN Outcome("credit", wallet[v], n) ELSE wallet[v]
  BY DEF WalletCall
<1>3. Outcome("credit", wallet[v], n) =
        [balance |-> IF wallet[v].balance + n >= 0
                     THEN wallet[v].balance + n ELSE wallet[v].balance,
         hold |-> 0]
  BY <1>1, CreditNoHold
<1> QED
  BY <1>1, <1>2, <1>3

LEMMA BalancesAfterCredit ==
  ASSUME TypeOK, TypeOK', NoHolds, NEW u, NEW n \in Int, WalletCall("credit", u, n)
  PROVE  /\ u \notin Users => Balances' = Balances
         /\ u \in Users /\ wallet[u].balance + n >= 0 => Balances' = Balances + n
         /\ Balances \in Int
<1> DEFINE f == [v \in Users |-> wallet[v].balance]
           g == [v \in Users |-> wallet'[v].balance]
<1>1. \A v \in Users : wallet'[v].balance =
        IF v = u /\ wallet[v].balance + n >= 0
        THEN wallet[v].balance + n ELSE wallet[v].balance
  BY CreditCall
<1>2. f \in [Users -> Int] /\ g \in [Users -> Int] /\ IsFiniteSet(Users)
  <2>1. \A v \in Users : wallet[v].balance \in Int /\ wallet'[v].balance \in Int
    BY DEF TypeOK, WalletRecord
  <2> QED
    BY <2>1, FS_Union
<1>3. Balances = SumFunction(f) /\ Balances' = SumFunction(g)
  BY DEF Balances
<1>4. \A v \in Users : f[v] = wallet[v].balance /\ g[v] = wallet'[v].balance
  OBVIOUS
<1> HIDE DEF f, g
<1>5. ASSUME u \notin Users PROVE Balances' = Balances
  <2>1. \A v \in Users : g[v] = f[v]
    BY <1>1, <1>4, <1>5
  <2>2. f = g
    BY <1>2, <2>1
  <2> QED
    BY <1>3, <2>2
<1>6. ASSUME u \in Users, wallet[u].balance + n >= 0 PROVE Balances' = Balances + n
  <2>1. \A v \in Users \ {u} : g[v] = f[v]
    BY <1>1, <1>4
  <2>2. g[u] = f[u] + n /\ f[u] \in Int
    BY <1>1, <1>2, <1>4, <1>6
  <2>3. SumFunction(g) = SumFunction(f) + g[u] - f[u]
    BY <1>2, <1>6, <2>1, SumUpdate
  <2>4. SumFunction(f) \in Int
    BY <1>2, SumIsInt
  <2> QED
    BY <1>3, <2>2, <2>3, <2>4
<1> QED
  BY <1>2, <1>3, <1>5, <1>6, SumIsInt

\* What an auction's refund comes to, before and after a step.
LEMMA OwedValue ==
  ASSUME NEW a \in Auctions, TypeOK
  PROVE  /\ Owed(a) \in Int
         /\ refunds[a] = 0 => Owed(a) = 0
         /\ refunds[a] = 1 =>
              Owed(a) = (IF WinnerOf[a] = NoBidder THEN 0 ELSE PriceOf[a])
                        - (IF a \in anomalies \/ At(a, {"check", "debit"})
                           THEN 0 ELSE PriceOf[a])
<1> PICK p \in Nat : p = PriceOf[a]
  OBVIOUS
<1>1. p * refunds[a] \in Int /\ p * 0 = 0 /\ p * 1 = p
  BY DEF TypeOK
<1>2. Credited(a) = IF WinnerOf[a] = NoBidder THEN 0 ELSE p * refunds[a]
  BY DEF Credited
<1>3. Debited(a) = IF a \in anomalies \/ At(a, {"check", "debit"})
                   THEN 0 ELSE p * refunds[a]
  BY DEF Debited, At
<1> QED
  BY <1>1, <1>2, <1>3 DEF Owed

LEMMA OwedValueAfter ==
  ASSUME NEW a \in Auctions, TypeOK'
  PROVE  /\ Owed(a)' \in Int
         /\ refunds'[a] = 0 => Owed(a)' = 0
         /\ refunds'[a] = 1 =>
              Owed(a)' = (IF WinnerOf[a] = NoBidder THEN 0 ELSE PriceOf[a])
                         - (IF a \in anomalies' \/ At(a, {"check", "debit"})'
                            THEN 0 ELSE PriceOf[a])
<1> PICK p \in Nat : p = PriceOf[a]
  OBVIOUS
<1>1. p * refunds'[a] \in Int /\ p * 0 = 0 /\ p * 1 = p
  BY DEF TypeOK
<1>2. Credited(a)' = IF WinnerOf[a] = NoBidder THEN 0 ELSE p * refunds'[a]
  BY DEF Credited
<1>3. Debited(a)' = IF a \in anomalies' \/ At(a, {"check", "debit"})'
                    THEN 0 ELSE p * refunds'[a]
  BY DEF Debited, At
<1> QED
  BY <1>1, <1>2, <1>3 DEF Owed

\* The books stay balanced when a step changes the balances by as much as
\* what its auction's refund comes to.
LEMMA AccountedFrame ==
  ASSUME TypeOK, TypeOK', Accounted, Balances \in Int,
         NEW t \in Threads, NEW a \in Auctions, StepOn(t, a),
         Balances' = Balances + Owed(a)' - Owed(a)
  PROVE  Accounted'
<1> DEFINE f == [b \in Auctions |-> Owed(b)]
           g == [b \in Auctions |-> Owed(b)']
<1>1. f \in [Auctions -> Int] /\ g \in [Auctions -> Int]
  BY OwedValue, OwedValueAfter
<1>2. Owed(a) \in Int /\ Owed(a)' \in Int
  BY OwedValue, OwedValueAfter
<1>3. \A b \in Auctions \ {a} : g[b] = f[b]
  <2> SUFFICES ASSUME NEW b \in Auctions \ {a} PROVE Owed(b)' = Owed(b)
    OBVIOUS
  <2>1. At(b, {"check", "debit"})' <=> At(b, {"check", "debit"})
    BY AtElsewhere
  <2>2. refunds'[b] = refunds[b] /\ (b \in anomalies' <=> b \in anomalies)
    BY DEF StepOn
  <2>3. Debited(b)' = Debited(b)
    BY <2>1, <2>2 DEF Debited, At
  <2>4. Credited(b)' = Credited(b)
    BY <2>2 DEF Credited
  <2> QED
    BY <2>3, <2>4 DEF Owed
<1>4. f[a] = Owed(a) /\ g[a] = Owed(a)'
  OBVIOUS
<1>5. /\ Balances = SumFunction(InitialBalance) + SumFunction(f)
      /\ Accounted' <=> Balances' = SumFunction(InitialBalance) + SumFunction(g)
  BY DEF Accounted
<1> HIDE DEF f, g
<1>6. SumFunction(g) = SumFunction(f) + g[a] - f[a]
  <2>1. IsFiniteSet(Auctions)
    BY DEF DisputesAssumption
  <2> QED
    BY <1>1, <1>3, <2>1, SumUpdate
<1>7. SumFunction(f) \in Int /\ SumFunction(InitialBalance) \in Int
  <2>1. InitialBalance \in [Users -> Int]
    OBVIOUS
  <2>2. IsFiniteSet(Auctions) /\ IsFiniteSet(Users)
    BY FS_Union
  <2> QED
    BY <1>1, <2>1, <2>2, SumIsInt
<1> QED
  BY <1>2, <1>4, <1>5, <1>6, <1>7

\* A step that neither pays nor moves a moderator to or from a payment.
LEMMA NoPayment ==
  ASSUME Accounted, NEW t \in Threads, UNCHANGED <<wallet, refunds, anomalies>>,
         \A m \in Moderators \ {t} : pc'[m] = pc[m] /\ doc'[m] = doc[m],
         t \in Moderators => /\ pc[t] \notin {"check", "debit"}
                            /\ pc'[t] \notin {"check", "debit"}
  PROVE  Accounted'
<1>1. \A b \in Auctions : Owed(b)' = Owed(b)
  <2> SUFFICES ASSUME NEW b \in Auctions PROVE Owed(b)' = Owed(b)
    OBVIOUS
  <2>1. (\E m \in Moderators : doc[m].auction = b /\ pc[m] \in {"check", "debit"})'
          <=> \E m \in Moderators : doc[m].auction = b /\ pc[m] \in {"check", "debit"}
    OBVIOUS
  <2>2. Debited(b)' = Debited(b)
    BY <2>1 DEF Debited
  <2>3. Credited(b)' = Credited(b)
    BY DEF Credited
  <2> QED
    BY <2>2, <2>3 DEF Owed
<1>2. Balances' = Balances
  BY DEF Balances
<1>3. [b \in Auctions |-> Owed(b)]' = [b \in Auctions |-> Owed(b)]
  BY <1>1
<1> QED
  BY <1>2, <1>3 DEF Accounted

LEMMA NextAccounted ==
  ASSUME TypeOK, TypeOK', NoHolds, OrderInv, RefundInv, SellersCanPay, Accounted,
         ~Overlap, Next
  PROVE  Accounted'
<1>1. ASSUME NEW f \in Filers, FileStep(f) PROVE Accounted'
  <2>1. f \in Threads /\ f \notin Moderators
    OBVIOUS
  <2>2. UNCHANGED <<wallet, refunds, anomalies>>
    BY <1>1 DEF FileStep, FileRead, FileNumber, FileWrite, FileMark
  <2>3. \A m \in Moderators \ {f} : pc'[m] = pc[m] /\ doc'[m] = doc[m]
    BY <1>1 DEF FileStep, FileRead, FileNumber, FileWrite, FileMark, Goto,
                Return, TypeOK
  <2> QED
    BY <2>1, <2>2, <2>3, NoPayment
<1>2. ASSUME NEW m \in Moderators, ResolveStep(m) PROVE Accounted'
  <2>0. m \in Threads
    OBVIOUS
  <2>1. CASE ResolveRead(m) \/ ResolveWrite(m) \/ Restore(m)
    <3>1. UNCHANGED <<wallet, refunds, anomalies>>
      BY <2>1 DEF ResolveRead, ResolveWrite, Restore
    <3>2. \A k \in Moderators \ {m} : pc'[k] = pc[k] /\ doc'[k] = doc[k]
      BY <2>1 DEF ResolveRead, ResolveWrite, Restore, Goto, Return, TypeOK
    <3>3. pc[m] \notin {"check", "debit"} /\ pc'[m] \notin {"check", "debit"}
      BY <2>0, <2>1 DEF ResolveRead, ResolveWrite, Restore, Goto, Return, TypeOK
    <3> QED
      BY <2>0, <3>1, <3>2, <3>3, NoPayment
  <2>2. CASE RefundWinner(m) \/ CheckSeller(m) \/ DebitSeller(m)
    <3>1. Busy(m)
      BY <2>2 DEF RefundWinner, CheckSeller, DebitSeller, Busy
    <3> PICK a \in Auctions : a = doc[m].auction
      BY <2>0 DEF TypeOK, Local
    <3>2. StepOn(m, a)
      BY <1>2, <3>1, ResolveStepOn
    <3>3. RefundRight(a)
      BY DEF RefundInv
    <3>4. /\ At(a, {"credit"}) <=> pc[m] = "credit"
          /\ At(a, {"check", "debit"}) <=> pc[m] \in {"check", "debit"}
          /\ At(a, {"check", "debit"})' <=> pc'[m] \in {"check", "debit"}
          /\ pc[m] \in {"credit", "check", "debit"}
               => At(a, {"credit", "check", "debit"})
      <4>1. \A labels : "idle" \notin labels =>
              /\ At(a, labels) <=> pc[m] \in labels
              /\ At(a, labels)' <=> pc'[m] \in labels
        BY <2>0, <3>2, AtSubject
      <4> QED
        BY <4>1
    <3>5. Granted(a) /\ pc[m] \in {"credit", "check", "debit"}
      BY <2>2, <3>1 DEF OrderInv, ModeratorAt, RefundWinner, CheckSeller,
                        DebitSeller, Granted, IsDispute
    <3>6. a \notin anomalies /\ refunds[a] = IF pc[m] = "credit" THEN 0 ELSE 1
      BY <3>3, <3>4, <3>5 DEF RefundRight
    <3>7. /\ PriceOf[a] \in Nat /\ PriceOf[a] \in Int /\ -PriceOf[a] \in Int
          /\ SellerOf[a] \in Users
          /\ WinnerOf[a] \in Users \/ (WinnerOf[a] = NoBidder /\ NoBidder \notin Users)
      OBVIOUS
    <3>8. Balances \in Int
      <4>1. [u \in Users |-> wallet[u].balance] \in [Users -> Int]
        <5>1. \A u \in Users : wallet[u].balance \in Int
          BY DEF TypeOK, WalletRecord
        <5> QED
          BY <5>1
      <4>2. IsFiniteSet(Users)
        BY FS_Union
      <4> QED
        BY <4>1, <4>2, SumIsInt DEF Balances
    <3>9. Balances' = Balances + Owed(a)' - Owed(a)
      <4>1. CASE RefundWinner(m)
        <5>1. /\ pc[m] = "credit" /\ pc'[m] = "check" /\ refunds'[a] = refunds[a] + 1
              /\ WalletCall("credit", WinnerOf[a], PriceOf[a])
          BY <2>0, <4>1 DEF RefundWinner, Goto, TypeOK
        <5>2. Owed(a) = 0
          BY <3>6, <5>1, OwedValue
        <5>3. Owed(a)' = IF WinnerOf[a] = NoBidder THEN 0 ELSE PriceOf[a]
          <6>1. refunds'[a] = 1 /\ At(a, {"check", "debit"})'
            BY <3>4, <3>6, <5>1
          <6> QED
            BY <3>7, <6>1, OwedValueAfter
        <5>4. CASE WinnerOf[a] = NoBidder
          BY <3>7, <3>8, <5>1, <5>2, <5>3, <5>4, BalancesAfterCredit
        <5>5. CASE WinnerOf[a] # NoBidder
          <6>1. WinnerOf[a] \in Users /\ wallet[WinnerOf[a]].balance + PriceOf[a] >= 0
            <7>1. WinnerOf[a] \in Users
              BY <3>7, <5>5
            <7>2. wallet[WinnerOf[a]].balance \in Nat
              BY <7>1 DEF TypeOK, WalletRecord
            <7> QED
              BY <3>7, <7>1, <7>2
          <6>2. Balances' = Balances + PriceOf[a]
            BY <3>7, <5>1, <6>1, BalancesAfterCredit
          <6> QED
            BY <3>7, <3>8, <5>2, <5>3, <5>5, <6>2
        <5> QED
          BY <5>4, <5>5
      <4>2. CASE CheckSeller(m)
        <5>1. /\ pc[m] = "check" /\ UNCHANGED <<wallet, refunds>>
              /\ pc'[m] = "debit" \/ a \in anomalies'
          BY <2>0, <4>2 DEF CheckSeller, Goto, TypeOK
        <5>2. Balances' = Balances
          BY <5>1 DEF Balances
        <5>3. refunds[a] = 1 /\ refunds'[a] = 1 /\ At(a, {"check", "debit"})
              /\ (a \in anomalies' \/ At(a, {"check", "debit"})')
          BY <3>4, <3>6, <5>1
        <5>4. Owed(a)' = Owed(a) /\ Owed(a) \in Int
          BY <5>3, OwedValue, OwedValueAfter
        <5> QED
          BY <3>8, <5>2, <5>4
      <4>3. CASE DebitSeller(m)
        <5>1. /\ pc[m] = "debit" /\ pc'[m] = "idle" /\ UNCHANGED <<anomalies, refunds>>
              /\ WalletCall("credit", SellerOf[a], -PriceOf[a])
          BY <2>0, <4>3 DEF DebitSeller, Return, Goto, TypeOK
        <5>2. wallet[SellerOf[a]].balance + (-PriceOf[a]) >= 0
          <6>1. wallet[SellerOf[a]].balance >= PriceOf[a]
            BY <5>1 DEF SellersCanPay
          <6>2. wallet[SellerOf[a]].balance \in Nat
            BY <3>7 DEF TypeOK, WalletRecord
          <6> QED
            BY <3>7, <6>1, <6>2
        <5>3. Balances' = Balances + (-PriceOf[a])
          BY <3>7, <5>1, <5>2, BalancesAfterCredit
        <5>4. refunds[a] = 1 /\ refunds'[a] = 1 /\ At(a, {"check", "debit"})
              /\ a \notin anomalies' /\ ~At(a, {"check", "debit"})'
          BY <3>4, <3>6, <5>1
        <5>5. Owed(a) = (IF WinnerOf[a] = NoBidder THEN 0 ELSE PriceOf[a]) - 0
          BY <5>4, OwedValue
        <5>6. Owed(a)' = (IF WinnerOf[a] = NoBidder THEN 0 ELSE PriceOf[a]) - PriceOf[a]
          BY <5>4, OwedValueAfter
        <5> QED
          BY <3>7, <3>8, <5>3, <5>5, <5>6
      <4> QED
        BY <2>2, <4>1, <4>2, <4>3
    <3> QED
      BY <2>0, <3>2, <3>8, <3>9, AccountedFrame
  <2> QED
    BY <1>2, <2>1, <2>2 DEF ResolveStep
<1> QED
  BY <1>1, <1>2 DEF Next

LEMMA NextSellersCanPay ==
  ASSUME TypeOK, NoHolds, SellersCanPay, ~Overlap, Next
  PROVE  SellersCanPay'
<1> SUFFICES ASSUME NEW k \in Moderators, pc'[k] = "debit"
             PROVE  wallet'[SellerOf[doc'[k].auction]].balance
                      >= PriceOf[doc'[k].auction]
  BY DEF SellersCanPay
<1>0. \A v \in Users : wallet[v].balance \in Nat
  BY DEF TypeOK, WalletRecord
<1>1. ASSUME pc[k] = "debit", doc'[k] = doc[k],
             \A v \in Users : v = SellerOf[doc[k].auction]
                               => wallet'[v].balance >= wallet[v].balance,
             \A v \in Users : wallet'[v].balance \in Int
      PROVE  wallet'[SellerOf[doc'[k].auction]].balance >= PriceOf[doc'[k].auction]
  <2> PICK a \in Auctions : a = doc[k].auction
    BY DEF TypeOK, Local
  <2>1. wallet[SellerOf[a]].balance >= PriceOf[a]
    BY <1>1 DEF SellersCanPay
  <2>2. SellerOf[a] \in Users /\ PriceOf[a] \in Nat
    OBVIOUS
  <2> QED
    BY <1>0, <1>1, <2>1, <2>2
<1>2. ASSUME NEW f \in Filers, FileStep(f)
      PROVE  UNCHANGED wallet /\ pc[k] = "debit" /\ doc'[k] = doc[k]
  BY <1>2 DEF FileStep, FileRead, FileNumber, FileWrite, FileMark, Goto, Return, TypeOK
<1>3. ASSUME NEW m \in Moderators, ResolveStep(m)
      PROVE  wallet'[SellerOf[doc'[k].auction]].balance >= PriceOf[doc'[k].auction]
  <2>0. m \in Threads /\ k \in Threads
    OBVIOUS
  <2>1. CASE ResolveRead(m) \/ ResolveWrite(m) \/ Restore(m)
    <3>1. UNCHANGED wallet
      BY <2>1 DEF ResolveRead, ResolveWrite, Restore
    <3>2. pc[k] = "debit" /\ doc'[k] = doc[k]
      <4>1. k # m
        BY <2>0, <2>1 DEF ResolveRead, ResolveWrite, Restore, Goto, Return, TypeOK
      <4> QED
        BY <2>0, <2>1, <4>1 DEF ResolveRead, ResolveWrite, Restore, Goto, Return, TypeOK
    <3> QED
      BY <1>0, <1>1, <3>1, <3>2
  <2>2. CASE RefundWinner(m)
    <3> PICK a \in Auctions : a = doc[m].auction
      BY <2>0 DEF TypeOK, Local
    <3>1. WalletCall("credit", WinnerOf[a], PriceOf[a]) /\ PriceOf[a] \in Nat
          /\ PriceOf[a] \in Int
      BY <2>2 DEF RefundWinner
    <3>2. \A v \in Users : wallet'[v].balance \in Int
                           /\ wallet'[v].balance >= wallet[v].balance
      BY <1>0, <3>1, CreditCall
    <3>3. pc[k] = "debit" /\ doc'[k] = doc[k]
      BY <2>0, <2>2 DEF RefundWinner, Goto, TypeOK
    <3> QED
      BY <1>1, <3>2, <3>3
  <2>3. CASE CheckSeller(m)
    <3>1. CASE k = m
      <4>1. /\ wallet[SellerOf[doc[m].auction]].balance >= PriceOf[doc[m].auction]
            /\ UNCHANGED <<doc, wallet>>
        BY <2>0, <2>3, <3>1 DEF CheckSeller, Return, Goto, TypeOK
      <4> QED
        BY <3>1, <4>1
    <3>2. CASE k # m
      <4>1. pc[k] = "debit" /\ doc'[k] = doc[k] /\ UNCHANGED wallet
        BY <2>0, <2>3, <3>2 DEF CheckSeller, Return, Goto, TypeOK
      <4> QED
        BY <1>0, <1>1, <4>1
    <3> QED
      BY <3>1, <3>2
  <2>4. CASE DebitSeller(m)
    <3> PICK a \in Auctions : a = doc[m].auction
      BY <2>0 DEF TypeOK, Local
    <3>1. /\ WalletCall("credit", SellerOf[a], -PriceOf[a]) /\ -PriceOf[a] \in Int
          /\ pc[m] = "debit" /\ pc'[m] = "idle"
      BY <2>0, <2>4 DEF DebitSeller, Return, Goto, TypeOK
    <3>2. k # m
      BY <3>1
    <3>3. pc[k] = "debit" /\ doc'[k] = doc[k]
      BY <2>0, <2>4, <3>2 DEF DebitSeller, Return, Goto, TypeOK
    <3>4. SellerOf[doc[k].auction] # SellerOf[a]
      BY <2>0, <3>1, <3>2, <3>3, Alone DEF Busy
    <3>5. \A v \in Users : /\ wallet'[v].balance \in Int
                           /\ v # SellerOf[a] => wallet'[v].balance = wallet[v].balance
      BY <1>0, <3>1, CreditCall
    <3> QED
      BY <1>0, <1>1, <3>3, <3>4, <3>5
  <2> QED
    BY <1>3, <2>1, <2>2, <2>3, <2>4 DEF ResolveStep
<1> QED
  BY <1>0, <1>1, <1>2, <1>3 DEF Next

LEMMA NextPlaces ==
  ASSUME TypeOK, Places, Next
  PROVE  Places'
<1>1. Overlap' => raced'
  BY DEF Next
<1>2. ASSUME NEW f \in Filers, FileStep(f)
      PROVE  /\ \A g \in Filers : pc'[g] \in FilerLabels
             /\ \A m \in Moderators : pc'[m] \in ModeratorLabels
  <2>1. \A t \in Threads \ {f} : pc'[t] = pc[t]
    BY <1>2 DEF FileStep, FileRead, FileNumber, FileWrite, FileMark, Goto, Return, TypeOK
  <2>2. pc'[f] \in FilerLabels
    BY <1>2 DEF FileStep, FileRead, FileNumber, FileWrite, FileMark, Goto, Return,
                TypeOK, FilerLabels
  <2> QED
    BY <2>1, <2>2 DEF Places
<1>3. ASSUME NEW m \in Moderators, ResolveStep(m)
      PROVE  /\ \A g \in Filers : pc'[g] \in FilerLabels
             /\ \A k \in Moderators : pc'[k] \in ModeratorLabels
  <2>1. PICK label \in ModeratorLabels : Goto(m, label)
    <3>1. CASE ResolveWrite(m)
      BY <3>1 DEF ResolveWrite, ModeratorLabels
    <3>2. CASE CheckSeller(m)
      BY <3>2 DEF CheckSeller, Return, ModeratorLabels
    <3> QED
      BY <1>3, <3>1, <3>2 DEF ResolveStep, ResolveRead, RefundWinner, DebitSeller,
                              Restore, Return, ModeratorLabels
  <2> QED
    BY <2>1 DEF Places, Goto, TypeOK
<1> QED
  BY <1>1, <1>2, <1>3 DEF Next, Places

LEMMA NextNoHolds ==
  ASSUME TypeOK, NoHolds, Next
  PROVE  NoHolds'
<1>1. ASSUME NEW f \in Filers, FileStep(f) PROVE UNCHANGED wallet
  BY <1>1 DEF FileStep, FileRead, FileNumber, FileWrite, FileMark
<1>2. ASSUME NEW m \in Moderators, ResolveStep(m)
      PROVE  \/ UNCHANGED wallet
             \/ \E u, n : n \in Int /\ WalletCall("credit", u, n)
  <2>1. PriceOf[doc[m].auction] \in Int /\ -PriceOf[doc[m].auction] \in Int
    <3>1. doc[m].auction \in Auctions
      BY DEF TypeOK, Local
    <3> QED
      BY <3>1
  <2> QED
    BY <1>2, <2>1 DEF ResolveStep, ResolveRead, ResolveWrite, RefundWinner,
                      CheckSeller, DebitSeller, Restore
<1>3. ASSUME NEW u, NEW n \in Int, WalletCall("credit", u, n) PROVE NoHolds'
  BY <1>3, CreditCall DEF NoHolds
<1>4. UNCHANGED wallet => NoHolds'
  BY DEF NoHolds
<1> QED
  BY <1>1, <1>2, <1>3, <1>4 DEF Next

-----------------------------------------------------------------------------
(* The theorems                                                            *)

LEMMA InitInv == Init => DisputesInv
<1> SUFFICES ASSUME Init PROVE DisputesInv
  OBVIOUS
<1>0. TypeOK
  BY InitType
<1>1. \A t \in Threads : ~Busy(t) /\ pc[t] = "idle"
  BY DEF Init, Busy
<1>2. Places
  BY <1>1 DEF Places, FilerLabels, ModeratorLabels, Overlap
<1>3. NoHolds
  BY DEF Init, NoHolds
<1>4. Len(disputes) = 0
  BY EmptySeq DEF Init
<1>5. \A a \in Auctions : ~Pending(a) /\ ~Granted(a)
  BY <1>4 DEF Pending, Granted
<1>6. OrderInv
  BY <1>1, <1>4, <1>5 DEF Init, OrderInv, OnePending, StatusRight, AuctionClosed,
                          AuctionDisputed
<1>7. RefundInv
  BY <1>5 DEF Init, RefundInv, RefundRight
<1>8. SellersCanPay
  BY <1>1 DEF SellersCanPay
<1>9. Accounted
  <2>1. Balances = SumFunction(InitialBalance)
    <3>1. [u \in Users |-> wallet[u].balance] = InitialBalance
      BY DEF Init
    <3> QED
      BY <3>1 DEF Balances
  <2> DEFINE f == [a \in Auctions |-> Owed(a)]
  <2>2. f \in [Auctions -> Int] /\ \A a \in Auctions : f[a] = 0
    BY <1>0, OwedValue DEF Init
  <2> HIDE DEF f
  <2>3. SumFunction(f) = 0
    BY <2>2, SumOfZeros
  <2>4. SumFunction(InitialBalance) \in Int
    <3>1. InitialBalance \in [Users -> Int]
      OBVIOUS
    <3>2. IsFiniteSet(Users)
      BY FS_Union
    <3> QED
      BY <3>1, <3>2, SumIsInt
  <2> QED
    BY <2>1, <2>3, <2>4 DEF Accounted, f
<1> QED
  BY <1>2, <1>3, <1>6, <1>7, <1>8, <1>9 DEF DisputesInv

\* The conjunction that every step preserves.
THEOREM DisputesHold == Spec => []DisputesInv
<1>1. TypeOK /\ TypeOK' /\ DisputesInv /\ [Next]_vars => DisputesInv'
  <2> SUFFICES ASSUME TypeOK, TypeOK', DisputesInv, [Next]_vars PROVE DisputesInv'
    OBVIOUS
  <2>1. CASE UNCHANGED vars
    <3>1. Places'
      BY <2>1 DEF vars, DisputesInv, Places, Overlap, Busy, SameSubject
    <3>2. NoHolds'
      BY <2>1 DEF vars, DisputesInv, NoHolds
    <3>3. OrderInv' <=> OrderInv
      BY <2>1 DEF vars, OrderInv, OnePending, IsPending, FilerAt, ModeratorAt, IsDispute,
                  Pending, Quiet, StatusRight, Busy
    <3>4. RefundInv' <=> RefundInv
      BY <2>1 DEF vars, RefundInv, RefundRight, Granted, IsDispute, At
    <3>5. SellersCanPay' <=> SellersCanPay
      BY <2>1 DEF vars, SellersCanPay
    <3>6. Accounted' <=> Accounted
      BY <2>1 DEF vars, Accounted, Balances, Owed, Credited, Debited
    <3> QED
      BY <2>1, <3>1, <3>2, <3>3, <3>4, <3>5, <3>6 DEF vars, DisputesInv
  <2>2. CASE Next
    <3>1. Places' /\ NoHolds'
      BY <2>2, NextPlaces, NextNoHolds DEF DisputesInv
    <3>2. ~raced' => ~raced /\ ~Overlap /\ ~Overlap'
      BY <2>2 DEF Next, DisputesInv, Places
    <3>3. ~raced' => OrderInv' /\ RefundInv' /\ SellersCanPay' /\ Accounted'
      BY <2>2, <3>2, NextOrder, NextRefund, NextSellersCanPay, NextAccounted
         DEF DisputesInv
    <3> QED
      BY <3>1, <3>3 DEF DisputesInv
  <2> QED
    BY <2>1, <2>2
<1> QED
  BY <1>1, InitInv, TypeCorrect, PTL DEF Spec

\* Between requests an auction is DISPUTED exactly when one of its disputes
\* is open or was granted.
THEOREM StatusFollowsDisputes == Spec => []DisputedIffPending
<1>1. DisputesInv => DisputedIffPending
  BY DEF DisputesInv, OrderInv, Quiet, StatusRight, DisputedIffPending
<1> QED
  BY <1>1, DisputesHold, PTL

\* handle_resolve_dispute refunds the winner of an auction at most once.
THEOREM NeverRefundedTwice == Spec => []RefundedOnce
<1>1. DisputesInv => RefundedOnce
  BY DEF DisputesInv, RefundInv, RefundRight, RefundedOnce
<1> QED
  BY <1>1, DisputesHold, PTL

\* What winners get back, sellers pay, but for the flagged refunds.
THEOREM RefundsAreAccounted == Spec => []RefundsAccounted
<1>1. DisputesInv => RefundsAccounted
  BY DEF DisputesInv, Accounted, Owed, RefundsAccounted
<1> QED
  BY <1>1, DisputesHold, PTL
=============================================================================
