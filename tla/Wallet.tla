------------------------------- MODULE Wallet -------------------------------
(***************************************************************************)
(* The arithmetic of server/wallet.c: what one call of place_hold,         *)
(* release_hold, settle_payment or credit_wallet does to the wallet fields *)
(* of one user record.  Amounts are integers.  The code keeps doubles: no  *)
(* property here depends on fractions, and amounts are assumed to be       *)
(* numbers (the comparisons of the guards all let a NaN pass).  This       *)
(* module has no state: the modules that own the wallets decide when a     *)
(* call happens.                                                           *)
(***************************************************************************)
EXTENDS Integers

\* The wallet fields of a User record.
WalletRecord == [balance : Nat, hold : Nat]

\* What a bidder may still spend or commit.
Available(w) == w.balance - w.hold

\* A record the code's sanity guards let through.
Sound(w) == w.hold <= w.balance

\* The four calls, by the deltas they hand to apply_wallet_delta.
Ops == {"hold", "release", "settle", "credit"}

BalanceDelta(op, amount) ==
  CASE op \in {"hold", "release"} -> 0
    [] op = "settle"              -> -amount
    [] op = "credit"              -> amount

HoldDelta(op, amount) ==
  CASE op = "hold"                   -> amount
    [] op \in {"release", "settle"}  -> -amount
    [] op = "credit"                 -> 0

\* Mutant: the clamp of an over-release is dropped.
NewHoldUnclamped(w, holdDelta) == w.hold + holdDelta

\* "hold can briefly go to 0 but not below": an over-release is clamped.
NewHold(w, holdDelta) ==
  IF w.hold + holdDelta < 0 THEN 0 ELSE w.hold + holdDelta

\* Mutant: the guard new_hold > new_balance is dropped.
DeltaAcceptedNoHoldGuard(w, balanceDelta, holdDelta) ==
  w.balance + balanceDelta >= 0

\* Mutant: both guards are dropped as never reached.
DeltaUnguarded(w, balanceDelta, holdDelta) == TRUE

\* The two guards of apply_wallet_delta; when they fail it returns -1.
DeltaAccepted(w, balanceDelta, holdDelta) ==
  /\ w.balance + balanceDelta >= 0
  /\ NewHold(w, holdDelta) <= w.balance + balanceDelta

\* The record apply_wallet_delta writes back; refused calls write nothing.
ApplyDelta(w, balanceDelta, holdDelta) ==
  IF DeltaAccepted(w, balanceDelta, holdDelta)
  THEN [balance |-> w.balance + balanceDelta, hold |-> NewHold(w, holdDelta)]
  ELSE w

\* place_hold makes its own check of the available funds first.
FundsCover(op, w, amount) == op = "hold" => amount <= Available(w)

\* Whether a call returns 0.
Accepted(op, w, amount) ==
  /\ FundsCover(op, w, amount)
  /\ DeltaAccepted(w, BalanceDelta(op, amount), HoldDelta(op, amount))

\* The record a call leaves behind.
Outcome(op, w, amount) ==
  IF Accepted(op, w, amount)
  THEN ApplyDelta(w, BalanceDelta(op, amount), HoldDelta(op, amount))
  ELSE w
=============================================================================
