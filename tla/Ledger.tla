------------------------------- MODULE Ledger -------------------------------
(***************************************************************************)
(* What the marketplace promises about the money of a sale, with none of   *)
(* the machinery: the buyer pays once and may get the money back, the      *)
(* seller is sent a share only of a sale that was paid, and gives it back  *)
(* only of one that was refunded, once each.  Settlement implements it.    *)
(***************************************************************************)
CONSTANT Orders

VARIABLES
    buyer,  \* "owes" nothing has arrived, "paid", "refunded"
    seller  \* "nothing" has left, "sent", "returned"

ledgerVars == <<buyer, seller>>

LedgerInit ==
    /\ buyer  = [o \in Orders |-> "owes"]
    /\ seller = [o \in Orders |-> "nothing"]

BuyerPays(o) ==
    /\ buyer[o] = "owes"
    /\ buyer' = [buyer EXCEPT ![o] = "paid"]
    /\ UNCHANGED seller

BuyerIsRefunded(o) ==
    /\ buyer[o] = "paid"
    /\ buyer' = [buyer EXCEPT ![o] = "refunded"]
    /\ UNCHANGED seller

\* A refund on its way does not stop a transfer: the two may cross.
SellerIsSent(o) ==
    /\ buyer[o] # "owes"
    /\ seller[o] = "nothing"
    /\ seller' = [seller EXCEPT ![o] = "sent"]
    /\ UNCHANGED buyer

SellerReturns(o) ==
    /\ buyer[o] = "refunded"
    /\ seller[o] = "sent"
    /\ seller' = [seller EXCEPT ![o] = "returned"]
    /\ UNCHANGED buyer

LedgerNext ==
    \E o \in Orders :
        BuyerPays(o) \/ BuyerIsRefunded(o) \/ SellerIsSent(o) \/ SellerReturns(o)

LedgerSpec == LedgerInit /\ [][LedgerNext]_ledgerVars
=============================================================================
