---------------------------- MODULE PayoutOrder ----------------------------
(***************************************************************************)
(* What a payout promises the merchant: his money is set aside once, and   *)
(* later either stays spent or comes back once, whole, to the wallet it    *)
(* left; the fee is taken at most once, and only for a payout that stays   *)
(* spent.                                                                  *)
(***************************************************************************)
EXTENDS Naturals

CONSTANTS Payout, Amount, Fee, Opening

VARIABLES stage,  \* stage[p]: "none", "held", "settled" or "returned"
          purse   \* the merchant's balance

orderVars == <<stage, purse>>

Init == /\ stage = [p \in Payout |-> "none"]
        /\ purse = Opening

\* The money is set aside when the balance also covers the fee.
Hold(p) == /\ stage[p] = "none"
           /\ purse >= Amount + Fee
           /\ stage' = [stage EXCEPT ![p] = "held"]
           /\ purse' = purse - Amount

\* The fee was not set aside: it is taken only if the balance still covers it.
Settle(p) == /\ stage[p] = "held"
             /\ stage' = [stage EXCEPT ![p] = "settled"]
             /\ purse' = IF purse >= Fee THEN purse - Fee ELSE purse

Return(p) == /\ stage[p] = "held"
             /\ stage' = [stage EXCEPT ![p] = "returned"]
             /\ purse' = purse + Amount

Next == \E p \in Payout : Hold(p) \/ Settle(p) \/ Return(p)

Spec == Init /\ [][Next]_orderVars
=============================================================================
