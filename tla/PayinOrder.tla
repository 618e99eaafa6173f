------------------------------ MODULE PayinOrder ------------------------------
(***************************************************************************)
(* What a pay-in promises: it is awaited, and then either fails or is      *)
(* credited once, less a fee that is taken with the credit or not at all.  *)
(* PayokPayin implements this.                                             *)
(***************************************************************************)
EXTENDS Integers

CONSTANTS Payin, Paid, Fee

VARIABLES stage,   \* "none", "awaited", "credited" or "failed"
          takings  \* what the merchant holds in the currency

vars == <<stage, takings>>

Become(p, from, to) == stage[p] = from /\ stage' = [stage EXCEPT ![p] = to]

Await(p) == Become(p, "none", "awaited") /\ UNCHANGED takings

Credit(p) == /\ Become(p, "awaited", "credited")
             /\ takings' \in {takings + Paid, takings + Paid - Fee}

Fail(p) == Become(p, "awaited", "failed") /\ UNCHANGED takings

Init == /\ stage = [p \in Payin |-> "none"]
        /\ takings = 0

Next == \E p \in Payin : Await(p) \/ Credit(p) \/ Fail(p)

Spec == Init /\ [][Next]_vars
=============================================================================
