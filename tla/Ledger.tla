------------------------------- MODULE Ledger -------------------------------
(***************************************************************************)
(* What the money code promises, without sessions, locks or SQL: every     *)
(* change of a wallet is one atomic posting that changes the stored balance *)
(* and the ledger by the same amount, moves internal money from one wallet *)
(* to another without loss, and never leaves the paying wallet overdrawn.  *)
(* docs/MONEY_INVARIANTS.md states the rules this specification condenses. *)
(***************************************************************************)
EXTENDS Integers

CONSTANTS Wallet,    \* wallet ids
          External,  \* amounts (signed) that enter or leave the platform
          Internal   \* amounts that move between two wallets, 0 included

VARIABLES book,      \* book[w]: the stored balance, wallets.balance
          journal    \* journal[w]: the sum of w's ledger entries

ledgerVars == <<book, journal>>

Init == /\ book \in [Wallet -> Nat]
        /\ journal = book

\* The balance sheet f after x entered wallet w and m moved from w to v.
Posted(f, w, v, x, m) == [f EXCEPT ![w] = @ + x - m, ![v] = @ + m]

(***************************************************************************)
(* One posting: x from outside on w, and m moved from w to another wallet  *)
(* v (a fee, a transfer, a monthly charge).                                *)
(***************************************************************************)
Post(w, v, x, m) ==
    /\ w # v
    /\ book[w] + x - m >= 0
    /\ book' = Posted(book, w, v, x, m)
    /\ journal' = Posted(journal, w, v, x, m)

Next == \E w, v \in Wallet, x \in External, m \in Internal : Post(w, v, x, m)

Spec == Init /\ [][Next]_ledgerVars
=============================================================================
