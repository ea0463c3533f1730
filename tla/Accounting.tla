----------------------------- MODULE Accounting -----------------------------
(***************************************************************************)
(* What the tracker promises about resources, with no scan, no pid and no  *)
(* group in sight: processes use resources, and from time to time a report *)
(* passes on part of what has been used and not been passed on yet.  Use   *)
(* is never taken back, and none of it is passed on twice.                 *)
(***************************************************************************)
EXTENDS Integers

CONSTANT Process

VARIABLES
    used,      \* what each process has used so far
    credit     \* how much of it has been reported

accountingVars == <<used, credit>>

AccountingTypeOK ==
    /\ used \in [Process -> Nat]
    /\ credit \in [Process -> Nat]

AccountingInit ==
    /\ used = [id \in Process |-> 0]
    /\ credit = [id \in Process |-> 0]

(* One process uses some more.                                             *)
Consume ==
    /\ used' \in [Process -> Nat]
    /\ \E id \in Process :
          /\ used'[id] > used[id]
          /\ \A other \in Process \ {id} : used'[other] = used[other]
    /\ UNCHANGED credit

(* A report passes on what is outstanding of each process, in part or all. *)
Settle ==
    /\ credit' \in [Process -> Nat]
    /\ \A id \in Process : credit[id] <= credit'[id] /\ credit'[id] <= used[id]
    /\ UNCHANGED used

AccountingNext == Consume \/ Settle

AccountingSpec == AccountingInit /\ [][AccountingNext]_accountingVars
=============================================================================
