------------------------------- MODULE PayOnce -------------------------------
(***************************************************************************)
(* What a payment journal promises its operator, whatever the number of    *)
(* processes that share it and whenever they crash: the first claim on a   *)
(* subject (a Native state slot, a purchase) is the only one, the subject  *)
(* is paid for at most once, and a settled subject stays settled.          *)
(* NativeRelay and BuyerFunding are both shown to implement this module.   *)
(***************************************************************************)
EXTENDS Naturals

CONSTANTS Subjects,  \* what may be paid for
          Claims,    \* what a subject may be claimed for
          None       \* no claim

VARIABLES owner,     \* owner[s]: the claim that holds subject s, or None
          paid,      \* paid[s]: how often s was paid for
          settled    \* settled[s]: the outcome of s is recorded for good

vars == <<owner, paid, settled>>

Init ==
  /\ owner = [s \in Subjects |-> None]
  /\ paid = [s \in Subjects |-> 0]
  /\ settled = [s \in Subjects |-> FALSE]

Claim(s, c) ==
  /\ owner[s] = None
  /\ owner' = [owner EXCEPT ![s] = c]
  /\ UNCHANGED <<paid, settled>>

\* A payer that was granted the subject may still be on its way when somebody
\* else settles it from the ledger, so paying does not require ~settled[s].
Pay(s) ==
  /\ owner[s] # None
  /\ paid[s] = 0
  /\ paid' = [paid EXCEPT ![s] = 1]
  /\ UNCHANGED <<owner, settled>>

Settle(s) ==
  /\ owner[s] # None
  /\ settled' = [settled EXCEPT ![s] = TRUE]
  /\ UNCHANGED <<owner, paid>>

Next ==
  \E s \in Subjects :
    \/ \E c \in Claims : Claim(s, c)
    \/ Pay(s)
    \/ Settle(s)

Spec == Init /\ [][Next]_vars
=============================================================================
