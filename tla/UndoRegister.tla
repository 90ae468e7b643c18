---------------------------- MODULE UndoRegister ----------------------------
(***************************************************************************)
(* What a local merge transaction promises to callers that take turns: one *)
(* register that is compared and swapped, and a log of receipts, each of   *)
(* which undoes its own swap and nothing else.                             *)
(***************************************************************************)
CONSTANTS
  Swappable(_, _),  \* may the first value be replaced by the second one
  Foreign           \* the values others put into the register

VARIABLES
  reg,   \* the register
  log    \* the receipts: a function from some names to [before, after]

\* A receipt is written before its swap, against the value it is to replace.
Intend ==
  /\ \E r \in DOMAIN log' \ DOMAIN log :
       /\ DOMAIN log' = DOMAIN log \cup {r}
       /\ log'[r].before = reg
       /\ Swappable(reg, log'[r].after)
  /\ \A r \in DOMAIN log : log'[r] = log[r]
  /\ reg' = reg

Swap == /\ \E r \in DOMAIN log : reg = log[r].before /\ reg' = log[r].after
        /\ log' = log

Undo == /\ \E r \in DOMAIN log : reg = log[r].after /\ reg' = log[r].before
        /\ log' = log

Edit == /\ reg' \in Foreign
        /\ log' = log

Next == Intend \/ Swap \/ Undo \/ Edit
=============================================================================
