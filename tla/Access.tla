------------------------------- MODULE Access -------------------------------
(* What the server promises the door: two approvals, of a card and of a      *)
(* login, are given in any order; an opening needs both and uses both up, so *)
(* that no two openings share an approval.  It takes the login's first and   *)
(* the card's after it; a login accepted in between counts for the next      *)
(* opening, a card cannot be.  A restart forgets approvals.                  *)
EXTENDS Naturals

VARIABLES
    card_ok,   \* an accepted card has not been used by an opening
    login_ok,  \* an accepted login has not been used by an opening
    opening,   \* an opening has used its login and not yet its card
    bell       \* flips at each opening

access_vars == <<card_ok, login_ok, opening, bell>>

Init ==
    /\ card_ok = FALSE
    /\ login_ok = FALSE
    /\ opening = FALSE
    /\ bell = 0

AcceptCard ==
    /\ ~opening
    /\ card_ok' = TRUE
    /\ UNCHANGED <<login_ok, opening, bell>>

AcceptLogin ==
    /\ login_ok' = TRUE
    /\ UNCHANGED <<card_ok, opening, bell>>

Open ==
    /\ ~opening
    /\ card_ok /\ login_ok
    /\ login_ok' = FALSE
    /\ opening' = TRUE
    /\ bell' = 1 - bell
    /\ UNCHANGED card_ok

UseCard ==
    /\ opening
    /\ card_ok
    /\ card_ok' = FALSE
    /\ opening' = FALSE
    /\ UNCHANGED <<login_ok, bell>>

Restart ==
    /\ card_ok' = FALSE
    /\ login_ok' = FALSE
    /\ opening' = FALSE
    /\ UNCHANGED bell

Next == AcceptCard \/ AcceptLogin \/ Open \/ UseCard \/ Restart

Spec == Init /\ [][Next]_access_vars
=============================================================================
