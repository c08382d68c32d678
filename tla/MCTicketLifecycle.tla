------------------------- MODULE MCTicketLifecycle -------------------------
(***************************************************************************)
(* TicketLifecycle in two settings.  One ticket for which everything may   *)
(* happen at any time is the module's own constants; two tickets where     *)
(* what begins waits for what is in progress are an instance.              *)
(***************************************************************************)
EXTENDS TicketLifecycle, TLC

CONSTANTS x1, x2, p1

VARIABLE setting

OneTicket    == {x1}
OnePromotion == {p1}
Races        == {"interfere", "manual_scan"}

Apart == INSTANCE TicketLifecycle WITH Tickets <- {x1, x2},
             Environment <- {"manual_scan"}

\* The two tickets are interchangeable where there are two.
Symmetric == Permutations({x1, x2})

InitSettings ==
    \/ setting = "races" /\ Init
    \/ setting = "apart" /\ Apart!Init

NextSettings ==
    /\ UNCHANGED setting
    /\ \/ setting = "races" /\ Next
       \/ setting = "apart" /\ Apart!Next

SpecSettings == InitSettings /\ [][NextSettings]_<<setting, vars>>
=============================================================================
