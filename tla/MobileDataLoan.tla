--------------------------- MODULE MobileDataLoan ---------------------------
(***************************************************************************)
(* What mobiledata_control.py promises, without how it keeps it: at most   *)
(* one cellular service is on for the daemons' sake, only the actor that   *)
(* holds the window lends it, and a holder that finds something lent gives *)
(* it back before it lends anything itself.                                *)
(***************************************************************************)
CONSTANTS Actors, Services, None

VARIABLES
  loan,    \* services that are on because a daemon switched them on
  holder   \* the actor in the enable..restore window, or None

loanVars == <<loan, holder>>

Init == loan = {} /\ holder = None

Take(a) == holder = None /\ holder' = a /\ UNCHANGED loan

(* The holder's window ends, or its process does: the loan may be left. *)
GiveUp(a) == holder = a /\ holder' = None /\ UNCHANGED loan

Lend(a, s) ==
  /\ holder = a
  /\ loan = {}
  /\ loan' = {s}
  /\ UNCHANGED holder

Return(a) == holder = a /\ loan # {} /\ loan' = {} /\ UNCHANGED holder

(* The user operates the switch of what is lent: it is the user's now. *)
UserTakes(s) == s \in loan /\ loan' = loan \ {s} /\ UNCHANGED holder

Next ==
  \/ \E a \in Actors : Take(a) \/ GiveUp(a) \/ Return(a)
  \/ \E a \in Actors, s \in Services : Lend(a, s)
  \/ \E s \in Services : UserTakes(s)

Spec == Init /\ [][Next]_loanVars

=============================================================================
