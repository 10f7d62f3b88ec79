--------------------------- MODULE RequestLedger ----------------------------
(***************************************************************************)
(* What the HRIL promises its client about a request: it is refused at     *)
(* once, or it is open until the vendor library reports on it; then it is  *)
(* withdrawn, once, and after that the client is told, once, or never.     *)
(* The promise ends with a fault.                                          *)
(***************************************************************************)
EXTENDS Naturals

CONSTANT Serials

VARIABLES status, told, fault

Status == {"unasked", "open", "withdrawn", "settled"}

Init == /\ status = [s \in Serials |-> "unasked"]
        /\ told = [s \in Serials |-> 0]
        /\ fault = FALSE

Ask(s) == /\ status[s] = "unasked"
          /\ status' = [status EXCEPT ![s] = "open"]
          /\ UNCHANGED told

Refuse(s) == /\ status[s] = "unasked"
             /\ status' = [status EXCEPT ![s] = "settled"]
             /\ \E n \in {0, 1} : told' = [told EXCEPT ![s] = n]

Withdraw(s) == /\ status[s] = "open"
               /\ status' = [status EXCEPT ![s] = "withdrawn"]
               /\ UNCHANGED told

Settle(s) == /\ status[s] = "withdrawn"
             /\ status' = [status EXCEPT ![s] = "settled"]
             /\ \E n \in {0, 1} : told' = [told EXCEPT ![s] = n]

Fault == fault'

Next == \/ /\ \E s \in Serials : Ask(s) \/ Refuse(s) \/ Withdraw(s) \/ Settle(s)
           /\ ~fault /\ ~fault'
        \/ Fault

vars == <<status, told, fault>>
Spec == Init /\ [][Next]_vars
=============================================================================
