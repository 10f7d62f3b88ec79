---------------------------- MODULE CommandSlot ----------------------------
(***************************************************************************)
(* What the AT channel promises its callers: a single slot.  A call either *)
(* takes the free slot or is refused; only the thread in the slot gives it *)
(* back, and every call is answered exactly once, under its own number.    *)
(***************************************************************************)
EXTENDS Integers

CONSTANTS Senders, Nobody

VARIABLES
  holder,  \* the thread whose command is outstanding, or Nobody
  next,    \* number of the last call
  call,    \* number of the last call of each thread
  reply    \* the last reply to each thread

vars == <<holder, next, call, reply>>

Init ==
  /\ holder = Nobody
  /\ next = 0
  /\ call = [s \in Senders |-> 0]
  /\ reply = [s \in Senders |-> [id |-> 0, err |-> "none"]]

Number(s) ==
  /\ next' = next + 1
  /\ call' = [call EXCEPT ![s] = next + 1]

Answer(s, n, errors) ==
  \E e \in errors : reply' = [reply EXCEPT ![s] = [id |-> n, err |-> e]]

Accept(s) ==
  /\ holder = Nobody
  /\ holder' = s
  /\ Number(s)
  /\ UNCHANGED reply

(* A call is refused as pending exactly when the slot is taken.            *)
Refuse(s) ==
  /\ holder # s
  /\ Number(s)
  /\ \/ holder = Nobody /\ Answer(s, next + 1, {"closed", "generic"})
     \/ holder # Nobody /\ Answer(s, next + 1, {"pending"})
  /\ UNCHANGED holder

Complete(s) ==
  /\ holder = s
  /\ holder' = Nobody
  /\ Answer(s, call[s], {"success", "timeout", "closed"})
  /\ UNCHANGED <<next, call>>

Next == \E s \in Senders : Accept(s) \/ Refuse(s) \/ Complete(s)

Spec == Init /\ [][Next]_vars
=============================================================================
