--------------------------- MODULE AbstractConfig ---------------------------
(***************************************************************************)
(* What the configuration cache promises: a register for each place a      *)
(* configuration comes from, written once, and callers who only ever get   *)
(* what is in it.                                                          *)
(***************************************************************************)
CONSTANTS Place, Unset

VARIABLES
  register,  \* what each place holds, Unset at first
  returned   \* the pairs <<place, answer>> that callers have got

Init ==
  /\ register = [s \in Place |-> Unset]
  /\ returned = {}

Write(s, answer) ==
  /\ register[s] = Unset
  /\ answer # Unset
  /\ register' = [register EXCEPT ![s] = answer]
  /\ UNCHANGED returned

Read(s) ==
  /\ register[s] # Unset
  /\ returned' = returned \cup {<<s, register[s]>>}
  /\ UNCHANGED register

Next == \E s \in Place : (\E answer \in {register'[s]} : Write(s, answer)) \/ Read(s)

Spec == Init /\ [][Next]_<<register, returned>>
=============================================================================
