------------------------------ MODULE PwmOutput ------------------------------
(***************************************************************************)
(* What software PWM promises about the output pins of a Raspberry Pi,     *)
(* without records, lists, locks or times: drivers write a pin, one of     *)
(* them owns it, and one that was told to leave lowers the pin for the     *)
(* last time and is gone.                                                  *)
(***************************************************************************)
CONSTANTS Gpios, Drivers, None

VARIABLES
  drives,    (* the pin each driver works on, None while there is none      *)
  leaving,   (* drivers that were told to leave                             *)
  pin        (* the level of each pin                                       *)

vars == <<drives, leaving, pin>>

Init ==
  /\ drives = [d \in Drivers |-> None]
  /\ leaving = {}
  /\ pin = [g \in Gpios |-> 0]

(* A pin gets a driver when nobody but leaving drivers works on it.         *)
Start(d, g) ==
  /\ drives[d] = None
  /\ \A e \in Drivers \ leaving : drives[e] # g
  /\ drives' = [drives EXCEPT ![d] = g]
  /\ UNCHANGED <<leaving, pin>>

(* A leaving driver may be in the middle of a pulse and write once more.    *)
Write(d, level) ==
  /\ drives[d] # None
  /\ pin' = [pin EXCEPT ![drives[d]] = level]
  /\ UNCHANGED <<drives, leaving>>

Stop(d) ==
  /\ drives[d] # None /\ d \notin leaving
  /\ leaving' = leaving \cup {d}
  /\ UNCHANGED <<drives, pin>>

Leave(d) ==
  /\ d \in leaving
  /\ pin' = [pin EXCEPT ![drives[d]] = 0]
  /\ drives' = [drives EXCEPT ![d] = None]
  /\ leaving' = leaving \ {d}

Next ==
  \E d \in Drivers : \/ \E g \in Gpios : Start(d, g)
                     \/ \E level \in {0, 1} : Write(d, level)
                     \/ Stop(d) \/ Leave(d)

Spec == Init /\ [][Next]_vars /\ \A d \in Drivers : WF_vars(Leave(d))

=============================================================================
