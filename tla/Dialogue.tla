------------------------------ MODULE Dialogue ------------------------------
(***************************************************************************)
(* What an interview should be: the host asks, the guest answers that      *)
(* question once, the host hears that answer and asks the next.  Either    *)
(* may put an end to it at any time.                                       *)
(***************************************************************************)
EXTENDS Naturals, Sequences

CONSTANT MaxTurns

VARIABLES
  turn,     \* the question the host is at
  phase,    \* where that question stands
  heard     \* for each question so far, the question that was answered

vars == <<turn, phase, heard>>

Phases == {"unasked", "asked", "answered", "wrapping_up", "over"}

Init == turn = 1 /\ phase = "unasked" /\ heard = <<>>

Ask ==
  /\ phase = "unasked"
  /\ phase' = "asked"
  /\ UNCHANGED <<turn, heard>>

Answer ==
  /\ phase = "asked"
  /\ phase' = "answered"
  /\ UNCHANGED <<turn, heard>>

Hear ==
  /\ phase = "answered"
  /\ heard' = Append(heard, turn)
  /\ IF turn = MaxTurns
     THEN phase' = "wrapping_up" /\ UNCHANGED turn
     ELSE phase' = "unasked" /\ turn' = turn + 1

End ==
  /\ phase # "over"
  /\ phase' = "over"
  /\ UNCHANGED <<turn, heard>>

Next == Ask \/ Answer \/ Hear \/ End

Spec == Init /\ [][Next]_vars
=============================================================================
