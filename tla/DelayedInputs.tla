---------------------------- MODULE DelayedInputs ----------------------------
(***************************************************************************)
(* What two linked emulators promise each other: both machines get the same *)
(* inputs in the same order in the same frame.  What a player does in a     *)
(* frame takes effect on both machines together with what the other player  *)
(* did in that frame, the first player's inputs before the second's, and    *)
(* exactly Delay frames after it was begun.                                 *)
(***************************************************************************)
EXTENDS Naturals, Sequences

CONSTANTS
    First,     \* the emulator whose inputs come first on both machines
    Second,    \* the other one
    Delay,     \* in frames
    Frames     \* what a player may do in a frame

Sides == {First, Second}

VARIABLES
    made,      \* made[s]: what the player at s did, frame by frame
    applied    \* applied[s]: what the machine at s got, frame by frame

vars == <<made, applied>>

Init ==
    /\ made = [s \in Sides |-> <<>>]
    /\ applied = [s \in Sides |-> <<>>]

\* The player at s has played another frame.
Make(s) ==
    /\ Len(made[s]) < Len(applied[s]) + Delay
    /\ Len(made'[s]) = Len(made[s]) + 1
    /\ LET f == made'[s][Len(made[s]) + 1]
       IN  f \in Frames /\ made' = [made EXCEPT ![s] = Append(@, f)]
    /\ UNCHANGED applied

\* The machine at s gets what both players did in the next frame.
Apply(s) ==
    LET k == Len(applied[s]) + 1
    IN  /\ Len(made[s]) = Len(applied[s]) + Delay
        /\ \A p \in Sides : k <= Len(made[p])
        /\ applied' = [applied EXCEPT ![s] = Append(@, <<made[First][k], made[Second][k]>>)]
        /\ UNCHANGED made

\* The emulators are linked anew.
Restart == Init'

Next == Restart \/ \E s \in Sides : Make(s) \/ Apply(s)

Spec == Init /\ [][Next]_vars
=============================================================================
