------------------------------ MODULE MCNetplay ------------------------------
(* The default of NetworkControl: the server plays with joystick 2, the     *)
(* client with joystick 1 (network.h:43-51).                                *)
EXTENDS Netplay

MCControl == [s \in Sides |-> IF s = "server" THEN {"JOY2"} ELSE {"JOY1"}]

\* Two inputs and one trouble, or one input and two troubles.
MCBudgets ==
    {[inputs |-> i, connects |-> 2, troubles |-> 3 - i] : i \in {1, 2}}
=============================================================================
