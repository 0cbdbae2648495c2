------------------------------- MODULE MCGui -------------------------------
(* An instance of Gui for TLC: a screen of 16 by 16, on which the start     *)
(* button is two steps from where the pointer starts, the menu's buttons    *)
(* one, and a mouse that reports a few motions, clicks and extremes.        *)
EXTENDS Gui

Report(dx, dy, btn) == <<8 + btn + (IF dx < 0 THEN 16 ELSE 0) + (IF dy < 0 THEN 32 ELSE 0),
                         dx % 256, dy % 256>>

MCPackets == {Report(-6, -6, 1), Report(3, 3, 1), Report(127, -128, 2)}
=============================================================================
