------------------------------ MODULE MCStorage ------------------------------
(* An instance of Storage for TLC.  The start-up sequences are those of the *)
(* kernel, of installer and bootloader, and one that asks for mass storage  *)
(* again once there is a disk.  Machines have up to two functions.          *)
EXTENDS Storage

MCStarts == {<<"pcie", "xhci", "ms if xhci">>, <<"pcie", "xhci", "ms", "sata">>,
             <<"pcie", "xhci", "ms", "sata", "ms", "ms">>}

Fn(x, b, c, near) == [xhci |-> x, bar |-> b, cap |-> c, near |-> near]
Usual  == Fn(TRUE, TRUE, 2, TRUE)
Short  == Fn(TRUE, TRUE, 1, TRUE)
NoBar  == Fn(TRUE, FALSE, 2, TRUE)
Far    == Fn(TRUE, TRUE, 2, FALSE)
Other  == Fn(FALSE, TRUE, 0, TRUE)
MCMachines == {<<>>, <<Short>>, <<NoBar, Usual>>, <<Other, Far>>, <<Short, Usual>>}
=============================================================================
