---------------------------- MODULE MCUartModule ----------------------------
(* Two commands, one of which restarts the module; short rings whose        *)
(* pointers wrap after two rounds.  The shipped build, in which the UART    *)
(* may be faster than the main loop, and one with power management.         *)
EXTENDS UartModule

CONSTANTS c1, rst

MCCmd == {c1, rst}

Shipped == [rxNum |-> 3, txNum |-> 1, ptrMod |-> 6, ahead |-> 2, cmd |-> {c1, rst},
            pm |-> FALSE, slowUart |-> FALSE]
LowPower == [rxNum |-> 2, txNum |-> 2, ptrMod |-> 4, ahead |-> 1, cmd |-> {rst},
             pm |-> TRUE, slowUart |-> TRUE]

MCBuilds == {Shipped, LowPower}
=============================================================================
