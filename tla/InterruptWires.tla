--------------------------- MODULE InterruptWires ---------------------------
(***************************************************************************)
(* What an interrupt status stands for: the two open-collector wires of a   *)
(* 6502.  Every source may pull either wire.  The IRQ wire is low as long   *)
(* as any source pulls it; the fall of the NMI wire sets a latch that only  *)
(* serving the NMI clears.  No counters, no flags to keep in step.          *)
(***************************************************************************)
CONSTANT Lines

VARIABLES
    irq,       \* the sources that pull the IRQ wire
    nmi,       \* the sources that pull the NMI wire
    irqLow,    \* what the CPU sees of the IRQ wire
    edge       \* the NMI latch

vars == <<irq, nmi, irqLow, edge>>

Init == irq = {} /\ nmi = {} /\ ~irqLow /\ ~edge

Irq(wires) == irq' = wires /\ irqLow' = (wires # {})

Nmi(wires) ==
    /\ nmi' = wires
    /\ edge' = (edge \/ (nmi = {} /\ wires # {}))

(* A source changes its two lines; a reset releases all of them.            *)
Change(l, i, n) ==
    /\ Irq(IF i THEN irq \cup {l} ELSE irq \ {l})
    /\ Nmi(IF n THEN nmi \cup {l} ELSE nmi \ {l})

ServeNmi == edge /\ ~edge' /\ UNCHANGED <<irq, nmi, irqLow>>

Reset == irq' = {} /\ nmi' = {} /\ ~irqLow' /\ ~edge'

Next ==
    \/ \E l \in Lines, i, n \in BOOLEAN : Change(l, i, n)
    \/ ServeNmi
    \/ Reset

Spec == Init /\ [][Next]_vars
=============================================================================
