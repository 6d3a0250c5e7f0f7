---------------------------------- MODULE E1000e ----------------------------------
(***************************************************************************)
(* The driver of the Intel e1000e network controller and the two descriptor    *)
(* rings it shares with the hardware.  The hardware owns the descriptors from  *)
(* its head up to, and not including, the tail the driver writes.  A frame is  *)
(* a number; 0 is whatever an unprepared buffer holds.                         *)
(***************************************************************************)
EXTENDS Integers, Sequences, FiniteSets

CONSTANTS RX_BUFFERS, TX_BUFFERS,   \* descriptors in each ring
          MaxArrivals, MaxSends,    \* bounds: frames on the wire, calls to send_frame
          FrameKinds                \* how frames arrive: subset of {"good", "bad", "part"}

VARIABLES nic_phase,    \* how far init has come
          nic_regs,     \* RDH, RDT, TDH, TDT
          nic_rx, nic_tx,   \* descriptors with the frame in their buffer
          nic_curr,     \* rx_curr and tx_curr
          nic_msix,     \* capability used for the interrupt
          nic_irq,      \* an interrupt is pending
          nic_count,    \* frames delivered to memory, consumed, accepted for sending
          nic_wire      \* frames the hardware transmitted
nicVars == <<nic_phase, nic_regs, nic_rx, nic_tx, nic_curr, nic_msix, nic_irq, nic_count, nic_wire>>

RxIndex == 0..RX_BUFFERS - 1
TxIndex == 0..TX_BUFFERS - 1

Owned(head, tail, n) == {(head + k) % n : k \in 0..((tail - head) % n) - 1}

NewRx == [done |-> FALSE, kind |-> "none", frame |-> 0]
NewTx == [done |-> TRUE, report |-> FALSE, frame |-> 0]

NicInit ==
    /\ nic_phase = "down" /\ nic_msix = "unknown" /\ nic_irq = FALSE
    /\ nic_regs = [rdh |-> 0, rdt |-> 0, tdh |-> 0, tdt |-> 0]
    /\ nic_rx = [i \in RxIndex |-> NewRx]
    /\ nic_tx = [i \in TxIndex |-> NewTx]
    /\ nic_curr = [rx |-> 0, tx |-> 0]
    /\ nic_count = [arrived |-> 0, consumed |-> 0, accepted |-> 0, calls |-> 0]
    /\ nic_wire = <<>>

\* BufferSet::new and reset: a frame for every buffer; a transmit descriptor starts done.
NicSetup ==
    /\ nic_phase = "down"
    /\ nic_rx' = [i \in RxIndex |-> NewRx]
    /\ nic_tx' = [i \in TxIndex |-> NewTx]
    /\ nic_phase' = "reset"
    /\ UNCHANGED <<nic_regs, nic_curr, nic_msix, nic_irq, nic_count, nic_wire>>

ConfigureDescriptors ==
    /\ nic_phase = "reset"
    /\ nic_regs' = [rdh |-> 0, rdt |-> RX_BUFFERS - 1, tdh |-> 0, tdt |-> TX_BUFFERS - 1]
    /\ nic_curr' = [rx |-> 0, tx |-> 0]
    /\ nic_phase' = "configured"
    /\ UNCHANGED <<nic_rx, nic_tx, nic_msix, nic_irq, nic_count, nic_wire>>

\* MSI-X is preferred to MSI; a controller with neither stops the kernel.
EnableInt ==
    /\ nic_phase = "configured"
    /\ \E caps \in SUBSET {"msix", "msi"} :
         /\ nic_msix' = IF "msix" \in caps THEN "msix" ELSE IF "msi" \in caps THEN "msi" ELSE "none"
         /\ nic_phase' = IF caps = {} THEN "panic" ELSE "unmasked"
    /\ UNCHANGED <<nic_regs, nic_rx, nic_tx, nic_curr, nic_irq, nic_count, nic_wire>>

\* The static the interrupt handler locks gets its value last.
PublishNic ==
    /\ nic_phase = "unmasked" /\ nic_phase' = "up"
    /\ UNCHANGED <<nic_regs, nic_rx, nic_tx, nic_curr, nic_msix, nic_irq, nic_count, nic_wire>>

\* nic_interrupt_handler: with_locked panics while the static has no value.
NicInterrupt ==
    /\ nic_irq /\ nic_phase \in {"unmasked", "up"}
    /\ nic_irq' = FALSE
    /\ nic_phase' = IF nic_phase = "up" THEN "up" ELSE "panic"
    /\ UNCHANGED <<nic_regs, nic_rx, nic_tx, nic_curr, nic_msix, nic_count, nic_wire>>

---------------------------------------------------------------------------
NicOn == nic_phase \in {"configured", "unmasked", "up"}

\* The hardware, once RCTL and TCTL enable it.
HwReceive(kind) ==
    /\ NicOn /\ nic_count.arrived < MaxArrivals
    /\ nic_regs.rdh \in Owned(nic_regs.rdh, nic_regs.rdt, RX_BUFFERS)
    /\ nic_rx' = [nic_rx EXCEPT ![nic_regs.rdh] =
                    [done |-> TRUE, kind |-> kind, frame |-> nic_count.arrived + 1]]
    /\ nic_regs' = [nic_regs EXCEPT !.rdh = (@ + 1) % RX_BUFFERS]
    /\ nic_count' = [nic_count EXCEPT !.arrived = @ + 1]
    /\ nic_irq' = TRUE
    /\ UNCHANGED <<nic_phase, nic_tx, nic_curr, nic_msix, nic_wire>>

HwTransmit ==
    /\ NicOn
    /\ nic_regs.tdh \in Owned(nic_regs.tdh, nic_regs.tdt, TX_BUFFERS)
    /\ LET d == nic_tx[nic_regs.tdh] IN
         /\ nic_wire' = IF d.report THEN Append(nic_wire, d.frame) ELSE nic_wire
         /\ nic_tx' = [nic_tx EXCEPT ![nic_regs.tdh].done = @ \/ d.report]
         /\ nic_irq' = (nic_irq \/ d.report)
    /\ nic_regs' = [nic_regs EXCEPT !.tdh = (@ + 1) % TX_BUFFERS]
    /\ UNCHANGED <<nic_phase, nic_rx, nic_curr, nic_msix, nic_count>>

---------------------------------------------------------------------------
\* poll_frame gives the buffer of the current descriptor.
Pollable(i) == nic_rx[i].done /\ nic_rx[i].kind = "good"

\* Mutant: the descriptor goes back to the hardware without a reset.
ConsumeFrameUncleared ==
    /\ nic_phase = "up" /\ Pollable(nic_curr.rx)
    /\ nic_curr' = [nic_curr EXCEPT !.rx = (@ + 1) % RX_BUFFERS]
    /\ nic_regs' = [nic_regs EXCEPT !.rdt = (nic_curr.rx + 1) % RX_BUFFERS]
    /\ nic_count' = [nic_count EXCEPT !.consumed = @ + 1]
    /\ UNCHANGED <<nic_phase, nic_rx, nic_tx, nic_msix, nic_irq, nic_wire>>

\* consume_frame, after a frame was polled and processed.
ConsumeFrame ==
    /\ nic_phase = "up" /\ Pollable(nic_curr.rx)
    /\ nic_rx' = [nic_rx EXCEPT ![nic_curr.rx] = NewRx]
    /\ nic_curr' = [nic_curr EXCEPT !.rx = (@ + 1) % RX_BUFFERS]
    /\ nic_regs' = [nic_regs EXCEPT !.rdt = (nic_curr.rx + 1) % RX_BUFFERS]
    /\ nic_count' = [nic_count EXCEPT !.consumed = @ + 1]
    /\ UNCHANGED <<nic_phase, nic_tx, nic_msix, nic_irq, nic_wire>>

\* send_frame: a frame of an invalid size, or one that finds no free descriptor, is dropped.
SendFrame(valid) ==
    LET take == valid /\ nic_tx[nic_curr.tx].done IN
    /\ nic_phase = "up" /\ nic_count.calls < MaxSends
    /\ nic_count' = [nic_count EXCEPT !.calls = @ + 1, !.accepted = @ + (IF take THEN 1 ELSE 0)]
    /\ IF take
         THEN /\ nic_tx' = [nic_tx EXCEPT ![nic_curr.tx] =
                              [done |-> FALSE, report |-> TRUE, frame |-> nic_count.accepted + 1]]
              /\ nic_curr' = [nic_curr EXCEPT !.tx = (@ + 1) % TX_BUFFERS]
              /\ nic_regs' = [nic_regs EXCEPT !.tdt = (nic_curr.tx + 1) % TX_BUFFERS]
         ELSE UNCHANGED <<nic_tx, nic_curr, nic_regs>>
    /\ UNCHANGED <<nic_phase, nic_rx, nic_msix, nic_irq, nic_wire>>

NicNext ==
    \/ NicSetup \/ ConfigureDescriptors \/ EnableInt \/ PublishNic \/ NicInterrupt
    \/ (\E kind \in FrameKinds : HwReceive(kind))
    \/ HwTransmit \/ ConsumeFrame
    \/ \E valid \in BOOLEAN : SendFrame(valid)

---------------------------------------------------------------------------
Pending(f) == {i \in TxIndex : ~nic_tx[i].done /\ nic_tx[i].frame = f}

\* The buffer poll_frame hands out is not the hardware's, and holds the oldest frame not
\* yet consumed; a frame send_frame accepted is on the wire once, or waits in one buffer,
\* whatever the hardware transmits of the descriptors it was given at start-up.
NicBuffersAreExclusive ==
    /\ nic_phase = "up" /\ Pollable(nic_curr.rx) =>
         /\ nic_curr.rx \notin Owned(nic_regs.rdh, nic_regs.rdt, RX_BUFFERS)
         /\ nic_rx[nic_curr.rx].frame = nic_count.consumed + 1
    /\ \A f \in 1..nic_count.accepted :
         Cardinality(Pending(f)) + Cardinality({k \in DOMAIN nic_wire : nic_wire[k] = f}) = 1

\* With every frame consumed, their buffers are the hardware's again.
ConsumedBuffersAreReleased ==
    nic_phase = "up" /\ nic_count.consumed = nic_count.arrived =>
      Owned(nic_regs.rdh, nic_regs.rdt, RX_BUFFERS) # {}
====================================================================================
