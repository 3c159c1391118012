------------------------------- MODULE DmaDrv -------------------------------
(***************************************************************************)
(* The registers of one DMA controller that drivers/inc/hpm_dma_drv.h,     *)
(* hpm_dmav2_drv.h and their dma_setup_channel work on.                    *)
(*                                                                         *)
(* The interrupt status is write-one-to-clear, a bit per event and channel *)
(* (soc/ip/hpm_dma_regs.h l.186-225).  It is modelled as the set of its    *)
(* one bits <<event, channel, session>>; the session that started the      *)
(* transfer which raised the bit is a tag no driver can see.               *)
(***************************************************************************)
EXTENDS Integers

CONSTANTS
    Event        \* the events a channel reports: some of "tc", "half",
                 \* "error", "abort" (only the v2 controller has "half")

\* Writing a register whose bits are write-one-to-clear.
W1C(reg, written) == reg \ written

\* The bits of one channel.
Bits(reg, c) == {b \in reg : b[2] = c}

\* dma_check_transfer_status reports the events of the channel and clears
\* them.
CheckEvents(reg, c) == {b[1] : b \in Bits(reg, c)}
CheckClears(reg, c) == W1C(reg, Bits(reg, c))

\* The controller reports an event: a bit that is one already stays as it is.
Report(reg, e, c, session) ==
    IF e \in CheckEvents(reg, c) THEN reg ELSE reg \cup {<<e, c, session>>}

\* Mutants: the shift by the channel number forgotten, so that every channel
\* is cleared; a set-up that clears nothing.
SetupClearsAll(reg, c) == {}
SetupClearsNone(reg, c) == reg

\* dma_setup_channel clears the channel before it writes its control.
SetupClears(reg, c) == W1C(reg, Bits(reg, c))

\* dma_clear_transfer_status of hpm_dma_drv.h: INTSTATUS &= ~(the channel's
\* bits), that is, every other bit that reads one is written back.  (hpm_dmav2_drv.h
\* writes the bits of the channel alone.)
ClearStatusV1(reg, c) == W1C(reg, reg \ Bits(reg, c))

-----------------------------------------------------------------------------
\* CTRL: the enable bit and the set of masked events.
Ctrl == [enable : BOOLEAN, mask : SUBSET Event]

\* dma_setup_channel writes CTRL with the enable bit zero.
SetupCtrl(m) == [enable |-> FALSE, mask |-> m]

\* dma_enable_channel_interrupt and dma_disable_channel_interrupt: what they
\* write back, from the CTRL they read.
UnmaskCtrl(ctrl, m) == [ctrl EXCEPT !.mask = @ \ m]
MaskCtrl(ctrl, m)   == [ctrl EXCEPT !.mask = @ \cup m]

\* dma_enable_channel, dma_disable_channel.
EnableCtrl(ctrl)  == [ctrl EXCEPT !.enable = TRUE]
DisableCtrl(ctrl) == [ctrl EXCEPT !.enable = FALSE]
=============================================================================
