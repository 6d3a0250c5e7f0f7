------------------------------ MODULE MCDevices ------------------------------
(***************************************************************************)
(* The kernel around its cores and devices: the sleep queues, the start of the  *)
(* other cores, the clock, ACPI and the APICs, the PS/2 keyboard, the network    *)
(* card and the packets, NVMe, and in user space the terminal and buffered       *)
(* streams.  The components share no state, so a behaviour is about one of them, *)
(* its subject; the variables of the others are parked.                         *)
(***************************************************************************)
EXTENDS SleepQueues, SmpBoot, Clock, Apic, Keyboard, Net, E1000e, Nvme, Tty, UserIo

CONSTANTS Subjects, b0, a1, a2

VARIABLE subject

deviceVars == <<subject, sleepVars, smpVars, clockVars, apicVars, kbdVars, netVars, nicVars, nvmeVars,
                ttyVars, userIoVars>>

Park1(u) == u = 0
Park2(u, v) == u = 0 /\ v = 0
Park4(u, v, w, x) == Park2(u, v) /\ Park2(w, x)

DevicesInit ==
    /\ subject \in Subjects
    /\ SleepInit
    /\ IF subject = "smp" THEN SmpInit
       ELSE /\ Park4(sb_isos, sb_count, sb_id, sb_table) /\ Park4(sb_once, sb_slot, sb_stacks, sb_stack)
            /\ Park4(sb_tramp, sb_fence, sb_seen, sb_idx) /\ Park4(sb_idt, sb_ioapic, sb_running, sb_spawned)
            /\ Park1(sb_pc)
    /\ IF subject = "clock" THEN ClockInit
       ELSE /\ Park4(clk_m, clk_acpi, clk_hpet, clk_tsc) /\ Park4(clk_mhz, clk_rate, clk_t, clk_pc)
            /\ Park2(clk_start, clk_ms) /\ Park1(clk_end)
    /\ IF subject = "apic" THEN ApicInit
       ELSE /\ Park4(ac_fw, ac_pc, ac_rev, ac_i) /\ Park2(ac_madt, ac_fadt) /\ Park1(ac_spaces)
            /\ Park4(ap_lint, ap_up, ap_red, ap_next) /\ Park4(ap_vec, ap_icr, ap_asked, ap_sent)
    /\ IF subject = "keyboard" THEN KbdInit
       ELSE /\ Park4(kb_pc, kb_cfg, kb_config, kb_wire) /\ Park4(kb_obf, kb_last, kb_irq, kb_set)
            /\ Park4(kb_arg, kb_try, kb_ext, kb_queue) /\ Park4(kb_shell, kb_typed, kb_seen, kb_lost)
            /\ Park2(kb_handled, kb_clean)
    /\ IF subject = "packets" THEN NetInit ELSE Park2(net_buf, net_sent) /\ Park1(net_stage)
    /\ IF subject = "nic" THEN NicInit
       ELSE /\ Park4(nic_phase, nic_regs, nic_rx, nic_tx) /\ Park4(nic_curr, nic_msix, nic_irq, nic_count)
            /\ Park1(nic_wire)
    /\ IF subject = "nvme" THEN NvmeInit
       ELSE /\ Park4(nv_cap, nv_pc, nv_left, nv_queue) /\ Park4(nv_buffer, nv_cc, nv_up, nv_sq)
            /\ Park4(nv_cq, nv_dev, nv_bell, nv_io) /\ Park4(nv_id, nv_wait, nv_done, nv_max)
    /\ IF subject = "tty" THEN TtyInit
       ELSE /\ Park4(tt_cells, tt_shown, tt_row, tt_col) /\ Park4(tt_start, tt_rendered, tt_buf, tt_pos)
            /\ Park2(tt_mods, tt_drawn) /\ Park1(tt_pc)
    /\ IF subject = "streams" THEN UserIoInit
       ELSE /\ Park4(u_stream, ur_pos, ur_buf, ur_got) /\ Park4(uw_pos, uw_file, uw_buf, uw_sent)
            /\ Park2(uw_call, uw_failed)

\* A step of the subject s.
Alone(s) ==
    /\ subject = s /\ UNCHANGED subject
    /\ IF s = "sleep" THEN TRUE ELSE UNCHANGED sleepVars
    /\ IF s = "smp" THEN TRUE ELSE UNCHANGED smpVars
    /\ IF s = "clock" THEN TRUE ELSE UNCHANGED clockVars
    /\ IF s = "apic" THEN TRUE ELSE UNCHANGED apicVars
    /\ IF s = "keyboard" THEN TRUE ELSE UNCHANGED kbdVars
    /\ IF s = "packets" THEN TRUE ELSE UNCHANGED netVars
    /\ IF s = "nic" THEN TRUE ELSE UNCHANGED nicVars
    /\ IF s = "nvme" THEN TRUE ELSE UNCHANGED nvmeVars
    /\ IF s = "tty" THEN TRUE ELSE UNCHANGED ttyVars
    /\ IF s = "streams" THEN TRUE ELSE UNCHANGED userIoVars

DevicesNext ==
    \/ Alone("sleep") /\ SleepNext
    \/ Alone("smp") /\ SmpNext
    \/ Alone("clock") /\ ClockNext
    \/ Alone("apic") /\ ApicNext
    \/ Alone("keyboard") /\ KbdNext
    \/ Alone("packets") /\ NetNext
    \/ Alone("nic") /\ NicNext
    \/ Alone("nvme") /\ NvmeNext
    \/ Alone("tty") /\ TtyNext
    \/ Alone("streams") /\ UserIoNext

DevicesSpec == DevicesInit /\ [][DevicesNext]_deviceVars

------------------------------------------------------------------------------
\* Every sleeper is in the index its reason names, so that a timer, a signal or wake_up()
\* finds it, whatever ids other wake-ups left behind.
SleepersCanBeFound == SleepTypeOK /\ EverySleeperIsIndexed

\* No core runs ahead of the boot: stacks, ids, vectors and the trampoline page are not
\* shared or freed too early, and nobody is in kmain before all are ready (ap.rs, boot.rs).
CoresStartInOrder == subject = "smp" => CoresMeetInKmain

\* A wait ends less than a millisecond early, on whichever clock time.rs chose, and the
\* APIC timer's rate is not underestimated by more than its rounding.
ClockIsAccurate == subject = "clock" => WaitLosesLessThanAMilli

\* What the firmware's MADT says is what the APICs are programmed with, whatever the order
\* of its entries, and every IPI goes to whom it was meant for.
FirmwareIsObeyed == subject = "apic" => MadtIsApplied

\* Key events reach the shell in the order of the keys, none invented or repeated; only a
\* full queue loses some (ps2.rs, keyboard.rs).
KeyEventsArrive == subject = "keyboard" => KeysComeOutAsTyped

\* A driver and its device agree on their rings: a frame buffer belongs to the driver or to
\* the card (e1000e.rs); the NVMe queues are where and as long as the controller was told,
\* and a step of its start-up follows the command it depends on (nvme.rs).
RingsAreAgreedOn ==
    /\ subject = "nic" => NicBuffersAreExclusive
    /\ subject = "nvme" => NvmeQueuesAgree

\* What goes in comes out, byte for byte: a packet parses to the header and payload it was
\* built from (holonet), a file holds what went through a buffer (beskar-lib's BufReader
\* and BufWriter), and the terminal shows the line that is edited (bashkar).
BytesComeThrough ==
    /\ subject = "packets" => PacketsParseBack
    /\ subject = "streams" => StreamsKeepTheBytes
    /\ subject = "tty" => TerminalShowsTheLine

------------------------------------------------------------------------------
\* The instance.  Cores: APIC ids as firmware numbers them.
ApicNumbers == [c \in {b0, a1, a2} |-> IF c = b0 THEN 0 ELSE IF c = a1 THEN 1 ELSE 2]

\* Machines with and without a CPUID rate, a HPET and a fast APIC timer.
Machine(t, l, h, p, q) ==
    [tsc |-> t, leaf15 |-> l, hpet |-> h, hpet_sane |-> TRUE, lapic |-> p, leaf_lapic |-> q]
SomeMachines ==
    {Machine(8, 8, 0, 4, 4), Machine(8, 0, 2, 40, 0), Machine(7, 0, 0, 60, 0), Machine(1, 0, 0, 4, 0),
     Machine(0, 0, 2, 4, 0), Machine(12, 12, 2, 100, 0), [Machine(8, 8, 2, 20, 0) EXCEPT !.hpet_sane = FALSE]}

\* MADT entries by type: processor, I/O APIC, source override, NMI source, local NMI,
\* address override, and ones the kernel skips.
MadtEntry(t, l, f) ==
    [type |-> t, len |-> l, flags |-> f, id |-> 0, acpi |-> 0, addr |-> 0, gsi |-> 0, bus |-> 0,
     source |-> 0, lint |-> 0]
Cpu(i, f) == [MadtEntry(0, 8, f) EXCEPT !.id = i, !.acpi = i + 1]
IoApicAt(base) == [MadtEntry(1, 12, 0) EXCEPT !.gsi = base, !.addr = 9]
Override(s, g, f) == [MadtEntry(2, 10, f) EXCEPT !.source = s, !.gsi = g]
NmiSource(g, f) == [MadtEntry(3, 8, f) EXCEPT !.gsi = g]
LocalNmi(a, l, f) == [MadtEntry(4, 6, f) EXCEPT !.acpi = a, !.lint = l]
ApicAddress(a) == [MadtEntry(5, 12, 0) EXCEPT !.addr = a]
SdtWith(s) == [sig |-> s, sum |-> TRUE]
GenericAddress(s, w, a, x) == [space |-> s, width |-> w, access |-> a, addr |-> x]

GoodFirmware ==
    [rsdp_rev |-> 2, rsdp_sum |-> TRUE, sdt_rev |-> 1, sdt_sig |-> "XSDT", sdt_sum |-> TRUE,
     tables |-> <<SdtWith("FACP"), SdtWith("APIC"), SdtWith("HPET"), SdtWith("MCFG")>>,
     madt |-> [paddr |-> 7, entries |-> <<Cpu(0, 1), Cpu(1, 1), Cpu(2, 0), IoApicAt(0), Override(0, 2, 0),
                                          Override(9, 3, 15), LocalNmi(255, 1, 5), ApicAddress(8)>>],
     fadt |-> [full |-> TRUE, ps2 |-> TRUE, dsdt |-> 5, x_dsdt |-> 6, pm1a |-> 100,
               x_pm1a |-> GenericAddress(1, 16, 2, 101), pm1b |-> 0, x_pm1b |-> GenericAddress(0, 0, 0, 0)],
     dsdts |-> {6}, hpet_fine |-> TRUE, mcfg |-> <<[offset |-> 0, first |-> 0, last |-> 1]>>]
WithMadt(entries) == [GoodFirmware EXCEPT !.madt.entries = entries]

\* Old, broken and incomplete tables, and MADTs with each kind of entry in odd orders.
SomeFirmwares ==
    {GoodFirmware, [GoodFirmware EXCEPT !.rsdp_rev = 0],
     [GoodFirmware EXCEPT !.rsdp_rev = 0, !.sdt_sig = "RSDT"], [GoodFirmware EXCEPT !.rsdp_sum = FALSE],
     [GoodFirmware EXCEPT !.rsdp_rev = 1], [GoodFirmware EXCEPT !.sdt_sum = FALSE],
     [GoodFirmware EXCEPT !.tables = <<SdtWith("FACP")>>],
     [GoodFirmware EXCEPT !.tables = <<SdtWith("APIC"), SdtWith("FACP")>>, !.fadt.full = FALSE, !.dsdts = {5},
                          !.fadt.pm1b = 102],
     [GoodFirmware EXCEPT !.fadt.x_pm1a.access = 0], [GoodFirmware EXCEPT !.hpet_fine = FALSE],
     [GoodFirmware EXCEPT !.dsdts = {5}],
     WithMadt(<<Cpu(0, 1), Cpu(1, 1), IoApicAt(0), Override(5, 3, 12), NmiSource(3, 13), LocalNmi(1, 0, 15),
                LocalNmi(2, 1, 0), MadtEntry(9, 16, 0), MadtEntry(10, 12, 0), MadtEntry(127, 3, 0)>>),
     WithMadt(<<Cpu(0, 1), IoApicAt(0), ApicAddress(9), ApicAddress(10), Override(4, 3, 3), Override(4, 0, 15)>>),
     WithMadt(<<Cpu(0, 1), Cpu(1, 2), IoApicAt(0)>>), WithMadt(<<Cpu(1, 1), IoApicAt(0)>>),
     WithMadt(<<Cpu(0, 1), IoApicAt(0), IoApicAt(4)>>), WithMadt(<<Cpu(0, 1), IoApicAt(0), Override(3, 3, 8)>>),
     WithMadt(<<Cpu(0, 1), MadtEntry(7, 16, 0)>>), WithMadt(<<Cpu(0, 1), LocalNmi(255, 2, 0)>>),
     WithMadt(<<Cpu(0, 1), LocalNmi(255, 1, 8)>>), WithMadt(<<Cpu(0, 1), IoApicAt(0), LocalNmi(255, 1, 2)>>),
     WithMadt(<<Cpu(0, 1), IoApicAt(0), Override(1, 1, 15)>>)}

\* The up arrow, which has a prefix, and Pause, which has two parts.
Part(p, c) == [pre |-> p, code |-> c]
TwoKeys == {<<Part(224, 72)>>, <<Part(225, 29), Part(0, 69)>>}

\* Packets of every kind, with payloads of odd and even length.
Mac1 == <<1, 2, 3, 4, 5, 6>>
Mac2 == <<17, 18, 19, 20, 21, 255>>
Address1 == <<192, 168, 0, 1>>
Address2 == <<10, 255, 255, 254>>
Header(k, f, n) == [kind |-> k, fields |-> f, payload |-> n]
SomeHeaders ==
    {Header("ethernet", [src |-> Mac1, dst |-> Mac2, ethertype |-> e], 1) : e \in {<<8, 0>>, <<134, 221>>}}
    \union {Header("arp", [op |-> o, sha |-> Mac1, spa |-> Address1, tha |-> Mac2, tpa |-> Address2], 0) :
              o \in {<<0, 1>>, <<0, 2>>}}
    \union {Header("ip", [flags |-> f, ttl |-> <<64>>, protocol |-> <<6>>, src |-> Address1, dst |-> Address2], n) :
              f \in {0, 64}, n \in {0, 3}}
    \union {Header("icmp", [type |-> <<8>>, code |-> <<0>>], n) : n \in 0..3}
    \union {Header("tcp", [src |-> <<0, 80>>, dst |-> <<18, 52>>, seq |-> <<255, 255, 255, 255>>,
                           ack |-> <<0, 0, 0, 1>>, flags |-> <<18>>, window |-> <<32, 0>>], n) : n \in 0..3}
    \union {Header("udp", [src |-> <<0, 53>>, dst |-> d], n) : n \in 0..3, d \in {<<18, 52>>, <<237, 115>>}}

\* Controllers with small and large pages and queues, and one that is not for NVM.
Controller(lo, hi, n, q, m) == [mpsmin |-> lo, mpsmax |-> hi, nvm |-> n, mqes |-> q, mdts |-> m]
SomeControllers ==
    {Controller(0, 4, TRUE, 65535, 5), Controller(0, 0, TRUE, 1, 0), Controller(1, 4, TRUE, 7, 0),
     Controller(0, 4, FALSE, 7, 0)}

\* A prompt of one character; commands that print nothing, lines, and a line that wraps.
OneCharPrompt == <<<<"Gt", FALSE>>>>
Capital == <<"A", TRUE>>
SomeOutputs == {<<>>, <<<<Capital, Capital>>, <<Newline>>>>, <<<<Capital, Newline, Capital, Capital, Capital>>>>}
==============================================================================
