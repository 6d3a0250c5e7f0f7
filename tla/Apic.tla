--------------------------------- MODULE Apic ---------------------------------
(***************************************************************************)
(* arch/x86_64/apic.rs and apic/ipi.rs: what the kernel writes to the local   *)
(* APICs and the I/O APICs once the MADT is parsed, bit for bit, and the      *)
(* inter-processor interrupts it sends afterwards.  Every core programs its   *)
(* two LINT pins; the boot processor programs the I/O APICs.                  *)
(***************************************************************************)
EXTENDS Acpi

CONSTANTS CoreApicIds,      \* CPUID's APIC ids; 0 is the boot processor
          MaxRedEnt,        \* IOAPICVER: the last redirection entry
          MAX_IOAPIC_ID,    \* 0xF
          IpiVectors,
          MaxIpis

VARIABLES ap_lint,          \* LINT0 and LINT1 of every core
          ap_red,           \* the redirection entries of every I/O APIC, as [low, high]
          ap_up,            \* the cores whose local APIC is set up
          ap_next,          \* the I/O APIC to be initialized
          ap_vec,           \* new_irq()'s counter
          ap_icr,           \* the boot processor's interrupt command register
          ap_asked, ap_sent \* IPIs asked for, and what the hardware made of the register

apicVars == <<acpiVars, ap_lint, ap_up, ap_red, ap_next, ap_vec, ap_icr, ap_asked, ap_sent>>

Reset == [low |-> 2^16, high |-> 0]     \* a redirection entry after reset: masked

ApicInit ==
    /\ AcpiStart
    /\ ap_lint = [c \in CoreApicIds |-> [k \in {0, 1} |-> 2^16]]
    /\ ap_red = [n \in 1..4 |-> [k \in 0..MaxRedEnt |-> Reset]]
    /\ ap_up = {} /\ ap_next = 1 /\ ap_vec = 32
    /\ ap_icr = Reset /\ ap_asked = <<>> /\ ap_sent = <<>>

-----------------------------------------------------------------------------
\* InterruptFlags: two bits of polarity, two of trigger mode.  The assert on the reserved
\* polarity compares with the decimal 10 and never fires.
LowActive(flags) == flags % 4 = 3
LevelTriggered(flags) == (flags \div 4) % 4 = 3
TriggerReserved(flags) == (flags \div 4) % 4 = 2
Num(b) == IF b THEN 1 ELSE 0

\* Mutant: the polarity lands in the read-only delivery status.
PinBitsShifted(flags) == Num(LevelTriggered(flags)) * 2^15 + Num(LowActive(flags)) * 2^12

PinBits(flags) == Num(LevelTriggered(flags)) * 2^15 + Num(LowActive(flags)) * 2^13

NmiMode == 4

\* LocalApic::from_paddr(): one NMI entry; s is [ok, lint, vec].
SetLint(s, nmi) ==
    IF ~s.ok \/ TriggerReserved(nmi.flags) THEN [s EXCEPT !.ok = FALSE]
    ELSE [ok |-> TRUE, vec |-> s.vec + 1,
          lint |-> [s.lint EXCEPT ![nmi.lint] = PinBits(nmi.flags) + NmiMode * 2^8 + s.vec]]

\* A core finds its ACPI id by its APIC id, and takes the entries for it or for all.
AcpiIdsOf(c) == {k \in DOMAIN ac_madt.lapics : ac_madt.lapics[k].id = c}

NmisOf(c) ==
    LET acpi == ac_madt.lapics[CHOOSE k \in AcpiIdsOf(c) : \A l \in AcpiIdsOf(c) : k <= l].acpi
    IN  SelectSeq(ac_madt.nmis, LAMBDA n : n.acpi \in {255, acpi})

InitLapic(c) ==
    /\ ac_pc = (IF c = 0 THEN "parsed" ELSE "cores") /\ c \notin ap_up
    /\ ap_up' = ap_up \cup {c}
    /\ IF AcpiIdsOf(c) = {}
       THEN ac_pc' = "panic" /\ UNCHANGED <<ap_lint, ap_vec>>
       ELSE LET s == FoldLeft(SetLint, [ok |-> TRUE, lint |-> ap_lint[c], vec |-> ap_vec], NmisOf(c))
            IN  /\ ac_pc' = IF ~s.ok THEN "panic" ELSE IF c = 0 THEN "ioapic" ELSE ac_pc
                /\ ap_lint' = [ap_lint EXCEPT ![c] = s.lint]
                /\ ap_vec' = s.vec + 1          \* and one for the timer
    /\ UNCHANGED <<ac_fw, ac_rev, ac_i, ac_madt, ac_fadt, ac_spaces, ap_red, ap_next, ap_icr,
                   ap_asked, ap_sent>>

-----------------------------------------------------------------------------
\* set_redirection(): destination in the high word, then the 17 low bits.
LowWord(masked, pins, mode, vec) == Num(masked) * 2^16 + pins + mode * 2^8 + vec
HighWord(core) == core * 2^24

SetRedirection(s, idx, word) ==
    IF s.ok /\ idx < MaxRedEnt
    THEN [s EXCEPT !.red[idx] = [low |-> word, high |-> HighWord(0)], !.vec = @ + 1]
    ELSE [s EXCEPT !.ok = FALSE]

\* IoApic::init(): an override; an NMI source with its GSI replaces its flags.
Route(s, iso, base) ==
    LET nmis == {k \in DOMAIN ac_madt.sources : ac_madt.sources[k].gsi = iso.gsi}
        flags == IF nmis = {} THEN iso.flags
                 ELSE ac_madt.sources[CHOOSE k \in nmis : \A l \in nmis : k <= l].flags
        mode == IF nmis = {} THEN 0 ELSE NmiMode
    IN  IF TriggerReserved(flags) THEN [s EXCEPT !.ok = FALSE]
        ELSE SetRedirection(s, iso.gsi - base, LowWord(iso.gsi = 2, PinBits(flags), mode, s.vec))

\* The keyboard's pin, whatever the overrides say of it.
RouteKeyboard(s, base) ==
    IF base > 1 THEN [s EXCEPT !.ok = FALSE]
    ELSE SetRedirection(s, 1 - base, LowWord(FALSE, 0, 0, s.vec))

\* The overrides this I/O APIC serves.
Served(base) == SelectSeq(ac_madt.isos, LAMBDA i : i.gsi >= base /\ i.gsi < base + MaxRedEnt)

InitIoApic ==
    /\ ac_pc = "ioapic" /\ ap_next <= Len(ac_madt.ioapics)
    /\ LET base == ac_madt.ioapics[ap_next].base
           fresh == [ok |-> ap_next < MAX_IOAPIC_ID, red |-> ap_red[ap_next], vec |-> ap_vec]
           s == RouteKeyboard(FoldLeft(LAMBDA st, iso : Route(st, iso, base), fresh, Served(base)),
                              base)
       IN  /\ ac_pc' = IF s.ok THEN "ioapic" ELSE "panic"
           /\ ap_red' = [ap_red EXCEPT ![ap_next] = s.red]
           /\ ap_vec' = s.vec
    /\ ap_next' = ap_next + 1
    /\ UNCHANGED <<ac_fw, ac_rev, ac_i, ac_madt, ac_fadt, ac_spaces, ap_lint, ap_up, ap_icr,
                   ap_asked, ap_sent>>

IoApicsDone ==
    /\ ac_pc = "ioapic" /\ ap_next > Len(ac_madt.ioapics)
    /\ ac_pc' = "cores"
    /\ UNCHANGED <<ac_fw, ac_rev, ac_i, ac_madt, ac_fadt, ac_spaces, ap_lint, ap_up, ap_red, ap_next,
                   ap_vec, ap_icr, ap_asked, ap_sent>>

-----------------------------------------------------------------------------
\* Ipi::to_raw() and send(): the high word only matters, and is only written, for one core.
ModeBits == [Fixed |-> 0, LowestPriority |-> 1, Smi |-> 2, Nmi |-> 4, Init |-> 5, Sipi |-> 6]
DestBits == [One |-> 0, OneSelf |-> 1, All |-> 2, AllExcludingSelf |-> 3]

IpiLow(ipi) ==
    2^14 + ModeBits[ipi.mode] * 2^8 + DestBits[ipi.dest] * 2^18
         + (IF ipi.mode \in {"Fixed", "LowestPriority", "Sipi"} THEN ipi.vec ELSE 0)

\* Mutant: the core is written after the low word has started the delivery.
IpiWritesSwapped(icr, ipi) ==
    [icr EXCEPT !.low = IpiLow(ipi)]

IpiWrites(icr, ipi) ==
    [low |-> IpiLow(ipi), high |-> IF ipi.dest = "One" THEN HighWord(ipi.core) ELSE icr.high]

Ipis == {[mode |-> m, dest |-> d, core |-> IF d = "One" THEN c ELSE 0,
          vec |-> IF m \in {"Fixed", "LowestPriority", "Sipi"} THEN v ELSE 0] :
            m \in DOMAIN ModeBits, d \in DOMAIN DestBits, c \in CoreApicIds, v \in IpiVectors}

\* External: the local APIC decodes the register when its low word is written.
Decoded(icr) ==
    LET d == CHOOSE n \in DOMAIN DestBits : DestBits[n] = (icr.low \div 2^18) % 4
    IN  [mode |-> CHOOSE n \in DOMAIN ModeBits : ModeBits[n] = (icr.low \div 2^8) % 8,
         dest |-> d, core |-> IF d = "One" THEN icr.high \div 2^24 ELSE 0, vec |-> icr.low % 2^8]

SendIpi(ipi) ==
    /\ ac_pc = "cores" /\ Len(ap_asked) < MaxIpis
    /\ ap_icr' = IpiWrites(ap_icr, ipi)
    /\ ap_asked' = Append(ap_asked, ipi) /\ ap_sent' = Append(ap_sent, Decoded(ap_icr'))
    /\ UNCHANGED <<acpiVars, ap_lint, ap_up, ap_red, ap_next, ap_vec>>

ApicNext ==
    \/ AcpiStep /\ UNCHANGED <<ap_lint, ap_up, ap_red, ap_next, ap_vec, ap_icr, ap_asked, ap_sent>>
    \/ (\E c \in CoreApicIds : InitLapic(c)) \/ InitIoApic \/ IoApicsDone
    \/ \E ipi \in Ipis : SendIpi(ipi)

-----------------------------------------------------------------------------
\* The bits of a pin's register as the hardware reads them.
PinOf(word) == [low |-> (word \div 2^13) % 2 = 1, level |-> (word \div 2^15) % 2 = 1,
                nmi |-> (word \div 2^8) % 8 = NmiMode, masked |-> (word \div 2^16) % 2 = 1]

Wants(flags, nmi) == [low |-> LowActive(flags), level |-> LevelTriggered(flags), nmi |-> nmi,
                      masked |-> FALSE]

Listed(t) == {k \in DOMAIN MadtEntries : MadtEntries[k].type = t}

\* What the firmware wrote in its tables is what the hardware is told.  The registers of
\* the local APICs are looked for at the last address override, or else at the header's
\* address; the last local NMI of a core's pin, whether for this core or for all, decides
\* the pin, unmasked and with its polarity and trigger; an override in the range of an
\* I/O APIC, other than the keyboard's pin and the cascade's, is routed unmasked with the
\* flags of the MADT; no two pins share a vector; and every IPI is delivered in the mode,
\* with the vector and to the cores it was asked for, whatever the register held before.
MadtIsApplied ==
    /\ ac_pc \in {"parsed", "ioapic", "cores"} =>
           ac_madt.paddr = IF Listed(5) = {} THEN ac_fw.madt.paddr
                           ELSE MadtEntries[CHOOSE k \in Listed(5) : \A l \in Listed(5) : l <= k].addr
    /\ ac_pc = "cores" =>
           /\ \A k \in Listed(4) : \A p \in Listed(0) :
                  LET nmi == MadtEntries[k] cpu == MadtEntries[p]
                      for(n) == MadtEntries[n].acpi \in {255, cpu.acpi} /\ MadtEntries[n].lint = nmi.lint
                  IN  (/\ Bit(cpu.flags, 0) /\ for(k) /\ \A l \in Listed(4) : for(l) => l <= k
                       /\ cpu.id \in ap_up)
                        => PinOf(ap_lint[cpu.id][nmi.lint]) = Wants(nmi.flags, TRUE)
           /\ \A k \in Listed(2) : \A n \in DOMAIN ac_madt.ioapics :
                  LET iso == MadtEntries[k] at == iso.gsi - ac_madt.ioapics[n].base
                  IN  (/\ at \in 0..MaxRedEnt - 1 /\ iso.gsi \notin {1, 2}
                       /\ \A l \in Listed(2) : MadtEntries[l].gsi = iso.gsi => l <= k
                       /\ \A s \in DOMAIN ac_madt.sources : ac_madt.sources[s].gsi # iso.gsi)
                        => PinOf(ap_red[n][at].low) = Wants(iso.flags, FALSE)
           /\ \A n \in DOMAIN ac_madt.ioapics : \A j, k \in 0..MaxRedEnt :
                  j # k /\ ap_red[n][j] # Reset /\ ap_red[n][k] # Reset
                    => ap_red[n][j].low % 2^8 # ap_red[n][k].low % 2^8
    /\ ap_sent = ap_asked

\* "Manually map IRQ1 (PS/2 keyboard) if not present in ISOs" (apic.rs:546): an override
\* of the keyboard's interrupt that is present keeps its flags.
KeyboardOverrideIsKept ==
    ac_pc = "cores" => \A k \in DOMAIN ac_madt.isos : \A n \in DOMAIN ac_madt.ioapics :
        LET iso == ac_madt.isos[k] at == iso.gsi - ac_madt.ioapics[n].base
        IN  iso.source = 1 /\ at \in 0..MaxRedEnt - 1 =>
                PinOf(ap_red[n][at].low) = Wants(iso.flags, FALSE)
=============================================================================
