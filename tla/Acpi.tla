--------------------------------- MODULE Acpi ---------------------------------
(***************************************************************************)
(* kernel/foundry/acpi: from the RSDP the bootloader found to the parsed      *)
(* MADT, FADT, HPET and MCFG.  Tables are records of what the parser reads:   *)
(* sum says whether a table's bytes add up to zero, an entry's len is its own *)
(* length field, and a GenericAddress is [space, width, access, addr].  A     *)
(* failed assert, expect or todo! is a panic, which ends the boot.            *)
(***************************************************************************)
EXTENDS Integers, Sequences, SequencesExt

CONSTANT Firmwares

VARIABLES ac_fw,        \* the machine's tables
          ac_pc,
          ac_rev,       \* ACPI_REVISION
          ac_i,         \* the entry of the MADT parse() is at
          ac_madt,      \* ParsedMadt
          ac_fadt,      \* ParsedFadt
          ac_spaces     \* ParsedMcfg.configuration_spaces

acpiVars == <<ac_fw, ac_pc, ac_rev, ac_i, ac_madt, ac_fadt, ac_spaces>>

NoFadt == [ps2 |-> FALSE, dsdt |-> 0, pm1a |-> 0, pm1b |-> 0]

AcpiStart ==
    /\ ac_fw \in Firmwares
    /\ ac_pc = "rsdp" /\ ac_rev = "none" /\ ac_i = 1
    /\ ac_madt = [paddr |-> 0, lapics |-> <<>>, nmis |-> <<>>, ioapics |-> <<>>,
                  sources |-> <<>>, isos |-> <<>>]
    /\ ac_fadt = NoFadt /\ ac_spaces = <<>>

Move(from, ok, to) ==
    /\ ac_pc = from
    /\ ac_pc' = IF ok THEN to ELSE "panic"
    /\ UNCHANGED ac_fw

-----------------------------------------------------------------------------
\* Rsdp::load(): revision 0 is ACPI 1.0, 2 is ACPI 2.0; stored before the checksum is
\* verified.
RsdpLoad ==
    /\ Move("rsdp", ac_fw.rsdp_rev \in {0, 2} /\ ac_fw.rsdp_sum, "rsdt")
    /\ ac_rev' = CASE ac_fw.rsdp_rev = 0 -> "V1" [] ac_fw.rsdp_rev = 2 -> "V2" [] OTHER -> ac_rev
    /\ UNCHANGED <<ac_i, ac_madt, ac_fadt, ac_spaces>>

\* Rsdt::load(): the header first, then the whole table.
RsdtLoad ==
    /\ Move("rsdt", /\ ac_fw.sdt_rev = 1
                    /\ ac_fw.sdt_sig = (IF ac_rev = "V1" THEN "RSDT" ELSE "XSDT")
                    /\ ac_fw.sdt_sum, "locate")
    /\ UNCHANGED <<ac_rev, ac_i, ac_madt, ac_fadt, ac_spaces>>

\* locate_table(): the first table with the signature, 0 for None.
LocateTable(sig) ==
    LET at == {k \in DOMAIN ac_fw.tables : ac_fw.tables[k].sig = sig}
    IN  IF at = {} THEN 0 ELSE CHOOSE k \in at : \A l \in at : k <= l

\* impl_sdt!'s load(): a located table must have a valid checksum.
Loads(sig) == LocateTable(sig) > 0 /\ ac_fw.tables[LocateTable(sig)].sum

\* from_rsdp_paddr(): MADT and FADT are required; an ACPI 1.0 lookup is a todo!.
Locate ==
    /\ Move("locate", ac_rev = "V2" /\ Loads("APIC") /\ LocateTable("FACP") > 0, "madt")
    /\ ac_madt' = [ac_madt EXCEPT !.paddr = ac_fw.madt.paddr]
    /\ UNCHANGED <<ac_rev, ac_i, ac_fadt, ac_spaces>>

-----------------------------------------------------------------------------
\* The size each entry type must have; other types are skipped by their length.
EntrySize == [t \in {0, 1, 2, 3, 4, 5, 9, 10} |->
                 CASE t = 0 -> 8 [] t = 1 -> 12 [] t = 2 -> 10 [] t = 3 -> 8
                   [] t = 4 -> 6 [] t = 5 -> 12 [] t = 9 -> 16 [] t = 10 -> 12]

Bit(flags, k) == (flags \div 2^k) % 2 = 1

\* Madt::parse(): does an entry pass the asserts?  SAPIC and GIC entries are unreachable!.
EntryIsFine(e) ==
    /\ e.type \in DOMAIN EntrySize => e.len = EntrySize[e.type]
    /\ e.type \notin 6..8 \cup 11..15
    /\ e.type = 0 => Bit(e.flags, 0) \/ ~Bit(e.flags, 1)
    /\ e.type = 2 => e.bus = 0
    /\ e.type = 4 => e.lint \in {0, 1}

\* Mutant: an address override is only taken when no processor was listed before.
AddEntryEarly(m, e) ==
    CASE e.type = 0 /\ Bit(e.flags, 0) ->
             [m EXCEPT !.lapics = Append(@, [id |-> e.id, acpi |-> e.acpi])]
      [] e.type = 1 -> [m EXCEPT !.ioapics = Append(@, [addr |-> e.addr, base |-> e.gsi])]
      [] e.type = 5 /\ m.lapics = <<>> -> [m EXCEPT !.paddr = e.addr]
      [] OTHER -> m

\* Madt::parse(): what an entry adds to the parsed table.
AddEntry(m, e) ==
    CASE e.type = 0 /\ Bit(e.flags, 0) ->
             [m EXCEPT !.lapics = Append(@, [id |-> e.id, acpi |-> e.acpi])]
      [] e.type = 1 -> [m EXCEPT !.ioapics = Append(@, [addr |-> e.addr, base |-> e.gsi])]
      [] e.type = 2 -> [m EXCEPT !.isos = Append(@, [source |-> e.source, gsi |-> e.gsi,
                                                     flags |-> e.flags])]
      [] e.type = 3 -> [m EXCEPT !.sources = Append(@, [gsi |-> e.gsi, flags |-> e.flags])]
      [] e.type = 4 -> [m EXCEPT !.nmis = Append(@, [acpi |-> e.acpi, lint |-> e.lint,
                                                     flags |-> e.flags])]
      [] e.type = 5 -> [m EXCEPT !.paddr = e.addr]
      [] OTHER -> m

MadtEntries == ac_fw.madt.entries

MadtStep ==
    /\ ac_i <= Len(MadtEntries)
    /\ Move("madt", EntryIsFine(MadtEntries[ac_i]), "madt")
    /\ ac_madt' = AddEntry(ac_madt, MadtEntries[ac_i])
    /\ ac_i' = ac_i + 1
    /\ UNCHANGED <<ac_rev, ac_fadt, ac_spaces>>

MadtEnd ==
    /\ ac_i > Len(MadtEntries)
    /\ Move("madt", TRUE, "fadt")
    /\ UNCHANGED <<ac_rev, ac_i, ac_madt, ac_fadt, ac_spaces>>

-----------------------------------------------------------------------------
\* fallback_field!: a field of the extended FADT unless it is absent or null.
Fallback(full, x, null, minimal) == IF full /\ x # null THEN x ELSE minimal

NullAddress == [space |-> 0, width |-> 0, access |-> 0, addr |-> 0]
PortBlock(a) == [space |-> 1, width |-> 16, access |-> 1, addr |-> a]

\* AccessSize::try_from(), which GenericAddress::from() unwraps; and the asserts of
\* Pm1ControlRegister::new(): System I/O or memory, byte or word accesses, sixteen bits.
Converts(g) == g.access \in 0..4
Pm1IsFine(g) == Converts(g) /\ g.access \in {1, 2} /\ g.space \in {0, 1} /\ g.width = 16

Pm1a(f) == Fallback(f.full, f.x_pm1a, NullAddress, PortBlock(f.pm1a))
Pm1b(f) == Fallback(f.full, f.x_pm1b, NullAddress,
                    IF f.pm1b = 0 THEN NullAddress ELSE PortBlock(f.pm1b))

\* Fadt::parse(): ACPI 1.0 machines always have a PS/2 keyboard, others report it.
FadtParse ==
    LET f == ac_fw.fadt
    IN  /\ Move("fadt", /\ Loads("FACP")
                        /\ Pm1IsFine(Pm1a(f))
                        /\ Pm1b(f) # NullAddress => Pm1IsFine(Pm1b(f)), "optional")
        /\ ac_fadt' = [ps2 |-> ac_rev = "V1" \/ f.ps2, dsdt |-> Fallback(f.full, f.x_dsdt, 0, f.dsdt),
                       pm1a |-> Pm1a(f).addr, pm1b |-> Pm1b(f).addr]
    /\ UNCHANGED <<ac_rev, ac_i, ac_madt, ac_spaces>>

\* The tables a machine may lack: HpetTable::parse() asserts its size and revision,
\* Mcfg::parse() copies the configuration spaces.
HpetIsFine == LocateTable("HPET") > 0 => Loads("HPET") /\ ac_fw.hpet_fine
ParsedMcfg == IF LocateTable("MCFG") > 0 THEN ac_fw.mcfg ELSE <<>>

OptionalParse ==
    /\ Move("optional", HpetIsFine /\ (LocateTable("MCFG") > 0 => Loads("MCFG")), "dsdt")
    /\ ac_spaces' = ParsedMcfg
    /\ UNCHANGED <<ac_rev, ac_i, ac_madt, ac_fadt>>

\* Dsdt::load() and parse(): the FADT's address must lead to a valid DSDT; its AML is
\* not interpreted.
DsdtParse ==
    /\ Move("dsdt", ac_fadt.dsdt \in ac_fw.dsdts, "parsed")
    /\ UNCHANGED <<ac_rev, ac_i, ac_madt, ac_fadt, ac_spaces>>

AcpiStep == RsdpLoad \/ RsdtLoad \/ Locate \/ MadtStep \/ MadtEnd \/ FadtParse \/ OptionalParse
            \/ DsdtParse
=============================================================================
