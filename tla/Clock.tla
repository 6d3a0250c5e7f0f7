-------------------------------- MODULE Clock --------------------------------
(***************************************************************************)
(* The kernel's clocks: kernel/src/time.rs over the TSC (drivers/tsc.rs) and *)
(* the HPET (drivers/hpet.rs), the saturating instants of beskar-core's      *)
(* time.rs, and the calibration of the local APIC's timer (apic/timer.rs),   *)
(* which itself waits on a clock.  bsp_init() sets the clocks up before it    *)
(* reads the ACPI tables the HPET is found through.  A machine is the record  *)
(* [tsc, leaf15, hpet, hpet_sane, lapic, leaf_lapic]: the true tick rate of   *)
(* its TSC and what CPUID leaf 0x15 says of it (0: nothing), the rate of its  *)
(* HPET (0: has none) and whether its registers agree with the table, the true*)
(* rate of the APIC timer and what CPUID says of that.  Rates are in ticks per*)
(* millisecond: one MHz is TICKS_PER_MHZ of them.                             *)
(***************************************************************************)
EXTENDS Integers

CONSTANTS Machines,
          TICKS_PER_MHZ,        \* 1000
          PIT_ROUND_MHZ,        \* 100: calibrate_with_pit() rounds to this
          LAPIC_ROUND_MHZ,      \* 10: calibrate_with_time() rounds to this
          CALIBRATION_MS,       \* 50
          MAX_MICROS,           \* u64::MAX
          Waits,                \* durations of wait(), in milliseconds
          MaxTicks,             \* bound on the TSC's run
          MaxStride             \* ticks between two reads of the clock

VARIABLES clk_m,
          clk_acpi,             \* is ACPI initialized?
          clk_hpet, clk_tsc,    \* HPET_AVAILABLE, TSC_AVAILABLE
          clk_mhz,              \* TSC_MHZ
          clk_rate,             \* LapicTimer.configuration.rate_mhz
          clk_t,                \* the TSC itself
          clk_pc,
          clk_start, clk_ms, clk_end    \* wait(): when it began, how long, the end instant

clockVars == <<clk_m, clk_acpi, clk_hpet, clk_tsc, clk_mhz, clk_rate, clk_t, clk_pc,
               clk_start, clk_ms, clk_end>>

ClockInit ==
    /\ clk_m \in Machines
    /\ clk_acpi = FALSE /\ clk_hpet = FALSE /\ clk_tsc = FALSE
    /\ clk_mhz = 0 /\ clk_rate = 0
    /\ clk_t \in 0..MaxStride
    /\ clk_pc = "time"
    /\ clk_start = 0 /\ clk_ms = 0 /\ clk_end = 0

-----------------------------------------------------------------------------
\* Instant and Duration: microseconds in a u64, every operation saturating.
Saturate(micros) == IF micros > MAX_MICROS THEN MAX_MICROS ELSE micros
FromMillis(ms) == Saturate(ms * 1000)
Later(instant, duration) == Saturate(instant + duration)

\* Rounds to the nearest multiple; halves go up.
Nearest(x, step) == ((x + step \div 2) \div step) * step

\* hpet::init(): absent unless the ACPI tables are there and name one; its asserts compare
\* the table with the block's own registers (period, counter size, no interrupt pending,
\* no timer forced to 32 bits), and then the counter is started.
HpetInit(m, acpi) ==
    IF ~acpi \/ m.hpet = 0 THEN "Absent"
    ELSE IF m.hpet_sane THEN "Ok" ELSE "panic"

\* tsc::init(): the rate CPUID tells, else what 50 ms of the HPET measure, else a
\* countdown of the PIT, rounded; 0 is a failure.
TscRate(m, hpet) ==
    IF m.leaf15 > 0 THEN m.leaf15 \div TICKS_PER_MHZ
    ELSE IF hpet THEN m.tsc \div TICKS_PER_MHZ
    ELSE Nearest(m.tsc, PIT_ROUND_MHZ * TICKS_PER_MHZ) \div TICKS_PER_MHZ

\* time::init(), in bsp_init().
TimeInit ==
    /\ clk_pc = "time"
    /\ clk_hpet' = (HpetInit(clk_m, clk_acpi) = "Ok")
    /\ clk_mhz' = IF clk_m.tsc > 0 THEN TscRate(clk_m, clk_hpet') ELSE 0
    /\ clk_tsc' = (clk_m.tsc > 0 /\ (clk_m.leaf15 > 0 \/ clk_hpet' \/ clk_mhz' > 0))
    /\ clk_pc' = IF HpetInit(clk_m, clk_acpi) = "panic" THEN "panic" ELSE "acpi"
    /\ UNCHANGED <<clk_m, clk_acpi, clk_rate, clk_t, clk_start, clk_ms, clk_end>>

\* drivers::acpi::init(), later in bsp_init().
AcpiInit ==
    /\ clk_pc = "acpi"
    /\ clk_acpi' = TRUE /\ clk_pc' = "lapic"
    /\ UNCHANGED <<clk_m, clk_hpet, clk_tsc, clk_mhz, clk_rate, clk_t, clk_start, clk_ms, clk_end>>

-----------------------------------------------------------------------------
\* now(): whole milliseconds of the TSC, of the HPET, or the end of time.
Now(t) ==
    IF clk_tsc THEN FromMillis(t \div (clk_mhz * TICKS_PER_MHZ))
    ELSE IF clk_hpet THEN FromMillis(t \div clk_m.hpet)
    ELSE MAX_MICROS

\* wait(): without a clock there is no waiting.
BeginWait(ms, from, to, after) ==
    /\ clk_pc = from
    /\ clk_start' = clk_t /\ clk_ms' = ms
    /\ clk_end' = Later(Now(clk_t), FromMillis(ms))
    /\ clk_pc' = IF clk_tsc \/ clk_hpet THEN to ELSE after
    /\ UNCHANGED <<clk_m, clk_acpi, clk_hpet, clk_tsc, clk_mhz, clk_rate, clk_t>>

\* Mutant: the loop also stops a millisecond early.
SpinWaitShort(from, to) ==
    /\ clk_pc = from
    /\ \E d \in 1..MaxStride :
           /\ clk_t + d <= MaxTicks
           /\ clk_t' = clk_t + d
           /\ clk_pc' = IF Now(clk_t') + 1000 < clk_end THEN from ELSE to
    /\ UNCHANGED <<clk_m, clk_acpi, clk_hpet, clk_tsc, clk_mhz, clk_rate, clk_start, clk_ms, clk_end>>

\* The loop of Clock::wait() reads the clock until it shows the end.
SpinWait(from, to) ==
    /\ clk_pc = from
    /\ \E d \in 1..MaxStride :
           /\ clk_t + d <= MaxTicks
           /\ clk_t' = clk_t + d
           /\ clk_pc' = IF Now(clk_t') < clk_end THEN from ELSE to
    /\ UNCHANGED <<clk_m, clk_acpi, clk_hpet, clk_tsc, clk_mhz, clk_rate, clk_start, clk_ms, clk_end>>

\* LapicTimer::calibrate(): CPUID first, else the ticks counted during a wait(50 ms),
\* rounded to 10 MHz but never to nothing.  init_lapic() unwraps the rate.
FromCpuid == clk_m.leaf_lapic \div TICKS_PER_MHZ

Counted(ticks) ==
    LET mhz == (ticks * clk_m.lapic) \div (clk_m.tsc * CALIBRATION_MS * TICKS_PER_MHZ)
    IN  IF mhz = 0 THEN 0
        ELSE IF mhz > LAPIC_ROUND_MHZ + (LAPIC_ROUND_MHZ * 4) \div 10 THEN Nearest(mhz, LAPIC_ROUND_MHZ)
        ELSE LAPIC_ROUND_MHZ

CalibrateCpuid ==
    /\ clk_pc = "lapic" /\ FromCpuid > 0
    /\ clk_rate' = FromCpuid /\ clk_pc' = "idle"
    /\ UNCHANGED <<clk_m, clk_acpi, clk_hpet, clk_tsc, clk_mhz, clk_t, clk_start, clk_ms, clk_end>>

CalibrateWithTime ==
    /\ clk_pc = "calibrated"
    /\ clk_rate' = IF clk_m.tsc > 0 THEN Counted(clk_t - clk_start) ELSE 0
    /\ clk_pc' = IF clk_rate' = 0 THEN "panic" ELSE "idle"
    /\ UNCHANGED <<clk_m, clk_acpi, clk_hpet, clk_tsc, clk_mhz, clk_t, clk_start, clk_ms, clk_end>>

\* A caller of wait() is done, and time goes on until the next one.
Leave ==
    /\ clk_pc = "waited"
    /\ \E d \in 0..MaxStride : clk_t' = clk_t + d
    /\ clk_pc' = "idle"
    /\ UNCHANGED <<clk_m, clk_acpi, clk_hpet, clk_tsc, clk_mhz, clk_rate, clk_start, clk_ms, clk_end>>

ClockNext ==
    \/ TimeInit \/ AcpiInit \/ CalibrateCpuid \/ CalibrateWithTime \/ Leave
    \/ FromCpuid = 0 /\ BeginWait(CALIBRATION_MS, "lapic", "calibrating", "calibrated")
    \/ SpinWait("calibrating", "calibrated")
    \/ \E ms \in Waits : BeginWait(ms, "idle", "waiting", "waited")
    \/ SpinWait("waiting", "waited")

-----------------------------------------------------------------------------
HasClock == clk_tsc \/ clk_hpet
Elapsed == clk_t - clk_start
Rate == clk_mhz * TICKS_PER_MHZ

\* What wait() does promise.  The clock is read in whole milliseconds, so a wait may
\* miss up to, but not including, one of them; it is never shorter than that, and the
\* clock that decides it is running.  A timer calibrated by such a wait is never set
\* more than that millisecond and its rounding too fast.
WaitLosesLessThanAMilli ==
    /\ clk_pc \in {"waited", "calibrated"} /\ HasClock /\ clk_end < MAX_MICROS =>
           Elapsed > (clk_ms - 1) * Rate
    /\ clk_tsc => clk_mhz > 0
    /\ clk_pc = "idle" /\ FromCpuid = 0 /\ clk_m.lapic > 0 =>
           clk_rate + LAPIC_ROUND_MHZ >=
              (clk_m.lapic * (CALIBRATION_MS - 1) * Rate)
                  \div (clk_m.tsc * CALIBRATION_MS * TICKS_PER_MHZ)

\* "Waits for AT LEAST the given number of milliseconds." (time.rs:18)
WaitsAtLeast ==
    clk_pc = "waited" /\ HasClock => Elapsed >= clk_ms * clk_m.tsc
=============================================================================
