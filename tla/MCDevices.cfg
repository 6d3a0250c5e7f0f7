SPECIFICATION DevicesSpec
CONSTANTS
    Subjects = {"sleep", "smp", "clock", "apic", "keyboard", "packets", "nic", "nvme", "tty", "streams"}
    Thread = {t1, t2, t3}
    Handle = {h1, h2}
    Awake = Awake
    MaxTime = 2
    MaxWakeUps = 1
    b0 = b0
    a1 = a1
    a2 = a2
    Bsp = b0
    Aps = {a1, a2}
    ApicId <- ApicNumbers
    NmiCores = {b0, a1}
    IsoCounts = {1, 4}
    FIRST_IRQ = 32
    LAST_IRQ = 40
    MAX_ID = 15
    Machines <- SomeMachines
    TICKS_PER_MHZ = 2
    PIT_ROUND_MHZ = 2
    LAPIC_ROUND_MHZ = 10
    CALIBRATION_MS = 4
    MAX_MICROS = 12000
    Waits = {0, 1, 3, 20}
    MaxTicks = 100
    MaxStride = 3
    Firmwares <- SomeFirmwares
    CoreApicIds = {0, 1}
    MaxRedEnt = 4
    MAX_IOAPIC_ID = 15
    IpiVectors = {8, 255}
    MaxIpis = 2
    KeysTyped <- TwoKeys
    SEND_TRIES = 1
    QUEUE_SIZE = 1
    MaxTyped = 2
    NetReprs <- SomeHeaders
    PayloadByte = 171
    StaleByte = 165
    AlteredBytes = {0, 6, 79, 255}
    NetSource <- Address1
    NetDest <- Address2
    RX_BUFFERS = 3
    TX_BUFFERS = 3
    MaxArrivals = 5
    MaxSends = 6
    FrameKinds = {"good", "bad"}
    Controllers <- SomeControllers
    FrameSupplies = {1, 2, 3, 4, 5}
    SQ_ENTRIES = 4
    CQ_ENTRIES = 8
    InnerCols = 2
    InnerRows = 3
    Prompt <- OneCharPrompt
    ShellKeys = {"A", "ShiftLeft"}
    Outputs <- SomeOutputs
    MaxLine = 3
    SourceLen = 6
    ReaderCapacity = 3
    WriterCapacity = 3
    Requests = {1, 2, 3, 5}
    MaxAccepted = 9
CHECK_DEADLOCK FALSE
INVARIANTS
    SleepersCanBeFound
    CoresStartInOrder
    
    
    
    
    
PROPERTIES
    SignalWakesOldest
