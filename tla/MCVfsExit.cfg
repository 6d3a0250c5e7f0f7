SPECIFICATION ResourcesSpec
CONSTANTS
    Subjects = {"vfs"}
    HeapStart = 2
    HeapSize = 24
    SLAB_SIZES <- TwoSlabs
    MinSlots = 1
    MIN_BLOCK_SIZE = 4
    SLAB_THRESHOLD = 2
    MAX_ORDER = 6
    Layouts <- SmallLayouts
    MaxLive = 5
    TableFrames = {1, 2, 3, 4}
    DataFrames = {10}
    PtIndex = {0, 1}
    PtPages <- SharedPages
    MaxAddr = 31
    Cpus = {c1, c2}
    PAGE = 2
    BIG = 4
    RamFirst = 2
    RamLast = 9
    DeviceBase = 20
    VirtFirst = 0
    VirtLast = 7
    MaxRanges = 8
    MaxRegions = 2
    FatTypes = {12, 16, 32}
    LastCluster = 6
    BytesPerCluster = 2
    FileValues = {0}
    MaxFileSize = 7
    EntriesPerCluster = 2
    DirContents <- Directories
    MaxDirPosition = 4
    MaxChanges = 2
    Dates <- EdgeDates
    Times <- EdgeTimes
    FirstClusters = {2, 70000}
    AttributeSets = {0, 15, 16}
    NameBytes = {65, 229}
    SectorSizes = {512, 1024, 4096}
    ClusterSizes = {1, 8}
    ReservedCounts = {1, 8, 32}
    VolumeSectors <- EdgeVolumes
    MaxBuilderCalls = 3
    t1 = t1
    t2 = t2
    t3 = t3
    p1 = p1
    p2 = p2
    VfsThreads = {t1, t2, t3}
    VfsProcs = {p1, p2}
    OwnerOf <- Owners
    OpenPaths <- SomePaths
    DevicePaths <- KeyboardPath
    DevMount <- DevPath
    RamMount <- RamPath
    RamImages <- SomeImages
    HeaderCells = 2
    ReadOffsets = {3}
    ReadLens = {1}
    MaxHandles = 2
    PAGE_WORDS = 2
    MAX_LOAD_SEGMENTS = 2
    Binaries <- Programs
    RegionPage = 10
    FrameBudgets = {0, 1, 2, 3, 6}
    PAGE_UNITS = 2
    Kernels <- KernelImages
    MemoryMaps <- UefiMaps
    LowestFrame = 2
    ImageFrame = 100
    KernelPage = 200
    StackPage = 300
    StackPages = 2
    RamdiskPage = 400
    RamdiskFrame = 110
    RamdiskWords = 3
CHECK_DEADLOCK FALSE
INVARIANT ExitClosesFiles
