SPECIFICATION LogSpec
CONSTANTS
    BufSize = 3
    SizeRange = 256
    Junk = 99
    Strings <- MCStrings
    Counts <- MCCounts
    Offsets <- MCOffsets
    Whences <- MCWhences
    Newline <- MCNewline
    WithinFile = TRUE
INVARIANTS
    OffsetInFile
PROPERTIES
    Refinement
    GlibcElsewhere
