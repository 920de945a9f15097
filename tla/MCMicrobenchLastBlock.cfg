\* The default sizes and -b 6 -s 2, whole numbers of blocks, in every mode
\* and in the multi-buffer modes with the buffers the options give.  The
\* process stops once main has joined its threads.
CONSTANTS
    r = r
    w = w
    NoRound = NoRound
    Readers <- MCReaders
    Writers <- MCWriters
    Modes = {"SYSTEM_RAM", "PHYSICAL_ACCESS", "NUMA_AWARE", "CXL_INTERLEAVE", "CXL_NUMA", "CXL_MULTI"}
    Args <- MCArgs
    MaxArgs = 3
    DEFAULT_BUFFER_SIZE = 4
    DEFAULT_BLOCK_SIZE = 1
    SIZE_WIDTH = 8
SPECIFICATION Spec
INVARIANT RoundCoversBuffer
CHECK_DEADLOCK FALSE
