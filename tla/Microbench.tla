----------------------------- MODULE Microbench -----------------------------
(***************************************************************************)
(* src/microbench/cxl_memory_test.cpp: main parses the options into a      *)
(* TestConfig, allocates the buffers of the chosen mode, starts the reader *)
(* and writer threads, sleeps, sets stop_flag and joins them.  Each turn   *)
(* of a thread's loop tests stop_flag, copies block_size bytes at offset,  *)
(* and advances offset by (offset + block_size) % (buffer_size -           *)
(* block_size), in size_t.  In the modes CXL_INTERLEAVE and CXL_MULTI the  *)
(* interleave threads copy from buffers[buffer_idx % buffers.size()] and   *)
(* move to the next buffer at every turn; every other mode has one buffer  *)
(* and starts the system threads.                                          *)
(*                                                                         *)
(* An option is a record [opt, val]: -b and -s carry a size, -m a mode     *)
(* name, -c and -p the number of items of their comma-separated list (the  *)
(* values of the items are never read by the checked logic).  Options that *)
(* only set what is printed (-t, -d, -r, -a, -n, -i) are left out; -t and  *)
(* -r are fixed by the sets Readers and Writers.  A modulus of zero is a   *)
(* division by zero (SIGFPE ends the process).  The byte counters, the     *)
(* copy's contents and the printing are left out.  `sweep` and `done` are  *)
(* history: the (buffer, offset) pairs a thread has accessed since it last *)
(* came back to a pair it had already accessed, and the pairs of its last  *)
(* such round.                                                             *)
(***************************************************************************)
EXTENDS Integers

CONSTANTS
    Readers, Writers,   \* thread ids (the split of -t by -r)
    Modes,              \* MemoryMode values
    Args,               \* the options a command line may hold
    MaxArgs,            \* the most options parsed
    DEFAULT_BUFFER_SIZE, DEFAULT_BLOCK_SIZE,
    SIZE_WIDTH,         \* bits of size_t
    NoRound

Threads == Readers \cup Writers

\* The modes whose threads interleave over several buffers.
InterleaveModes == {"CXL_INTERLEAVE", "CXL_MULTI"}

VARIABLES
    mode, buffer_size, block_size,   \* TestConfig
    num_cxl_buffers,                 \* TestConfig::num_cxl_buffers
    num_cxl_addrs,                   \* cxl_physical_addrs.size()
    nargs,        \* options parsed so far
    nbuf,         \* interleave_buffers.size()
    offset,       \* offset[t]: the next offset thread t copies at
    buffer_idx,   \* buffer_idx[t] % buffers.size(): the next buffer of t
    stop_flag,
    phase,        \* "parsing", "allocating", "running", "stopped" (main has
                  \* set stop_flag), "exited" (exit(1) or return 1), "crashed"
    joined,       \* the threads main has joined
    exited,       \* the threads whose loop has ended
    sweep, done   \* history, see above

vars == <<mode, buffer_size, block_size, num_cxl_buffers, num_cxl_addrs, nargs,
          nbuf, offset, buffer_idx, stop_flag, phase, joined, exited, sweep, done>>

cfg_vars == <<mode, buffer_size, block_size, num_cxl_buffers, num_cxl_addrs>>

thread_vars == <<nbuf, offset, buffer_idx, stop_flag, joined, exited, sweep, done>>

\* buffer_size - block_size as a size_t.
WrapModulus == (buffer_size - block_size) % (2 ^ SIZE_WIDTH)

\* Move to next block with wrap-around.
NextOffset(off) == (off + block_size) % WrapModulus

\* The bytes of the copy at off.
Bytes(off) == off .. off + block_size - 1

\* The buffers a thread walks.
Buffers == IF mode \in InterleaveModes THEN 0 .. nbuf - 1 ELSE {0}

-----------------------------------------------------------------------------
\* TestConfig's defaults: the system mode, two CXL buffers and two
\* physical addresses.
Init ==
    /\ mode = "SYSTEM_RAM"
    /\ buffer_size = DEFAULT_BUFFER_SIZE /\ block_size = DEFAULT_BLOCK_SIZE
    /\ num_cxl_buffers = 2 /\ num_cxl_addrs = 2
    /\ nargs = 0
    /\ nbuf = 0
    /\ offset = [t \in Threads |-> 0]
    /\ buffer_idx = [t \in Threads |-> 0]
    /\ stop_flag = FALSE
    /\ phase = "parsing"
    /\ joined = {} /\ exited = {}
    /\ sweep = [t \in Threads |-> {}]
    /\ done = [t \in Threads |-> NoRound]

(***************************************************************************)
(* parse_args: one getopt_long turn per option, in command-line order.     *)
(***************************************************************************)
Parsed(a) == phase = "parsing" /\ nargs < MaxArgs /\ a \in Args /\ nargs' = nargs + 1

\* case 'b' and case 's': std::stoull(optarg).
case_b(a) ==
    /\ a.opt = "b" /\ Parsed(a)
    /\ buffer_size' = a.val
    /\ UNCHANGED <<mode, block_size, num_cxl_buffers, num_cxl_addrs, phase, thread_vars>>

case_s(a) ==
    /\ a.opt = "s" /\ Parsed(a)
    /\ block_size' = a.val
    /\ UNCHANGED <<mode, buffer_size, num_cxl_buffers, num_cxl_addrs, phase, thread_vars>>

\* case 'm': a known name sets the mode; any other is exit(1).
case_m(a) ==
    /\ a.opt = "m" /\ Parsed(a)
    /\ IF a.val \in Modes
       THEN mode' = a.val /\ UNCHANGED phase
       ELSE phase' = "exited" /\ UNCHANGED mode
    /\ UNCHANGED <<buffer_size, block_size, num_cxl_buffers, num_cxl_addrs, thread_vars>>

\* case 'c': the node list replaces cxl_nodes, and sets num_cxl_buffers
\* only if the mode parsed so far is CXL_MULTI.
case_c(a) ==
    /\ a.opt = "c" /\ Parsed(a)
    /\ num_cxl_buffers' = IF mode = "CXL_MULTI" THEN a.val ELSE num_cxl_buffers
    /\ UNCHANGED <<mode, buffer_size, block_size, num_cxl_addrs, phase, thread_vars>>

\* case 'p': the address list replaces cxl_physical_addrs.
case_p(a) ==
    /\ a.opt = "p" /\ Parsed(a)
    /\ num_cxl_addrs' = a.val
    /\ UNCHANGED <<mode, buffer_size, block_size, num_cxl_buffers, phase, thread_vars>>

\* case 'h' prints the usage and exits; so does an unknown option.
case_h(a) ==
    /\ a.opt = "h" /\ Parsed(a)
    /\ phase' = "exited"
    /\ UNCHANGED <<cfg_vars, thread_vars>>

\* getopt_long returns -1: parse_args returns the config.
EndOfArgs ==
    /\ phase = "parsing"
    /\ phase' = "allocating"
    /\ UNCHANGED <<cfg_vars, nargs, thread_vars>>

(***************************************************************************)
(* main, "Initializing memory": CXL_INTERLEAVE maps every -p address and   *)
(* CXL_MULTI allocates num_cxl_buffers buffers into interleave_buffers;    *)
(* every other mode gets one buffer.  Any open, mmap or allocation that    *)
(* fails frees what was taken and returns 1; otherwise the threads start.  *)
(***************************************************************************)
InterleaveBufferCount ==
    CASE mode = "CXL_INTERLEAVE" -> num_cxl_addrs
      [] mode = "CXL_MULTI"      -> num_cxl_buffers
      [] OTHER                   -> 0

Allocate ==
    /\ phase = "allocating"
    /\ \/ /\ phase' = "running"
          /\ nbuf' = InterleaveBufferCount
       \/ /\ phase' = "exited"
          /\ UNCHANGED nbuf
    /\ UNCHANGED <<cfg_vars, nargs, offset, buffer_idx, stop_flag, joined, exited,
                   sweep, done>>

\* A thread of the loop still runs its loop, and finds stop_flag clear.
Looping(t) == phase = "running" /\ t \notin exited /\ ~stop_flag

\* A division by zero ends the process.
Crash ==
    /\ phase' = "crashed"
    /\ UNCHANGED <<offset, buffer_idx, sweep, done>>

\* One turn of the loop: memcpy at buffer b and offset, then the new offset
\* and the next buffer nb.  Coming back to a pair of this round closes it.
Turn(t, b, nb) ==
    IF WrapModulus = 0
    THEN Crash
    ELSE LET next  == NextOffset(offset[t])
             round == sweep[t] \cup {<<b, offset[t]>>}
         IN  /\ offset' = [offset EXCEPT ![t] = next]
             /\ buffer_idx' = [buffer_idx EXCEPT ![t] = nb]
             /\ IF <<nb, next>> \in round
                THEN /\ sweep' = [sweep EXCEPT ![t] = {}]
                     /\ done' = [done EXCEPT ![t] = round]
                ELSE /\ sweep' = [sweep EXCEPT ![t] = round]
                     /\ UNCHANGED done
             /\ UNCHANGED phase

\* One turn over the single buffer.
SystemTurn(t) ==
    /\ mode \notin InterleaveModes /\ Looping(t)
    /\ Turn(t, 0, 0)
    /\ UNCHANGED <<cfg_vars, nargs, nbuf, stop_flag, joined, exited>>

\* One turn over buffers[buffer_idx % buffers.size()]; the index is taken
\* modulo the size before the copy, and then advanced.
InterleaveTurn(t) ==
    /\ mode \in InterleaveModes /\ Looping(t)
    /\ IF nbuf = 0
       THEN Crash
       ELSE Turn(t, buffer_idx[t], (buffer_idx[t] + 1) % nbuf)
    /\ UNCHANGED <<cfg_vars, nargs, nbuf, stop_flag, joined, exited>>

system_reader_thread(t) == t \in Readers /\ SystemTurn(t)

system_writer_thread(t) == t \in Writers /\ SystemTurn(t)

interleave_reader_thread(t) == t \in Readers /\ InterleaveTurn(t)

interleave_writer_thread(t) == t \in Writers /\ InterleaveTurn(t)

\* The loop test finds stop_flag set.
ThreadExits(t) ==
    /\ phase # "crashed" /\ t \notin exited /\ stop_flag
    /\ exited' = exited \cup {t}
    /\ UNCHANGED <<cfg_vars, nargs, nbuf, offset, buffer_idx, stop_flag, phase,
                   joined, sweep, done>>

\* main: sleep_for(duration) ends; stop_flag.store(true).
StopBench ==
    /\ phase = "running"
    /\ stop_flag' = TRUE /\ phase' = "stopped"
    /\ UNCHANGED <<cfg_vars, nargs, nbuf, offset, buffer_idx, joined, exited,
                   sweep, done>>

\* main joins a thread that has left its loop (the order of the joins is
\* not observable: each waits only for its own thread).
JoinThread(t) ==
    /\ phase = "stopped" /\ t \in exited \ joined
    /\ joined' = joined \cup {t}
    /\ UNCHANGED <<cfg_vars, nargs, nbuf, offset, buffer_idx, stop_flag, phase,
                   exited, sweep, done>>

Next ==
    \/ \E a \in Args : case_b(a) \/ case_s(a) \/ case_m(a) \/ case_c(a) \/ case_p(a)
                        \/ case_h(a)
    \/ EndOfArgs
    \/ Allocate
    \/ StopBench
    \/ \E t \in Threads :
          \/ system_reader_thread(t) \/ system_writer_thread(t)
          \/ interleave_reader_thread(t) \/ interleave_writer_thread(t)
          \/ ThreadExits(t) \/ JoinThread(t)

Spec == Init /\ [][Next]_vars

-----------------------------------------------------------------------------
(***************************************************************************)
(* "Move to next block with wrap-around" (and "Move to next block and      *)
(* buffer"): a thread comes back to a block it has already copied only    *)
(* after it has copied every byte of every buffer it walks.                *)
(***************************************************************************)
RoundCoversBuffer ==
    \A t \in Threads :
        done[t] # NoRound =>
            \A b \in Buffers, i \in 0 .. buffer_size - 1 :
                \E a \in done[t] : a[1] = b /\ i \in Bytes(a[2])

=============================================================================
