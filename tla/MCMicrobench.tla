---------------------------- MODULE MCMicrobench ----------------------------
(***************************************************************************)
(* TLC instantiation of Microbench: one reader and one writer, and sizes   *)
(* in units of a block.  The default sizes, a 4-unit buffer walked one     *)
(* unit at a time, have the default's shape (1 GiB in 4 KiB blocks, a      *)
(* whole number of blocks); -b 6 -s 2 has the same shape at three blocks.  *)
(* Up to three options: enough for -m, -b and -s together, or for -c      *)
(* before and after -m.                                                    *)
(***************************************************************************)
EXTENDS Microbench

CONSTANTS r, w

MCReaders == {r}
MCWriters == {w}

\* -b 6, -s 2, -m with every mode name and one unknown name, and -c and -p
\* lists of zero to two items, and -h.
MCArgs ==
    [opt : {"b"}, val : {6}] \cup [opt : {"s"}, val : {2}]
    \cup [opt : {"m"}, val : Modes \cup {"bogus"}]
    \cup [opt : {"c", "p"}, val : 0 .. 2] \cup [opt : {"h"}, val : {0}]

=============================================================================
