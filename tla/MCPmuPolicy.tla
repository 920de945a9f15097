---------------------------- MODULE MCPmuPolicy ----------------------------
(***************************************************************************)
(* TLC instantiation of PmuPolicy.  The time factors reach each branch of  *)
(* the pseudo metrics: 71 ms gives a latency above 150 ns (a CXL tier) and *)
(* a utilisation of 91%, 231 ms a bandwidth above 1000 MB/s with 91%, and  *)
(* 399 ms the top of every period.  The localities straddle the 30 and 80  *)
(* thresholds, and the boosts straddle the decay step of 5 and the floor   *)
(* at 1 (a boost of 130 exceeds any base priority).                        *)
(***************************************************************************)
EXTENDS PmuPolicy

=============================================================================
