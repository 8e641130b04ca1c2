------------------------------- MODULE MCMemory -------------------------------
(***************************************************************************)
(* An instance of KernelMemory for TLC: pages of four bytes, page tables   *)
(* of eight pages, an address space of 128 bytes.                          *)
(***************************************************************************)
EXTENDS KernelMemory

R(base, length, usable) == [base |-> base, length |-> length, usable |-> usable]

\* Conventional memory and the rest, in one piece, with a hole and out of order,
\* too little for the tables or the heap (one with an entry that wraps), and no
\* memory at all.
MCMaps ==
  {<<R(0, 7, TRUE), R(8, 66, TRUE)>>,
   <<R(8, 22, TRUE), R(30, 2, FALSE), R(32, 46, TRUE)>>,
   <<R(48, 30, TRUE), R(0, 48, TRUE), R(130, 20, TRUE)>>,
   <<R(0, 28, TRUE)>>, <<R(0, 52, TRUE), R(60, 16380, TRUE)>>,
   <<R(8, 20, FALSE)>>}

=============================================================================
