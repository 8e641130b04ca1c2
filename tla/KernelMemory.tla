----------------------------- MODULE KernelMemory -----------------------------
(***************************************************************************)
(* Memory from the boot to the commands that allocate: kmain sets up       *)
(* frames, page tables and the heap with the module Memory, and then the   *)
(* terminals of the module Exec use the heap that heap_init left.          *)
(***************************************************************************)
EXTENDS Memory, Exec

kernelVars == <<memVars, vars, execVars>>

KernelInit == MemInit /\ Init /\ ExecInit

KernelNext ==
  \/ MemNext /\ UNCHANGED <<vars, execVars>>
  \/ phase = "up" /\ ExecNext /\ UNCHANGED memVars

KernelSpec == KernelInit /\ [][KernelNext]_kernelVars

=============================================================================
