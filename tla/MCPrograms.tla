----------------------------- MODULE MCPrograms -----------------------------
(***************************************************************************)
(* The small programs for TLC, one of them at a time: the tools of lab1,   *)
(* lab2 and lab4, and the processes and threads of lab3, lab6, lab7 and    *)
(* lab9/main.c.                                                            *)
(***************************************************************************)
EXTENDS MCTools, ForkWait, PipeIPC, ProdCons, KeyedShm, FifoIPC

Init == ToolsInit /\ FwInit /\ PpInit /\ PcInit /\ KsInit /\ FfInit

ToolsUnused == TextUnused /\ LsUnused /\ ChUnused
FwUnused    == fwPc["parent"] = "none"
PpUnused    == ppPc["parent"] = "none"
PcUnused    == pcPc["main"] = "none"
KsUnused    == \A p \in Procs : ksPc[p] = "start" /\ signals[p] = {}
FfUnused    == ~AnyStarted /\ path = NoFifo   \* a FIFO that is left is one for lab6

vars == <<toolsVars, fwVars, ppVars, pcVars, ksVars, ffVars>>

Next ==
    \/ /\ FwUnused /\ PpUnused /\ PcUnused /\ KsUnused /\ FfUnused
       /\ ToolsNext /\ UNCHANGED <<fwVars, ppVars, pcVars, ksVars, ffVars>>
    \/ /\ ToolsUnused /\ PpUnused /\ PcUnused /\ KsUnused /\ FfUnused
       /\ FwNext /\ UNCHANGED <<toolsVars, ppVars, pcVars, ksVars, ffVars>>
    \/ /\ ToolsUnused /\ FwUnused /\ PcUnused /\ KsUnused /\ FfUnused
       /\ PpNext /\ UNCHANGED <<toolsVars, fwVars, pcVars, ksVars, ffVars>>
    \/ /\ ToolsUnused /\ FwUnused /\ PpUnused /\ KsUnused /\ FfUnused
       /\ PcNext /\ UNCHANGED <<toolsVars, fwVars, ppVars, ksVars, ffVars>>
    \/ /\ ToolsUnused /\ FwUnused /\ PpUnused /\ PcUnused /\ FfUnused
       /\ KsNext /\ UNCHANGED <<toolsVars, fwVars, ppVars, pcVars, ffVars>>
    \/ /\ ToolsUnused /\ FwUnused /\ PpUnused /\ PcUnused /\ KsUnused
       /\ FfNext /\ UNCHANGED <<toolsVars, fwVars, ppVars, pcVars, ksVars>>

Spec == Init /\ [][Next]_vars /\ PpFairness /\ FfFairness
=============================================================================
