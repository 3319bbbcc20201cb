------------------------------ MODULE MCDispatch ------------------------------
(***************************************************************************)
(* Dispatch on processors that exist, from a baseline x86-64 to a complete *)
(* Haswell, with what separates them: SSSE3 before POPCNT (Core 2), SSE4.1 *)
(* before SSE4.2 (Penryn), POPCNT before SSSE3 (K10), POPCNT without       *)
(* SSE4.1 (Bobcat), and the masks a hypervisor may present.                *)
(***************************************************************************)
EXTENDS Dispatch

K8 == {}
Core2 == {"SSSE3"}
Penryn == Core2 \cup {"SSE41"}
K10 == {"POPCNT", "LZCNT"}
Bobcat == {"SSSE3", "POPCNT", "LZCNT"}
Nehalem == Penryn \cup {"SSE42", "POPCNT"}
HaswellCPU == Nehalem \cup {"AVX2", "BMI1", "BMI2", "LZCNT"}
MaskedPOPCNT == HaswellCPU \ {"POPCNT"}
MaskedBMI == HaswellCPU \ {"BMI1", "BMI2", "LZCNT"}
NeoverseN1 == {"NEON"}

MCProcessors ==
    {K8, Core2, Penryn, K10, Bobcat, Nehalem, HaswellCPU, MaskedPOPCNT, MaskedBMI,
     NeoverseN1}
===============================================================================
