------------------------------- MODULE Security -------------------------------
(***************************************************************************)
(* The parts of the security layer.  They share no state beyond the events *)
(* they log, so that each behaviour here is one of a single part, the       *)
(* others at rest.                                                         *)
(***************************************************************************)
EXTENDS ThreatDetection, PolicyEnforcement, Confirmation, Sandbox, BashExecutor

VARIABLE part   \* the part this behaviour is about

Parts == {"monitoring", "enforcement", "confirmation", "sandbox", "shell"}

vars == <<part, monitoringVars, enforcementVars, confirmVars, sandboxVars, bashVars>>

Init ==
    /\ part \in Parts
    /\ DetectionInit /\ PolicyInit /\ ConfirmationInit /\ SandboxInit /\ BashInit
    /\ part /= "enforcement" => config = CHOOSE c \in Configs : TRUE

Next ==
    \/ /\ part = "monitoring" /\ DetectionNext
       /\ UNCHANGED <<part, enforcementVars, confirmVars, sandboxVars, bashVars>>
    \/ /\ part = "enforcement" /\ PolicyNext
       /\ UNCHANGED <<part, monitoringVars, confirmVars, sandboxVars, bashVars>>
    \/ /\ part = "confirmation" /\ ConfirmationNext
       /\ UNCHANGED <<part, monitoringVars, enforcementVars, sandboxVars, bashVars>>
    \/ /\ part = "sandbox" /\ SandboxNext
       /\ UNCHANGED <<part, monitoringVars, enforcementVars, confirmVars, bashVars>>
    \/ /\ part = "shell" /\ BashNext
       /\ UNCHANGED <<part, monitoringVars, enforcementVars, confirmVars, sandboxVars>>

Spec == Init /\ [][Next]_vars
=============================================================================
