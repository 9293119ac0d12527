------------------------------ MODULE ProbeGate ------------------------------
(***************************************************************************)
(* What a circuit breaker promises to the callers it protects, whatever    *)
(* its thresholds, windows and timers are.  A closed gate lets every call  *)
(* through; a gate that has tripped lets nothing through until it half     *)
(* opens; a half-open gate lets at most MaxProbes calls through before one *)
(* of them settles whether it closes or trips again.                       *)
(*                                                                         *)
(* ExecutionPipeline (the trade execution breaker) and ServiceFetch (the   *)
(* HTTP service breaker) are both shown to implement this module, the      *)
(* first with MaxProbes = 2, the second with MaxProbes = 1.                *)
(***************************************************************************)
EXTENDS Naturals

CONSTANTS MaxProbes,    \* calls a half-open gate may let through, at least 1
          ManualClose   \* whether an operator may close the gate by hand

VARIABLES gate,         \* "CLOSED", "OPEN" or "HALF_OPEN"
          probes        \* calls let through since the gate last half opened

gateVars == <<gate, probes>>

GateInit == gate = "CLOSED" /\ probes = 0

Trip == /\ gate \in {"CLOSED", "HALF_OPEN"}
        /\ gate' = "OPEN"
        /\ UNCHANGED probes

HalfOpen == /\ gate = "OPEN"
            /\ gate' = "HALF_OPEN"
            /\ probes' = 1

Probe == /\ gate = "HALF_OPEN"
         /\ probes < MaxProbes
         /\ probes' = probes + 1
         /\ UNCHANGED gate

Settle == /\ gate = "HALF_OPEN"
          /\ gate' = "CLOSED"
          /\ UNCHANGED probes

ForceClose == ManualClose /\ gate' = "CLOSED" /\ UNCHANGED probes

GateNext == Trip \/ HalfOpen \/ Probe \/ Settle \/ ForceClose

GateSpec == GateInit /\ [][GateNext]_gateVars
=============================================================================
