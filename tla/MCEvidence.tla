----------------------------- MODULE MCEvidence -----------------------------
(***************************************************************************)
(* The owner gate's evidence chain as TLC explores it.  The gate's own     *)
(* stages, the package and its verdict, the comparison inside it, a demo   *)
(* run and a safety leg meet only in what they hand over (OwnerGate takes  *)
(* a piece's fault, Reconcile a leg's deals), so each is explored while    *)
(* the others rest.                                                        *)
(***************************************************************************)
EXTENDS Reconcile, OwnerGate, DemoHarness, SafetyLegs, GateSelfcheck

CONSTANTS g1, g2

VARIABLE part

vars == <<part, reconcileVars, gateVars, demoVars, legVars, selfVars>>

Columns == {<<1, 2>>, <<2, 0>>}
GuardSets == {{}, {"trace"}}
SomeScopes == {{g1}, Golds}
SomeNa == {{}, Golds, {g1}}
Days == {<<3, 1, 1>>, <<1, 2, 1>>, <<1, 1, 0>>}
Leg(symbol, model, barOnly) == [symbol |-> symbol, model |-> model, barOnly |-> barOnly]
ThreeLegs == <<Leg(g1, "m1_ohlc", TRUE), Leg(g1, "real_ticks", TRUE), Leg(g2, "real_ticks", FALSE)>>
SomeAccounts == {{"hedging", "netting"}, {"hedging"}, {"malformed"}}

RestReconcile == part # "reconcile" => expected = <<2, 0>> /\ path = Minutes /\ refused = {} /\ starts = 0
RestGate == part # "gate" => scope = Golds
RestDemo == part # "demo" => test = "restart" /\ accounts = {"malformed"} /\ kept = "none" /\ open = {}
RestLegs == part # "leg" => leg = "netting" /\ ea.mode = "netting"
RestSelf ==
    part # "selfcheck" => tree = [blob |-> "record", frozen |-> "head", bytes |-> [a \in Pinned |-> "committed"],
                                  head |-> "same", crlf |-> "", bound |-> 42, edits |-> 0]

Init ==
    /\ part \in {"reconcile", "gate", "demo", "leg", "selfcheck"}
    /\ ReconcileInit /\ RestReconcile
    /\ GateInit /\ RestGate
    /\ DemoInit /\ RestDemo
    /\ LegInit /\ RestLegs
    /\ SelfInit /\ RestSelf

Next ==
    \/ part = "reconcile" /\ ReconcileNext /\ UNCHANGED <<part, gateVars, demoVars, legVars, selfVars>>
    \/ part = "gate" /\ GateNext /\ UNCHANGED <<part, reconcileVars, demoVars, legVars, selfVars>>
    \/ part = "demo" /\ DemoNext /\ UNCHANGED <<part, reconcileVars, gateVars, legVars, selfVars>>
    \/ part = "leg" /\ LegNext /\ UNCHANGED <<part, reconcileVars, gateVars, demoVars, selfVars>>
    \/ part = "selfcheck" /\ SelfNext /\ UNCHANGED <<part, reconcileVars, gateVars, demoVars, legVars>>

Spec == Init /\ [][Next]_vars /\ (part = "demo" => DemoFairness)

\* A demo run from its launch to its record (Harness.run): the credentials leave the disk, what the
\* gate accepts was restored, a suspended test is never continued, and every run ends on record.
DemoIsSound ==
    /\ [](CredentialsOffDisk /\ AcceptedIsRestored)
    /\ SuspendedNotContinued
    /\ part = "demo" => RunIsRecorded
=============================================================================
