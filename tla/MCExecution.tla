---------------------------- MODULE MCExecution ----------------------------
(***************************************************************************)
(* Three parts of the Expert Advisor that wait on an unreliable server or  *)
(* outlive the terminal, as TLC explores them: the retry queue around a    *)
(* call, the stop-loss guard's ladder, and the registries.  The guard's    *)
(* and the registries' modules have the server's answers as inputs, so     *)
(* each is explored while the others rest; Parts says which of them a run  *)
(* explores.                                                               *)
(***************************************************************************)
EXTENDS SlGuard, TradeExec, Registries

CONSTANT Parts

VARIABLE part

MCKnownOrNot == {0, 1}
MCAll == Kinds
MCAmbiguous == {"MARKET", "PARTIAL"}
\* The hashes of all strategies collide.
MCSameSlot == [id \in StrategyIds |-> 1]

ExecutionInit == part \in Parts /\ GuardInit /\ Init /\ RegInit

ExecutionNext ==
    \/ part = "guard" /\ GuardNext /\ UNCHANGED <<part, vars, regVars>>
    \/ part = "queue" /\ Next /\ UNCHANGED <<part, guardVars, regVars>>
    \/ part = "registry" /\ RegNext /\ UNCHANGED <<part, guardVars, vars>>

ExecutionSpec ==
    /\ ExecutionInit /\ [][ExecutionNext]_<<part, guardVars, vars, regVars>>
    /\ WF_guardVars(part = "guard" /\ OnTimer)
    /\ WF_vars(part = "queue" /\ ProcessQueue)
=============================================================================
