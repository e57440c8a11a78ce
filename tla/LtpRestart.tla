----------------------------- MODULE LtpRestart ------------------------------
(***************************************************************************)
(* Engines whose processes end and are started again.  Nothing of an       *)
(* engine is kept: ltp_engine_init clears every table and numbers sessions *)
(* from 1, under the same engine id.  What is on its way survives.         *)
(***************************************************************************)
EXTENDS LtpProperties

CONSTANT Restarting  \* the engines whose process may end at any point

ASSUME RestartAssumption == Restarting \subseteq Engines

\* The process ends without a word, a power cut or a kill, and the next one
\* calls ltp_engine_init.
Restart(e) ==
  /\ e \in Restarting
  /\ exports' = [exports EXCEPT ![e] = [s \in ExportSlots |-> FreeExport]]
  /\ imports' = [imports EXCEPT ![e] = [s \in ImportSlots |-> FreeImport]]
  /\ timers' = [timers EXCEPT ![e] = [i \in TimerSlots |-> NoTimer]]
  /\ next' = [next EXCEPT ![e] = 1]
  /\ waiting' = [waiting EXCEPT ![e] = 0]
  /\ UNCHANGED <<inbox, history>>

RestartNext == Next \/ \E e \in Engines : Restart(e)

RestartSpec == Init /\ [][RestartNext]_vars
=============================================================================
