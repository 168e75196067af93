-------------------------- MODULE InheritanceEstate --------------------------
(***************************************************************************)
(* The inheritance contract with what it keeps beside plans and claims:    *)
(* yield positions, wills, messages and notices.  These desks read the     *)
(* plan, its heirs, its owner and its trigger; only yield writes the plan, *)
(* and none reads another's records.                                       *)
(***************************************************************************)
EXTENDS InheritanceYield, InheritanceWills, InheritanceMessages

estateVars == <<yieldVars, willVars, messageVars, noticeVars>>
allVars == <<vars, estateVars>>

EstateTypeOK == InheritanceTypeOK /\ YieldTypeOK /\ WillTypeOK /\ MessageTypeOK

EstateInit == Init /\ YieldInit /\ WillInit /\ MessageInit

EstateNext ==
    \/ Next /\ UNCHANGED estateVars
    \/ YieldNext /\ UNCHANGED <<willVars, messageVars, noticeVars>>
    \/ WillNext /\ UNCHANGED <<yieldVars, messageVars, noticeVars>>
    \/ (MessageNext \/ NoticeNext) /\ UNCHANGED <<yieldVars, willVars>>

EstateSpec == EstateInit /\ [][EstateNext]_allVars

=============================================================================
