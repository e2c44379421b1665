----------------------------- MODULE PonsClient -----------------------------
(***************************************************************************)
(* The Pons client as one caller uses it: its start and its transactions   *)
(* (PonsCall), and the calls that revert, whose data the caller has read   *)
(* by ParseContractError before it goes on (ContractErrors).               *)
(***************************************************************************)
EXTENDS PonsCall, ContractErrors

clientVars == <<callVars, revertVars>>

ClientStart == CallInit /\ RevertInit

StartOrTransact ==
    /\ StartStep \/ (data = NoData /\ CallStep)
    /\ UNCHANGED revertVars

(* A read of the client reverts, or the simulation of a call.              *)
CallReverts ==
    /\ verdict = "client" /\ call = NoCall
    /\ Raise \/ Relay
    /\ UNCHANGED callVars

LookAtRevert ==
    /\ MustParseContractError \/ Handle
    /\ UNCHANGED callVars

ClientNext == StartOrTransact \/ CallReverts \/ LookAtRevert

ClientSpec == ClientStart /\ [][ClientNext]_clientVars /\ Fairness
=============================================================================
