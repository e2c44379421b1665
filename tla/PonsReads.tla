------------------------------ MODULE PonsReads ------------------------------
(***************************************************************************)
(* The two kinds of reads that the Pons client makes of several calls: a   *)
(* composite read of fixed fields (SnapshotRead), and the enumeration of   *)
(* launch configurations (LaunchConfigs), which limits how many of its     *)
(* calls run at once.  One client makes one of them while the chain grows. *)
(***************************************************************************)
EXTENDS LaunchConfigs

VARIABLE operation   \* "read" or "enumerate", what the caller asked for

sessionVars == <<enumerationVars, operation>>

(* A composite read does not look at the configurations.                   *)
NoConfigurations == [b \in 1..MaxHead |-> [count |-> 0, enabled |-> {}]]

CompositeRead ==
    /\ operation = "read"
    /\ ReadInit
    /\ chain = NoConfigurations
    /\ counted = FALSE
    /\ listed = {}

Enumeration == operation = "enumerate" /\ EnumerationInit

PonsInit == CompositeRead \/ Enumeration

(* parallelCalls has no limit below the number of its tasks.               *)
WithoutLimit ==
    pc = "enter" /\ pc' = "send" => \A t \in 1..n : worker'[t] = "select"

ReadStep ==
    /\ operation = "read"
    /\ ReadNext
    /\ WithoutLimit
    /\ UNCHANGED <<enumVars, operation>>

EnumerationStep ==
    /\ operation = "enumerate"
    /\ EnumerationNext
    /\ UNCHANGED operation

PonsNext == ReadStep \/ EnumerationStep

PonsSpec == PonsInit /\ [][PonsNext]_sessionVars
=============================================================================
