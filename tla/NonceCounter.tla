---------------------------- MODULE NonceCounter ----------------------------
(***************************************************************************)
(* The nonce counter the hot path may believe in: taking a nonce and       *)
(* raising the counter are both instantaneous, and a raise whose target is *)
(* already behind changes nothing.                                         *)
(***************************************************************************)
EXTENDS Integers

CONSTANTS Callers, Modulus

VARIABLES
    next,     \* the nonce the next caller gets
    held,     \* held[c]: the nonces handed to caller c
    pending   \* pending[c]: target of c's raise in progress, -1 if none

counterVars == <<next, held, pending>>

Nonces == 0..Modulus - 1

CounterInit ==
    /\ next \in Nonces
    /\ held = [c \in Callers |-> {}]
    /\ pending = [c \in Callers |-> -1]

Take(c) ==
    /\ pending[c] = -1
    /\ held' = [held EXCEPT ![c] = @ \cup {next}]
    /\ next' = IF next = Modulus - 1 THEN 0 ELSE next + 1
    /\ UNCHANGED pending

Ask(c) ==
    /\ pending[c] = -1
    /\ \E v \in Nonces : pending' = [pending EXCEPT ![c] = v]
    /\ UNCHANGED <<next, held>>

Raise(c) ==
    /\ pending[c] # -1
    /\ next' = IF pending[c] > next THEN pending[c] ELSE next
    /\ pending' = [pending EXCEPT ![c] = -1]
    /\ UNCHANGED held

CounterNext == \E c \in Callers : Take(c) \/ Ask(c) \/ Raise(c)

CounterSpec == CounterInit /\ [][CounterNext]_counterVars
=============================================================================
