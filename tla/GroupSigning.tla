---------------------------- MODULE GroupSigning ----------------------------
(***************************************************************************)
(* What the lab 2 group promises: the members go through the rounds in     *)
(* step.  Nobody signs a round before the server recorded the one before,  *)
(* and the server records a round only when everybody has signed it.       *)
(***************************************************************************)
EXTENDS Integers

CONSTANT N

VARIABLES
    signed,     \* how many rounds each member has signed
    recorded    \* how many rounds the server has recorded

vars == << signed, recorded >>

Init ==
    /\ signed = [i \in 1 .. N |-> 0]
    /\ recorded = 0

Sign(i) ==
    /\ signed[i] = recorded
    /\ recorded < N
    /\ signed' = [signed EXCEPT ![i] = @ + 1]
    /\ UNCHANGED recorded

Record ==
    /\ \A i \in 1 .. N : signed[i] > recorded
    /\ recorded' = recorded + 1
    /\ UNCHANGED signed

Next == Record \/ \E i \in 1 .. N : Sign(i)

Spec == Init /\ [][Next]_vars

=============================================================================
