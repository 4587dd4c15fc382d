--------------------------- MODULE GatewayPayments ---------------------------
(****************************************************************************)
(* What the fees service promises about online payments: a payment the       *)
(* gateway confirmed is credited at most once, by one row that stays, and a   *)
(* caller is told it succeeded only when it has been credited.               *)
(****************************************************************************)
EXTENDS Naturals

CONSTANTS GatewayIds, Entries, NoValue

VARIABLES
    recorded,   \* the row that credits a gateway payment, if any
    told        \* gateway payments somebody was told are settled

Init ==
    /\ recorded = [g \in GatewayIds |-> NoValue]
    /\ told = {}

Record(g, e) ==
    /\ recorded[g] = NoValue
    /\ recorded' = [recorded EXCEPT ![g] = e]
    /\ UNCHANGED told

Tell(g) ==
    /\ recorded[g] # NoValue
    /\ told' = told \cup {g}
    /\ UNCHANGED recorded

Next == \E g \in GatewayIds : Tell(g) \/ \E e \in Entries : Record(g, e)

Spec == Init /\ [][Next]_<<recorded, told>>

=============================================================================
