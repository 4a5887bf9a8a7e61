------------------------------ MODULE PaymentQueue ------------------------------
(***************************************************************************)
(* What the multi-signature wallet promises, whatever it stores: payments  *)
(* are ordered by members of a council, keep their content, and are made   *)
(* one after the other in the order they came, each once and with the      *)
(* assent of a quorum of the council there is when it is made.             *)
(***************************************************************************)
EXTENDS Storage

CONSTANTS
    Member,    \* who may sit on the council
    Payment,   \* what can be ordered
    Size(_)    \* how many members a part of the council has

VARIABLES
    council, quorum,   \* the members there are, and how many must assent
    ordered, made,     \* number of payments ordered, and of those made
    orders,            \* the payments ordered, by number
    assents            \* who assents to each

queueVars == <<council, quorum, ordered, made, orders, assents>>

Init ==
    /\ council = {} /\ quorum = 0
    /\ ordered = 0 /\ made = 0
    /\ orders = EmptyMap /\ assents = EmptyMap

\* The council and its quorum change together or one of them, and the quorum can be met.
Amend ==
    /\ council' \in SUBSET Member
    /\ quorum' \in 1..Size(council')
    /\ UNCHANGED <<ordered, made, orders, assents>>

Order(m, p) ==
    /\ m \in council
    /\ ordered' = ordered + 1
    /\ orders' = Put(orders, ordered', p)
    /\ assents' = Put(assents, ordered', {m})
    /\ UNCHANGED <<council, quorum, made>>

\* A member of the council changes its own mind about a payment that is not made.
Assent(m, n) ==
    /\ m \in council
    /\ n > made
    /\ \/ assents' = [assents EXCEPT ![n] = @ \cup {m}]
       \/ assents' = [assents EXCEPT ![n] = @ \ {m}]
    /\ UNCHANGED <<council, quorum, ordered, made, orders>>

Pay ==
    /\ made < ordered
    /\ Size(assents[made + 1] \cap council) >= quorum
    /\ made' = made + 1
    /\ UNCHANGED <<council, quorum, ordered, orders, assents>>

Next ==
    \/ Amend
    \/ \E m \in Member, p \in Payment : Order(m, p)
    \/ \E m \in Member, n \in 1..ordered : Assent(m, n)
    \/ Pay

Spec == Init /\ [][Next]_queueVars
=============================================================================
