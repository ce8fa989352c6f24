----------------------------- MODULE CommandOrders -----------------------------
(***************************************************************************)
(* What the dispatch path promises about equipment, whatever operators, the*)
(* optimizer, timeouts and crashes do: a command runs only on an order     *)
(* placed by someone entitled to place it; each order runs at most once    *)
(* and only after a check made with the e-stop released; an order placed by*)
(* the optimizer is for an action some admissible policy lets it run       *)
(* unattended, and is the only order that action ever gets.                *)
(***************************************************************************)
CONSTANTS
    Nonces,        \* orders
    Actions,
    Operators,     \* users entitled to order by approving
    Optimizer,     \* the unattended orderer
    Dispatchable,  \* actions that may be ordered at all
    Unattended,    \* actions the optimizer may order
    NoOrder

VARIABLES order, status, stop

orderVars == <<order, status, stop>>

OrdersFor(a) == {n \in Nonces : order[n] # NoOrder /\ order[n].action = a}

OrdersInit ==
    /\ order = [n \in Nonces |-> NoOrder]
    /\ status = [n \in Nonces |-> "none"]
    /\ stop = FALSE

Place(n, a, by) ==
    /\ order[n] = NoOrder
    /\ a \in Dispatchable
    /\ IF by = Optimizer
         THEN a \in Unattended /\ OrdersFor(a) = {}
         ELSE \A m \in OrdersFor(a) : order[m].by # Optimizer
    /\ order' = [order EXCEPT ![n] = [action |-> a, by |-> by]]
    /\ status' = [status EXCEPT ![n] = "open"]
    /\ UNCHANGED stop

Clear(n) ==
    /\ status[n] = "open"
    /\ ~stop
    /\ status' = [status EXCEPT ![n] = "cleared"]
    /\ UNCHANGED <<order, stop>>

Run(n) ==
    /\ status[n] = "cleared"
    /\ status' = [status EXCEPT ![n] = "executed"]
    /\ UNCHANGED <<order, stop>>

Drop(n) ==
    /\ status[n] \in {"open", "cleared"}
    /\ status' = [status EXCEPT ![n] = "dropped"]
    /\ UNCHANGED <<order, stop>>

SetStop(active) ==
    /\ stop' = active
    /\ UNCHANGED <<order, status>>

OrdersNext ==
    \/ \E n \in Nonces, a \in Actions, by \in Operators \cup {Optimizer} : Place(n, a, by)
    \/ \E n \in Nonces : Clear(n) \/ Run(n) \/ Drop(n)
    \/ \E active \in BOOLEAN : SetStop(active)

OrdersSpec == OrdersInit /\ [][OrdersNext]_orderVars
=============================================================================
