----------------------------- MODULE AtomicWorkflows -----------------------------
(***************************************************************************)
(* The step lists that the builders of                                     *)
(* archive/contracts/transaction-coordinator/src/workflows.rs hand to      *)
(* create_transaction (TransactionCoordinator).                            *)
(***************************************************************************)
EXTENDS Integers

\* Steps 1 to n that each depend on the one before; `final` ones name no rollback.
Chain(n, final) ==
    [i \in 1..n |-> [step_id |-> i, depends_on |-> i - 1, reversible |-> i \notin final]]

\* Listing, payment, ownership, royalties if there are any, and the end of the sale.
create_agent_sale_transaction == Chain(5, {5})
create_sale_transaction(royalties) == IF royalties THEN Chain(5, {5}) ELSE Chain(4, {4})
\* Listing, payment and deposit, the lease, and its end.
create_lease_transaction == Chain(4, {4})
\* Stake, request, lock on the agent, and the end of the set-up.
create_evolution_transaction == Chain(4, {4})
create_simple_transfer_transaction == Chain(2, {})
create_dependency_test_transaction == Chain(3, {})
=============================================================================
