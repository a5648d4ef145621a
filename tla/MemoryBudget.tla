---------------------------- MODULE MemoryBudget ----------------------------
(***************************************************************************)
(* The budget that permits are taken from: try_allocate reads the usage,   *)
(* checks the limit and exchanges the usage if nobody has changed it since *)
(* (compare_exchange_weak, which may also fail for nothing).               *)
(***************************************************************************)
EXTENDS Integers, FiniteSets

CONSTANTS
    BudgetUsers,    \* tasks with at most one permit each
    BudgetLimit,    \* total_limit
    MaxBudgetCalls  \* bound on the calls

ASSUME BudgetAssumption ==
    IsFiniteSet(BudgetUsers) /\ BudgetLimit \in Nat /\ MaxBudgetCalls \in Nat

VARIABLES
    usage,     \* current_usage
    permit,    \* bytes of each task's MemoryPermit, 0 for none
    granted,   \* how many of them try_allocate has granted
    wanted,    \* what the task asks for, 0 when it does not
    seen,      \* the usage it has read
    budgetCalls

budgetVars == <<usage, permit, granted, wanted, seen, budgetCalls>>

Sizes == 1 .. BudgetLimit
Nobody == [u \in BudgetUsers |-> 0]

BudgetInit ==
    /\ usage = 0 /\ permit = Nobody /\ granted = Nobody /\ wanted = Nobody /\ seen = Nobody
    /\ budgetCalls = 0

BudgetCall == budgetCalls < MaxBudgetCalls /\ budgetCalls' = budgetCalls + 1

(* Does not fit: try_allocate returns, allocate yields and tries again.    *)
LoadUsage(u, n) ==
    /\ permit[u] = 0 /\ wanted[u] = 0 /\ BudgetCall
    /\ IF usage + n > BudgetLimit THEN UNCHANGED <<wanted, seen>>
       ELSE wanted' = [wanted EXCEPT ![u] = n] /\ seen' = [seen EXCEPT ![u] = usage]
    /\ UNCHANGED <<usage, permit, granted>>

(* Mutant: the sum is stored without comparing. *)
StoreUsage(u) ==
    /\ wanted[u] > 0
    /\ usage' = seen[u] + wanted[u]
    /\ permit' = [permit EXCEPT ![u] = wanted[u]]
    /\ granted' = [granted EXCEPT ![u] = wanted[u]]
    /\ wanted' = [wanted EXCEPT ![u] = 0] /\ seen' = [seen EXCEPT ![u] = 0]
    /\ UNCHANGED budgetCalls

ExchangeUsage(u) ==
    /\ wanted[u] > 0 /\ usage = seen[u]
    /\ usage' = usage + wanted[u]
    /\ permit' = [permit EXCEPT ![u] = wanted[u]]
    /\ granted' = [granted EXCEPT ![u] = wanted[u]]
    /\ wanted' = [wanted EXCEPT ![u] = 0] /\ seen' = [seen EXCEPT ![u] = 0]
    /\ UNCHANGED budgetCalls

(* The exchange has failed: the limit is checked against the new usage.    *)
ReloadUsage(u) ==
    /\ wanted[u] > 0 /\ usage # seen[u]
    /\ IF usage + wanted[u] > BudgetLimit
       THEN wanted' = [wanted EXCEPT ![u] = 0] /\ seen' = [seen EXCEPT ![u] = 0]
       ELSE seen' = [seen EXCEPT ![u] = usage] /\ UNCHANGED wanted
    /\ UNCHANGED <<usage, permit, granted, budgetCalls>>

(* The limit is not looked at. *)
Resize(u, n) ==
    /\ permit[u] > 0 /\ BudgetCall
    /\ usage' = usage + (n - permit[u])
    /\ permit' = [permit EXCEPT ![u] = n]
    /\ granted' = [granted EXCEPT ![u] = IF n < @ THEN n ELSE @]
    /\ UNCHANGED <<wanted, seen>>

Release(u) ==
    /\ permit[u] > 0
    /\ usage' = usage - permit[u]
    /\ permit' = [permit EXCEPT ![u] = 0] /\ granted' = [granted EXCEPT ![u] = 0]
    /\ UNCHANGED <<wanted, seen, budgetCalls>>

BudgetNext ==
    \E u \in BudgetUsers :
        \/ \E n \in Sizes : LoadUsage(u, n) \/ Resize(u, n)
        \/ ExchangeUsage(u) \/ ReloadUsage(u) \/ Release(u)

BudgetSpec == BudgetInit /\ [][BudgetNext]_budgetVars

-----------------------------------------------------------------------------
(* The bytes of all tasks, counted one by one. *)
SumOf(f) == Cardinality(UNION {{u} \X (1 .. f[u]) : u \in BudgetUsers})

BudgetTypeOK ==
    /\ usage \in Nat /\ {permit, granted, wanted} \subseteq [BudgetUsers -> 0 .. BudgetLimit]
    /\ seen \in [BudgetUsers -> Nat] /\ budgetCalls \in 0 .. MaxBudgetCalls

(* The usage is exactly what the permits hold, whatever allocations race,  *)
(* and only what permits were grown by goes beyond the limit.              *)
BudgetKept ==
    /\ usage = SumOf(permit)
    /\ usage <= BudgetLimit + SumOf([u \in BudgetUsers |-> permit[u] - granted[u]])

=============================================================================
