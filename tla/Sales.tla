------------------------------- MODULE Sales -------------------------------
(***************************************************************************)
(* What the components of a sale share: the orders, and the processes that *)
(* may die while serving a request or executing a run.                     *)
(***************************************************************************)
EXTENDS MoneyDomain

CONSTANTS
    Orders,       \* one-time purchases
    MaxCrashes,   \* bound: processes that die
    HookMayCrash  \* whether a process that dies may be serving a request

ASSUME CrashAssumption == MaxCrashes \in Nat /\ HookMayCrash \in BOOLEAN

VARIABLE crashes

AProcessDies ==
    /\ crashes < MaxCrashes
    /\ crashes' = crashes + 1
=============================================================================
