------------------------------ MODULE MCStorage ------------------------------
(***************************************************************************)
(* A small instance of each part of the storage, side by side: the parts   *)
(* share no state in the code, so a behaviour is one of one part.          *)
(***************************************************************************)
EXTENDS DiskStorage, FileSpans, BlockCaching, PieceCacheLists, MemoryBudget, RateLimiter,
        WriteQueue

VARIABLE part   \* the part that runs

Parts == {"files", "spans", "blocks", "lists", "budget", "rate", "queue"}

(* Block "a" lies in one file, "b" begins in the same one.                 *)
MCSpanFiles == [b \in DiskBlocks |-> IF b = "a" THEN <<"f">> ELSE <<"f", "g">>]

(* The same tasks serve in every part, and nothing tells them apart.       *)
Alike == Permutations(DiskTasks)

OtherVars(p) ==
    /\ part = p /\ UNCHANGED part
    /\ p # "files" => UNCHANGED diskVars
    /\ p # "spans" => UNCHANGED spanVars
    /\ p # "blocks" => UNCHANGED cachingVars
    /\ p # "lists" => UNCHANGED listVars
    /\ p # "budget" => UNCHANGED budgetVars
    /\ p # "rate" => UNCHANGED rateVars
    /\ p # "queue" => UNCHANGED queueVars

StorageInit ==
    /\ part \in Parts
    /\ DiskInit /\ CachingInit /\ ListsInit /\ BudgetInit /\ RateInit /\ QueueInit
    /\ SpansInit
    /\ part # "spans" => /\ lengths = [f \in Files |-> 1] /\ pieceLength = 1
                         /\ pieceCount = FileCount /\ block = [from |-> 0, size |-> 0]

StorageNext ==
    \/ DiskNext /\ OtherVars("files")
    \/ SpanStep /\ OtherVars("spans")
    \/ CachingNext /\ OtherVars("blocks")
    \/ ListsNext /\ OtherVars("lists")
    \/ BudgetNext /\ OtherVars("budget")
    \/ RateNext /\ OtherVars("rate")
    \/ QueueNext /\ OtherVars("queue")

StorageSpec ==
    StorageInit /\ [][StorageNext]_<<part, diskVars, spanVars, cachingVars, listVars, budgetVars,
                                     rateVars, queueVars>>

(* Every part's state is of its type. *)
StorageTypeOK ==
    /\ DiskTypeOK /\ SpansTypeOK /\ CachingTypeOK /\ ListsTypeOK /\ BudgetTypeOK /\ RateTypeOK
    /\ QueueTypeOK
=============================================================================
