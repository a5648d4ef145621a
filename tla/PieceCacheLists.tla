-------------------------- MODULE PieceCacheLists ---------------------------
(***************************************************************************)
(* The adaptive replacement cache of whole pieces: the lists t1 and t2 of  *)
(* pieces held, the lists b1 and b2 of the keys evicted from them, the     *)
(* target p of t1's length and the count of the memory in use.             *)
(*                                                                         *)
(* Each list has a lock of its own, so get and insert are several steps:   *)
(* looking, evicting, putting the piece in, counting it.  Pieces are of    *)
(* one size, the unit of memory.                                           *)
(***************************************************************************)
EXTENDS Integers, Sequences, SequencesExt, FiniteSets

CONSTANTS
    CacheKeys,     \* pieces
    CacheUsers,    \* tasks
    Capacity,      \* capacity, in pieces
    MaxCacheCalls  \* bound on the calls

ASSUME ListsAssumption ==
    /\ IsFiniteSet(CacheUsers)
    /\ Capacity \in Nat /\ MaxCacheCalls \in Nat

VARIABLES
    t1, t2, b1, b2,  \* each list from the least to the most recently used
    target,          \* p
    held,            \* memory_used
    call,            \* where each task's call is: at, key, the list it ends in
    twice,           \* history: promotions that found their key in t2 already
    overlapped,      \* history: insertions that met a piece on its way into a list
    cacheCalls

listVars == <<t1, t2, b1, b2, target, held, call, twice, overlapped, cacheCalls>>

(* A key is in a list once at most: the first found is all that leaves.    *)
Has(list, k) == Contains(list, k)
Renewed(list, k) == Append(RemoveFirst(list, k), k)
Added(list, k) == IF Has(list, k) THEN list ELSE Append(list, k)
Popped(list) == IF list = <<>> THEN <<>> ELSE Tail(list)
NoCall == [at |-> "none", key |-> "none", to |-> "none"]
Clamp(n) == IF n < 0 THEN 0 ELSE IF n > Capacity THEN Capacity ELSE n
Delta(own, other) == IF own >= other THEN 1 ELSE other \div (IF own = 0 THEN 1 ELSE own)

ListsInit ==
    /\ t1 = <<>> /\ t2 = <<>> /\ b1 = <<>> /\ b2 = <<>> /\ target = 0 /\ held = 0
    /\ call = [u \in CacheUsers |-> NoCall]
    /\ twice = 0 /\ overlapped = 0 /\ cacheCalls = 0

Calling(u) == call[u] = NoCall /\ cacheCalls < MaxCacheCalls /\ cacheCalls' = cacheCalls + 1
Continue(u, at, k, list) == call' = [call EXCEPT ![u] = [at |-> at, key |-> k, to |-> list]]
Return(u) == call' = [call EXCEPT ![u] = NoCall]

-----------------------------------------------------------------------------
(* get: a hit in t1 is promoted, one in t2 is renewed; the key may have    *)
(* moved by the time the lock is taken again.                              *)
Get(u, k) ==
    /\ Calling(u)
    /\ IF Has(t1, k) THEN Continue(u, "promote", k, "t2") ELSE UNCHANGED call
    /\ t2' = IF ~Has(t1, k) /\ Has(t2, k) THEN Renewed(t2, k) ELSE t2
    /\ UNCHANGED <<t1, b1, b2, target, held, twice, overlapped>>

Promote(u) ==
    LET k == call[u].key IN
    /\ call[u].at = "promote"
    /\ IF Has(t1, k) THEN t1' = RemoveFirst(t1, k) /\ Continue(u, "promoted", k, "t2")
       ELSE UNCHANGED t1 /\ Return(u)
    /\ UNCHANGED <<t2, b1, b2, target, held, twice, overlapped, cacheCalls>>

(* The sizes that t2.insert returns are dropped. *)
Promoted(u) ==
    LET k == call[u].key IN
    /\ call[u].at = "promoted"
    /\ t2' = Added(t2, k)
    /\ twice' = IF Has(t2, k) THEN twice + 1 ELSE twice
    /\ Return(u)
    /\ UNCHANGED <<t1, b1, b2, target, held, overlapped, cacheCalls>>

-----------------------------------------------------------------------------
(* insert *)

(* replace chooses the list; the piece leaves it under another lock.       *)
Victim(p, inB2) ==
    IF t1 # <<>> /\ ((inB2 /\ Len(t1) = p) \/ (~inB2 /\ Len(t1) > p) \/ t2 = <<>>)
    THEN "replaceT1" ELSE "replaceT2"

Entering == {"popT1", "replaceT1", "replaceT2", "put", "promoted"}
Alone(u) == \A w \in CacheUsers \ {u} : call[w].at \notin Entering
Meets(u) == overlapped' = IF Alone(u) THEN overlapped ELSE overlapped + 1

(* A key evicted not long ago moves the target towards its list. *)
InsertGhost(u, k) ==
    /\ Calling(u)
    /\ LET g1 == RemoveFirst(b1, k)
           g2 == RemoveFirst(b2, k)
       IN IF Has(b1, k)
          THEN /\ target' = Clamp(target + Delta(Len(g1), Len(b2)))
               /\ b1' = g1 /\ UNCHANGED b2
          ELSE /\ Has(b2, k)
               /\ target' = Clamp(target - Delta(Len(g2), Len(b1)))
               /\ b2' = g2 /\ UNCHANGED b1
    /\ Continue(u, Victim(target', ~Has(b1, k)), k, "t2")
    /\ Meets(u)
    /\ UNCHANGED <<t1, t2, held, twice>>

(* Mutant: room is made only when the lists are longer than they may be. *)
MakeRoomLate(u, k) ==
    /\ Calling(u) /\ ~Has(b1, k) /\ ~Has(b2, k)
    /\ Continue(u, IF Len(t1) + Len(t2) > Capacity THEN Victim(target, FALSE) ELSE "put",
                k, "t1")
    /\ Meets(u)
    /\ UNCHANGED <<t1, t2, b1, b2, target, held, twice>>

(* A new key, or one that is in t1 or t2 already: nobody looks. *)
MakeRoom(u, k) ==
    LET total == Len(t1) + Len(t2) + Len(b1) + Len(b2)
        full == Len(t1) + Len(b1) >= Capacity
    IN
    /\ Calling(u) /\ ~Has(b1, k) /\ ~Has(b2, k)
    /\ Continue(u, IF full /\ Len(t1) >= Capacity THEN "popT1"
                   ELSE IF full \/ total >= Capacity THEN Victim(target, FALSE) ELSE "put",
                k, "t1")
    /\ b1' = IF full /\ Len(t1) < Capacity THEN Popped(b1) ELSE b1
    /\ b2' = IF ~full /\ total >= 2 * Capacity THEN Popped(b2) ELSE b2
    /\ Meets(u)
    /\ UNCHANGED <<t1, t2, target, held, twice>>

(* What the list holds now may not be what it held when it was chosen.     *)
Evict(u) ==
    LET at == call[u].at
        list == IF at = "replaceT2" THEN t2 ELSE t1
    IN
    /\ at \in {"popT1", "replaceT1", "replaceT2"}
    /\ t1' = IF at = "replaceT2" THEN t1 ELSE Popped(t1)
    /\ t2' = IF at = "replaceT2" THEN Popped(t2) ELSE t2
    /\ b1' = IF at = "replaceT1" /\ list # <<>> THEN Added(b1, Head(t1)) ELSE b1
    /\ b2' = IF at = "replaceT2" /\ list # <<>> THEN Added(b2, Head(t2)) ELSE b2
    /\ held' = IF list = <<>> THEN held ELSE held - 1
    /\ overlapped' = IF list = <<>> /\ ~(t1 = t2 /\ Alone(u)) THEN overlapped + 1 ELSE overlapped
    /\ Continue(u, "put", call[u].key, call[u].to)
    /\ UNCHANGED <<target, twice, cacheCalls>>

Put(u) ==
    LET k == call[u].key
        list == IF call[u].to = "t1" THEN t1 ELSE t2
    IN
    /\ call[u].at = "put"
    /\ IF call[u].to = "t1" THEN t1' = Added(t1, k) /\ UNCHANGED t2
       ELSE t2' = Added(t2, k) /\ UNCHANGED t1
    /\ IF Has(list, k) THEN Return(u)
       ELSE Continue(u, "count", k, call[u].to)
    /\ UNCHANGED <<b1, b2, target, held, twice, overlapped, cacheCalls>>

(* memory_used is counted after the lock is released. *)
Count(u) ==
    /\ call[u].at = "count"
    /\ held' = held + 1 /\ Return(u)
    /\ UNCHANGED <<t1, t2, b1, b2, target, twice, overlapped, cacheCalls>>

-----------------------------------------------------------------------------
(* A key in both lists is taken out of one of them. *)
RemoveKey(u, k) ==
    /\ Calling(u) /\ (Has(t1, k) \/ Has(t2, k))
    /\ t1' = RemoveFirst(t1, k)
    /\ t2' = IF Has(t1, k) THEN t2 ELSE RemoveFirst(t2, k)
    /\ held' = held - 1
    /\ UNCHANGED <<b1, b2, target, call, twice, overlapped>>

ListsNext ==
    \E u \in CacheUsers :
        \/ \E k \in CacheKeys :
             Get(u, k) \/ InsertGhost(u, k) \/ MakeRoom(u, k) \/ RemoveKey(u, k)
        \/ Promote(u) \/ Promoted(u) \/ Evict(u) \/ Put(u) \/ Count(u)

ListsSpec == ListsInit /\ [][ListsNext]_listVars

-----------------------------------------------------------------------------
CacheStages == Entering \cup {"promote", "count"}

ListsTypeOK ==
    /\ {t1, t2, b1, b2} \subseteq Seq(CacheKeys) /\ \A list \in {t1, t2, b1, b2} : IsInjective(list)
    /\ target \in 0 .. Capacity /\ held \in Int
    /\ call \in [CacheUsers ->
            {NoCall} \cup [at : CacheStages, key : CacheKeys, to : {"t1", "t2"}]]
    /\ {twice, overlapped} \subseteq Nat /\ cacheCalls \in 0 .. MaxCacheCalls

(* The tasks whose call has come to a stage. *)
CallsAt(at) == {u \in CacheUsers : call[u].at = at}

(* Whatever the interleaving, the memory counted is that of the pieces in  *)
(* the lists, of those on their way from t1 to t2 and less those not yet   *)
(* counted; only a promotion of a key that t2 has already loses one.  And  *)
(* the cache holds no more pieces than its capacity (one, if that is 0),   *)
(* but for insertions that looked for room while another piece was on its  *)
(* way into a list, or found the list they chose empty and not the other.  *)
MemoryCounted ==
    /\ held = Len(t1) + Len(t2) + Cardinality(CallsAt("promoted"))
              - Cardinality(CallsAt("count")) + twice
    /\ Len(t1) + Len(t2) <= (IF Capacity = 0 THEN 1 ELSE Capacity) + overlapped

=============================================================================
