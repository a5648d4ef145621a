----------------------------- MODULE WriteQueue -----------------------------
(***************************************************************************)
(* The write queue of the caching disk manager: operations of several      *)
(* priorities, the dispatcher that sorts a batch and deals it out to the   *)
(* workers by file, and the workers, which keep a handle per file and seek *)
(* only when an operation does not begin where the last one ended.         *)
(***************************************************************************)
EXTENDS Integers, Sequences, FiniteSets

CONSTANTS
    QueueFiles,    \* file indexes
    Offsets,       \* the places in a file where an operation may begin
    WriteSizes,    \* the number of places an operation may write
    Workers,       \* number of workers
    QueueLength,   \* capacity of the channel to the dispatcher
    BatchSize,     \* IO_BATCH_SIZE
    MaxWrites      \* bound on the operations

ASSUME WriteQueueAssumption ==
    /\ {QueueFiles, Offsets, WriteSizes} \subseteq SUBSET Nat
    /\ {Workers, QueueLength, BatchSize} \subseteq Nat \ {0} /\ MaxWrites \in Nat

VARIABLES
    submitted,   \* the channel to the dispatcher
    dealt,       \* the channel to each worker, batches put end to end
    position,    \* where the next write of a file's handle goes
    expected,    \* last_write_offset; -1 for u64::MAX, and before there is a handle
    content,     \* the operation whose data each place holds, 0 for none
    latest,      \* history: the operation accepted last for each place
    reordered,   \* history: places for which a later operation was sorted before
    short,       \* history: files with a write that has failed half-way
    spoilt,      \* history: places of failed writes, and of those a failure has misplaced
    writes       \* operations so far

queueVars == <<submitted, dealt, position, expected, content, latest, reordered, short, spoilt, writes>>

Priorities == 0 .. 1
WorkerIds == 0 .. Workers - 1
Place == QueueFiles \X Offsets

QueueInit ==
    /\ submitted = <<>> /\ dealt = [w \in WorkerIds |-> <<>>]
    /\ position = [f \in QueueFiles |-> 0] /\ expected = [f \in QueueFiles |-> -1]
    /\ content = [p \in Place |-> 0] /\ latest = [p \in Place |-> 0]
    /\ reordered = {} /\ short = {} /\ spoilt = {} /\ writes = 0

(* The places from `at` on, as many as `size`, that there are.             *)
Covered(f, at, size) == {p \in Place : p[1] = f /\ at <= p[2] /\ p[2] < at + size}
Target(op) == Covered(op.file, op.at, op.size)

(* submit refuses what does not fit. *)
Submit(f, o, size, priority) ==
    /\ writes < MaxWrites /\ Len(submitted) < QueueLength
    /\ writes' = writes + 1
    /\ submitted' = Append(submitted, [id |-> writes', file |-> f, at |-> o, size |-> size,
                                       rank |-> priority])
    /\ latest' = [p \in Place |-> IF p \in Covered(f, o, size) THEN writes' ELSE latest[p]]
    /\ UNCHANGED <<dealt, position, expected, content, reordered, short, spoilt>>

(* Mutant: operations of the same key in the opposite order. *)
SoonerUnstable(op1, op2) ==
    \/ op1.rank < op2.rank
    \/ op1.rank = op2.rank /\ op1.file < op2.file
    \/ op1.rank = op2.rank /\ op1.file = op2.file /\ op1.at < op2.at
    \/ op1.rank = op2.rank /\ op1.file = op2.file /\ op1.at = op2.at /\ op1.id > op2.id

(* By priority, file and offset; the sort is stable. *)
Sooner(op1, op2) ==
    \/ op1.rank < op2.rank
    \/ op1.rank = op2.rank /\ op1.file < op2.file
    \/ op1.rank = op2.rank /\ op1.file = op2.file /\ op1.at < op2.at
    \/ op1.rank = op2.rank /\ op1.file = op2.file /\ op1.at = op2.at /\ op1.id < op2.id

(* Sorted: as many of the operations precede each as there are places      *)
(* before it.                                                              *)
InOrder(ops) ==
    [i \in 1 .. Cardinality(ops) |->
        CHOOSE op \in ops : Cardinality({first \in ops : Sooner(first, op)}) = i - 1]

(* Where a later operation of the batch overlaps an earlier one and comes  *)
(* before it: it has the higher priority, or begins at a lower offset.     *)
Overlapped(batch) ==
    {p \in Place : \E early, late \in batch :
        /\ p \in Target(early) \cap Target(late) /\ early.id < late.id
        /\ late.rank < early.rank \/ (late.rank = early.rank /\ late.at < early.at)}

(* Everything that is waiting, up to a batch. *)
Dispatch ==
    /\ submitted # <<>>
    /\ \E n \in 1 .. Len(submitted) :
         /\ n = IF Len(submitted) < BatchSize THEN Len(submitted) ELSE BatchSize
         /\ LET batch == {submitted[i] : i \in 1 .. n}
            IN /\ dealt' = [w \in WorkerIds |->
                     dealt[w] \o InOrder({op \in batch : op.file % Workers = w})]
               /\ reordered' = reordered \cup Overlapped(batch)
         /\ submitted' = SubSeq(submitted, n + 1, Len(submitted))
    /\ UNCHANGED <<position, expected, content, latest, short, spoilt, writes>>

(* process_write: no seek where the last write is said to have ended.      *)
(* `done` of the places are written, and a write that falls short either   *)
(* returns the error (`told`) or, failing behind the handle, has already   *)
(* been counted; its error comes with the next one.                        *)
Work(w) ==
    /\ dealt[w] # <<>>
    /\ LET op == Head(dealt[w])
           at == IF expected[op.file] = op.at THEN position[op.file] ELSE op.at
       IN \E done \in 0 .. op.size, told \in BOOLEAN :
           /\ told => done < op.size
           /\ position' = [position EXCEPT ![op.file] = at + done]
           /\ expected' = IF told THEN expected
                          ELSE [expected EXCEPT ![op.file] = op.at + op.size]
           /\ content' = [p \in Place |->
                  IF p \in Covered(op.file, at, done) THEN op.id ELSE content[p]]
           /\ short' = IF done = op.size THEN short ELSE short \cup {op.file}
           /\ spoilt' = IF op.file \in short' /\ (done # op.size \/ at # op.at)
                        THEN spoilt \cup Target(op) \cup Covered(op.file, at, done) ELSE spoilt
    /\ dealt' = [dealt EXCEPT ![w] = Tail(@)]
    /\ UNCHANGED <<submitted, latest, reordered, writes>>

(* The file cannot be opened, or the seek fails: nothing has moved.        *)
WorkFails(w) ==
    /\ dealt[w] # <<>>
    /\ spoilt' = spoilt \cup Target(Head(dealt[w]))
    /\ dealt' = [dealt EXCEPT ![w] = Tail(@)]
    /\ UNCHANGED <<submitted, position, expected, content, latest, reordered, short, writes>>

QueueNext ==
    \/ \E f \in QueueFiles, o \in Offsets, size \in WriteSizes, priority \in Priorities :
         Submit(f, o, size, priority)
    \/ Dispatch
    \/ \E w \in WorkerIds : Work(w) \/ WorkFails(w)

QueueSpec == QueueInit /\ [][QueueNext]_queueVars

-----------------------------------------------------------------------------
Operations ==
    [id : 1 .. MaxWrites, file : QueueFiles, at : Offsets, size : WriteSizes, rank : Priorities]

QueueTypeOK ==
    /\ submitted \in Seq(Operations) /\ dealt \in [WorkerIds -> Seq(Operations)]
    /\ position \in [QueueFiles -> Nat] /\ expected \in [QueueFiles -> Nat \cup {-1}]
    /\ {content, latest} \subseteq [Place -> 0 .. MaxWrites]
    /\ {reordered, spoilt} \subseteq SUBSET Place /\ short \subseteq QueueFiles /\ writes \in 0 .. MaxWrites

(* When the queues are empty every place holds the operation accepted last *)
(* for it, through sorting, dealing and the seeks that are left out; not   *)
(* so where a later operation was sorted before one it overlaps, and where *)
(* a write has failed or, after one, was put in the wrong place.           *)
LastWriteWins ==
    submitted = <<>> /\ (\A w \in WorkerIds : dealt[w] = <<>>)
    => \A p \in Place \ (reordered \cup spoilt) : content[p] = latest[p]

=============================================================================
