--------------------------------- MODULE Dht ---------------------------------
(***************************************************************************)
(* The DHT node: a bucket of the routing table with its replacements, the  *)
(* queries of several lookups and the one task that receives answers,      *)
(* which refreshes buckets itself and hears nothing meanwhile.             *)
(*                                                                         *)
(* A lookup asks all it has to ask at once and looks at the answers when   *)
(* the last query has ended (join_all); the model has no more nodes than   *)
(* DHT_ALPHA, so which are closest does not matter.  A node is fresh       *)
(* (seen in the last 15 minutes) or stale; that it is bad after an hour,   *)
(* too, never matters: who is asked was fresh or named just before.  An    *)
(* answer names one other node or none.  All nodes fall into one bucket.   *)
(***************************************************************************)
EXTENDS Naturals, FiniteSets, Sequences, SequencesExt

CONSTANTS
    DhtNodes, LookupTasks,
    K,            \* DHT_BUCKET_SIZE
    FailLimit,    \* the failures that make a node bad
    MaxPending,   \* MAX_PENDING_DHT_QUERIES
    Tids,         \* transaction ids, two random bytes
    MaxIterations,\* DHT_MAX_ITERATIONS
    DhtScenarios, \* what happens in a behaviour of this instance
    MaxLookups,   \* bound on the lookups
    MaxUnasked,   \* bound on what comes unasked: queries of others, time that passes;
                  \* one for each scenario
    MaxRotations  \* bound on the rotations of the token secret

ASSUME DhtAssumption ==
    /\ {K, FailLimit, MaxPending, MaxIterations} \subseteq Nat \ {0}
    /\ {MaxLookups, MaxRotations} \subseteq Nat /\ "refresh" \notin LookupTasks
    /\ IsFiniteSet(DhtNodes)
    /\ DhtScenarios \subseteq {"online", "offline", "tokens"}
    /\ MaxUnasked \in [DhtScenarios -> Nat]

VARIABLES
    bucket,     \* nodes, the least recently seen first
    spare,      \* replacement_cache
    lookup,     \* what each task is about
    asks,       \* the queries of the rounds under way
    pending,    \* pending_queries: whose answer each id awaits
    inbox,      \* answers on their way or in the socket's buffer
    epoch,      \* how often the token secret was rotated
    tokens,     \* the tokens that nodes have been given, by the epoch
    peers,      \* the peer store: who has announced, with what token and when
    (* history *)
    streak,     \* failed queries since the node was last heard
    leaked,     \* ids left in pending_queries by a send that failed
    collided,   \* an id was in use when it was drawn again
    requeued,   \* nodes that were queued as replacement while they were one
    dhtScenario, lookups, unasked

dhtVars == <<bucket, spare, lookup, asks, pending, inbox, epoch, tokens, peers, streak, leaked,
             collided, requeued, dhtScenario, lookups, unasked>>

DhtTasks == LookupTasks \union {"refresh"}
Entries == [id : DhtNodes, fails : 0 .. FailLimit, age : {"fresh", "stale"}]
Queries == [task : DhtTasks, node : DhtNodes, tid : Tids, got : {"nothing", "answer", "failure"},
            named : SUBSET DhtNodes, ended : BOOLEAN]
Fresh(n) == [id |-> n, fails |-> 0, age |-> "fresh"]
Idle == [kind |-> "none", to |-> {}, queried |-> {}, new |-> {}, rounds |-> 0]

table == <<bucket, spare, requeued>>
querying == <<asks, pending, leaked, collided>>
storing == <<epoch, tokens, peers, dhtScenario>>

(* The table is empty at first; one that has been filled is a start too.   *)
DhtInit ==
    /\ \E order \in UNION {SetToSeqs(ids) : ids \in SUBSET DhtNodes} :
          Len(order) \in {0, K} /\ bucket = [i \in DOMAIN order |-> Fresh(order[i])]
    /\ spare = <<>> /\ lookup = [t \in DhtTasks |-> Idle] /\ asks = {}
    /\ pending = [tid \in Tids |-> {}] /\ inbox = {}
    /\ epoch = 0 /\ tokens = {} /\ peers = {}
    /\ streak = [n \in DhtNodes |-> 0] /\ leaked = {} /\ collided = FALSE /\ requeued = {}
    /\ dhtScenario \in DhtScenarios /\ lookups = 0 /\ unasked = 0

Refreshing == lookup["refresh"] # Idle

(* --------------------------- the routing table ------------------------- *)

Places(n) == {i \in DOMAIN bucket : bucket[i].id = n}
First(places) == CHOOSE i \in places : \A j \in places : i <= j
GoodNodes == {bucket[i].id : i \in {j \in DOMAIN bucket :
                                        bucket[j].fails = 0 /\ bucket[j].age = "fresh"}}

(* A node heard or heard of: moved to the end, put there, or queued.       *)
AddNode(n) ==
    \/ /\ Places(n) # {}
       /\ bucket' = Append(RemoveAt(bucket, First(Places(n))), Fresh(n))
       /\ UNCHANGED <<spare, requeued>>
    \/ /\ Places(n) = {} /\ Len(bucket) < K
       /\ bucket' = Append(bucket, Fresh(n)) /\ UNCHANGED <<spare, requeued>>
    \/ /\ Places(n) = {} /\ Len(bucket) = K /\ UNCHANGED bucket
       /\ IF Len(spare) = K THEN UNCHANGED <<spare, requeued>>
          ELSE /\ spare' = Append(spare, Fresh(n))
               /\ requeued' = IF \E i \in DOMAIN spare : spare[i].id = n
                              THEN requeued \union {n} ELSE requeued

(* Mutant: the node that is promoted takes over the place with its count.  *)
PromotedInPlace(i) ==
    IF spare = <<>> THEN RemoveAt(bucket, i)
    ELSE [bucket EXCEPT ![i].id = Head(spare).id, ![i].age = Head(spare).age]

(* Bucket::remove; the first replacement joins, as it was when it queued.  *)
Promoted(i) == RemoveAt(bucket, i) \o (IF spare = <<>> THEN <<>> ELSE <<Head(spare)>>)

MarkFailed(n) ==
    IF Places(n) = {} THEN UNCHANGED table
    ELSE LET i == First(Places(n))
             fails == bucket[i].fails + 1
         IN IF fails >= FailLimit
            THEN /\ bucket' = Promoted(i)
                 /\ spare' = IF spare = <<>> THEN spare ELSE Tail(spare)
                 /\ UNCHANGED requeued
            ELSE bucket' = [bucket EXCEPT ![i].fails = fails] /\ UNCHANGED <<spare, requeued>>

Unasked == unasked < MaxUnasked[dhtScenario] /\ unasked' = unasked + 1

(* 15 minutes have passed for a node or a replacement that was not seen.   *)
Ages ==
    /\ \/ /\ \E i \in DOMAIN bucket : bucket' = [bucket EXCEPT ![i].age = "stale"]
          /\ UNCHANGED spare
       \/ /\ \E i \in DOMAIN spare : spare' = [spare EXCEPT ![i].age = "stale"]
          /\ UNCHANGED bucket
    /\ Unasked
    /\ UNCHANGED <<requeued, lookup, querying, inbox, storing, streak, lookups>>

(* ------------------------------- queries ------------------------------- *)

(* bootstrap and announce_to_nodes ask an address; find_node and get_peers *)
(* the good nodes.                                                         *)
Targets(kind) == IF kind = "ping" THEN {{n} : n \in DhtNodes} ELSE {GoodNodes}
Rounds(kind) == IF kind = "get_peers" THEN MaxIterations ELSE 1

Begin(t, kind) ==
    /\ dhtScenario \in {"online", "offline"}
    /\ lookup[t] = Idle /\ lookups < MaxLookups /\ lookups' = lookups + 1
    /\ \E to \in Targets(kind) :
          lookup' = [lookup EXCEPT ![t] =
                        [Idle EXCEPT !.kind = kind, !.to = to, !.rounds = Rounds(kind)]]
    /\ UNCHANGED <<table, querying, inbox, storing, streak, unasked>>

(* Some bucket, this or another, has an oldest node that is not fresh.     *)
RefreshBucket == Begin("refresh", "find_node")

Query(t, n, tid, got) ==
    [task |-> t, node |-> n, tid |-> tid, got |-> got, named |-> {}, ended |-> got = "failure"]

(* send_query: over the limit it fails at once; an id in use is taken over *)
(* from its owner; an error of the socket returns without giving it back.  *)
(* The node answers, at some time, or not.                                 *)
Ask(t, n, tid) ==
    /\ n \in lookup[t].to
    /\ lookup' = [lookup EXCEPT ![t].to = @ \ {n}, ![t].queried = @ \union {n}]
    /\ \/ /\ Cardinality({i \in Tids : pending[i] # {}}) >= MaxPending
          /\ asks' = asks \union {Query(t, n, tid, "failure")}
          /\ UNCHANGED <<pending, inbox, leaked, collided>>
       \/ /\ Cardinality({i \in Tids : pending[i] # {}}) < MaxPending
          /\ pending' = [pending EXCEPT ![tid] = {<<t, n>>}]
          /\ collided' = (collided \/ pending[tid] # {})
          /\ \/ /\ asks' = asks \union {Query(t, n, tid, "nothing")}
                /\ \/ UNCHANGED inbox
                   \/ dhtScenario = "online"
                      /\ inbox' = inbox \union {[tid |-> tid, node |-> n]}
                /\ leaked' = leaked \ {tid}
             \/ /\ dhtScenario = "offline"
                /\ asks' = asks \union {Query(t, n, tid, "failure")}
                /\ leaked' = leaked \union {tid} /\ UNCHANGED inbox
    /\ UNCHANGED <<table, storing, streak, lookups, unasked>>

(* Nobody receives while the buckets are refreshed. *)
Hears(n) == ~Refreshing /\ AddNode(n) /\ streak' = [streak EXCEPT ![n] = 0]

(* The answer goes to whom the id belongs to now; a second one is dropped. *)
(* An error has no id of its sender: it is an answer nobody is heard by.   *)
HandleAnswer(m) ==
    /\ m \in inbox /\ inbox' = inbox \ {m}
    /\ \E named \in {{}} \union {{n} : n \in DhtNodes \ {m.node}} :
       /\ \/ Hears(m.node)
          \/ ~Refreshing /\ named = {} /\ UNCHANGED <<table, streak>>
       /\ asks' = {IF <<q.task, q.node>> \in pending[m.tid] /\ q.tid = m.tid
                        /\ ~q.ended /\ q.got = "nothing"
                   THEN [q EXCEPT !.got = "answer", !.named = named] ELSE q : q \in asks}
    /\ UNCHANGED <<lookup, pending, leaked, collided, storing, lookups, unasked>>

(* send_query returns: it has an answer, its time is up, or its sender was *)
(* dropped with the entry; it removes whatever has its id.                 *)
QueryEnds(q) ==
    /\ q \in asks /\ ~q.ended
    /\ asks' = (asks \ {q}) \union
               {[q EXCEPT !.ended = TRUE, !.got = IF @ = "answer" THEN @ ELSE "failure"]}
    /\ pending' = [pending EXCEPT ![q.tid] = {}] /\ leaked' = leaked \ {q.tid}
    /\ UNCHANGED <<table, lookup, inbox, collided, storing, streak, lookups, unasked>>

(* get_peers passes over the nodes it has asked already. *)
News(q) == IF lookup[q.task].kind = "get_peers" THEN q.named \ lookup[q.task].queried ELSE q.named

(* The results of a round, one after the other; a ping blames nobody.      *)
Conclude(q) ==
    LET l == lookup[q.task]
        news == News(q)
    IN /\ q \in asks /\ l.to = {} /\ \A p \in asks : p.task = q.task => p.ended
       /\ asks' = asks \ {q}
       /\ \/ /\ q.got = "answer" /\ l.kind # "ping" /\ news # {}
             /\ \E n \in news : AddNode(n)
             /\ lookup' = [lookup EXCEPT ![q.task].new = @ \union news]
             /\ UNCHANGED streak
          \/ /\ q.got = "answer" /\ (l.kind = "ping" \/ news = {})
             /\ UNCHANGED <<table, lookup, streak>>
          \/ /\ q.got = "failure" /\ l.kind # "ping" /\ MarkFailed(q.node)
             /\ streak' = [streak EXCEPT ![q.node] = @ + 1]
             /\ UNCHANGED lookup
          \/ /\ q.got = "failure" /\ l.kind = "ping" /\ UNCHANGED <<table, lookup, streak>>
       /\ UNCHANGED <<pending, leaked, collided, inbox, storing, lookups, unasked>>

(* get_peers goes on with the nodes it was told of, until there are none,  *)
(* it has peers enough or it has gone on long enough.                      *)
RoundEnds(t) ==
    /\ lookup[t] # Idle /\ lookup[t].to = {} /\ \A q \in asks : q.task # t
    /\ \/ lookup' = [lookup EXCEPT ![t] = Idle]
       \/ /\ lookup[t].rounds > 1 /\ lookup[t].new \ lookup[t].queried # {}
          /\ lookup' = [lookup EXCEPT ![t].to = lookup[t].new \ lookup[t].queried,
                                      ![t].new = {}, ![t].rounds = @ - 1]
    /\ UNCHANGED <<table, querying, inbox, storing, streak, lookups, unasked>>

(* --------------------------- queries of others ------------------------- *)

(* ping and find_node: the sender is added.  get_peers hands out a token.  *)
HandleQuery(n) ==
    /\ Unasked /\ Hears(n)
    /\ \/ UNCHANGED tokens
       \/ dhtScenario = "tokens" /\ tokens' = tokens \union {[node |-> n, epoch |-> epoch]}
    /\ UNCHANGED <<lookup, querying, inbox, epoch, peers, dhtScenario, lookups>>

(* Made for this node with the current secret or with the one before.      *)
ValidToken(n, token) == token.node = n /\ token.epoch \in {epoch, epoch - 1}

(* What a node announces again replaces what it announced before.          *)
AddPeer(n, token) ==
    {p \in peers : p.node # n} \union {[node |-> n, token |-> token, at |-> epoch]}

HandleAnnounce(n, token) ==
    /\ Unasked /\ Hears(n) /\ token \in tokens
    /\ peers' = IF ValidToken(n, token) THEN AddPeer(n, token) ELSE peers
    /\ UNCHANGED <<lookup, querying, inbox, epoch, tokens, dhtScenario, lookups>>

(* An arm of the same select: not while the buckets are refreshed.         *)
RotateTokens ==
    /\ dhtScenario = "tokens" /\ ~Refreshing /\ epoch < MaxRotations /\ epoch' = epoch + 1
    /\ UNCHANGED <<table, lookup, querying, inbox, tokens, peers, dhtScenario, streak, lookups,
                   unasked>>

DhtNext ==
    \/ Ages \/ RefreshBucket \/ RotateTokens
    \/ \E t \in LookupTasks, kind \in {"ping", "find_node", "get_peers"} : Begin(t, kind)
    \/ \E t \in DhtTasks, n \in DhtNodes, tid \in Tids : Ask(t, n, tid)
    \/ \E t \in DhtTasks : RoundEnds(t)
    \/ \E m \in inbox : HandleAnswer(m)
    \/ \E q \in asks : QueryEnds(q) \/ Conclude(q)
    \/ \E n \in DhtNodes : HandleQuery(n) \/ \E token \in tokens : HandleAnnounce(n, token)

DhtSpec == DhtInit /\ [][DhtNext]_dhtVars

(* ----------------------------- properties ------------------------------ *)

(* Every variable is of its type. *)
DhtTypeOK ==
    /\ bucket \in Seq(Entries) /\ spare \in Seq(Entries)
    /\ lookup \in [DhtTasks -> [kind : {"none", "ping", "find_node", "get_peers"},
                                to : SUBSET DhtNodes, queried : SUBSET DhtNodes,
                                new : SUBSET DhtNodes, rounds : 0 .. MaxIterations]]
    /\ asks \subseteq Queries /\ pending \in [Tids -> SUBSET (DhtTasks \X DhtNodes)]
    /\ inbox \subseteq [tid : Tids, node : DhtNodes]
    /\ epoch \in 0 .. MaxRotations
    /\ tokens \subseteq [node : DhtNodes, epoch : 0 .. MaxRotations]
    /\ \A p \in peers : p.token \in tokens
    /\ streak \in [DhtNodes -> Nat] /\ leaked \subseteq Tids /\ collided \in BOOLEAN
    /\ requeued \subseteq DhtNodes
    /\ dhtScenario \in DhtScenarios /\ unasked \in 0 .. MaxUnasked[dhtScenario]
    /\ lookups \in 0 .. MaxLookups

(* A node has no more failures than queries that failed since it was last  *)
(* heard, whatever was removed, promoted or queued twice in between: it is *)
(* not dropped for what another has done (mark_failed, Bucket::remove).    *)
FailuresOwn == \A i \in DOMAIN bucket : bucket[i].fails <= streak[bucket[i].id]

(* The bucket holds K nodes at most, each once unless it was queued twice, *)
(* and replacements wait only while it is full (Bucket::add, remove).      *)
BucketShape ==
    /\ Len(bucket) <= K /\ Len(spare) <= K /\ (spare # <<>> => Len(bucket) = K)
    /\ \A i, j \in DOMAIN bucket : bucket[i].id = bucket[j].id /\ i # j =>
           bucket[i].id \in requeued

(* An entry of pending_queries belongs to a query that waits, unless its   *)
(* send failed, and a query that waits has its entry, unless an id was     *)
(* drawn twice (send_query).                                               *)
PendingOwned ==
    /\ \A tid \in Tids : pending[tid] # {} =>
           \/ tid \in leaked
           \/ \E q \in asks : q.tid = tid /\ ~q.ended /\ <<q.task, q.node>> \in pending[tid]
    /\ \A q \in asks : ~q.ended => pending[q.tid] = {<<q.task, q.node>>} \/ collided

(* Who is in the peer store had a token of its own, from this secret or    *)
(* the one before (handle_query).                                          *)
AnnouncesAuthorised ==
    \A p \in peers : p.token.node = p.node /\ p.at - p.token.epoch \in {0, 1}

(* The table, the queries and the peer store stay true to what the other   *)
(* nodes did, whatever lookups, refreshes and answers run into each other. *)
TableKept == FailuresOwn /\ BucketShape /\ PendingOwned /\ AnnouncesAuthorised
=============================================================================
