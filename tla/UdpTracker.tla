----------------------------- MODULE UdpTracker -----------------------------
(***************************************************************************)
(* One announce or scrape over UDP (BEP 15): connect, then the request     *)
(* itself, each on the one socket that was bound for the call, over a      *)
(* network that loses, delays and duplicates datagrams.  Of a datagram the *)
(* model has its action, transaction id and connection id; its length      *)
(* follows from the action, except that an error may have a short text.    *)
(***************************************************************************)
EXTENDS Naturals, FiniteSets, Bags

CONSTANTS
    UdpMaxRetries,  \* UDP_MAX_RETRIES
    TransactionIds, \* what rand::random() may return; 0 is one of an earlier call
    MaxDuplicated   \* bound on what the network duplicates

ASSUME UdpAssumption ==
    UdpMaxRetries \in Nat /\ TransactionIds \subseteq Nat \ {0} /\ MaxDuplicated \in Nat

VARIABLES
    asked,       \* the call: announce or scrape
    step,        \* connect, request, or ended
    sends,       \* attempts of this step so far
    waiting,     \* in recv, until its timeout
    transaction, \* transaction_id of this step
    connection,  \* connection_id
    outcome,     \* what the call returns
    (* the network and the tracker *)
    wire,        \* bag of datagrams on their way
    granted,     \* connection ids the tracker has given to this socket
    served,      \* its answers to the request
    (* history *)
    connects,    \* how often connect was sent
    strayed,     \* an answer to an earlier call was on its way to the same port
    duplicated,  \* how many datagrams were duplicated
    clipped      \* the tracker has sent an error with a short text

udpVars == <<asked, step, sends, waiting, transaction, connection, outcome, wire, granted, served,
             connects, strayed, duplicated, clipped>>

Actions == {"connect", "announce", "scrape"}
Requests == [to : {"tracker"}, action : Actions, tid : TransactionIds,
             cid : 0 .. UdpMaxRetries + MaxDuplicated]
Answers == [to : {"client"}, action : Actions \union {"error", "short error"},
            tid : TransactionIds \union {0}, cid : 0 .. UdpMaxRetries + MaxDuplicated]
Datagram(to, action, tid, cid) == [to |-> to, action |-> action, tid |-> tid, cid |-> cid]
One(m) == SetToBag({m})

(* The system may have given the port to an earlier call. *)
UdpInit ==
    /\ asked \in {"announce", "scrape"}
    /\ step = "connect" /\ sends = 0 /\ waiting = FALSE
    /\ transaction \in TransactionIds /\ connection = 0 /\ outcome = "none"
    /\ wire \in {EmptyBag} \union
                {One(Datagram("client", a, 0, 0)) : a \in {"connect", "announce"}}
    /\ strayed = (wire # EmptyBag)
    /\ granted = {} /\ served = {} /\ connects = 0 /\ duplicated = 0 /\ clipped = FALSE

call == <<asked, step, sends, waiting, transaction, connection, outcome, connects>>

(* ------------------------------- the call ------------------------------ *)

(* Mutant: the bound of the loop is taken in. *)
TriesInclusive == UdpMaxRetries + 1

Tries == IF step = "request" /\ asked = "scrape" THEN 1 ELSE UdpMaxRetries

Send ==
    /\ step # "ended" /\ ~waiting /\ sends < Tries
    /\ sends' = sends + 1 /\ waiting' = TRUE
    /\ connects' = IF step = "connect" THEN connects + 1 ELSE connects
    /\ wire' = wire (+) One(Datagram("tracker", IF step = "connect" THEN "connect" ELSE asked,
                                     transaction, connection))
    /\ UNCHANGED <<asked, step, transaction, connection, outcome, granted, served, strayed,
                   duplicated, clipped>>

(* An answer may always come later than the timeout. *)
TimesOut ==
    /\ waiting /\ waiting' = FALSE
    /\ UNCHANGED <<asked, step, sends, transaction, connection, outcome, wire, granted, served,
                   connects, strayed, duplicated, clipped>>

Ends(how) == step' = "ended" /\ waiting' = FALSE /\ outcome' = how
             /\ UNCHANGED <<sends, transaction, connection>>

GivesUp ==
    /\ step # "ended" /\ ~waiting /\ sends = Tries /\ Ends("timeout")
    /\ UNCHANGED <<asked, wire, granted, served, connects, strayed, duplicated, clipped>>

(* No address, no socket, or an error of it (an ICMP answer) ends the call. *)
SocketFails ==
    /\ step # "ended" /\ Ends("io")
    /\ UNCHANGED <<asked, wire, granted, served, connects, strayed, duplicated, clipped>>

(* Mutant: the id of any connect answer is taken. *)
ConnectedBy(m) ==
    CASE m.action = "short error" -> Ends("invalid")
      [] m.action = "error" -> Ends("failure")
      [] m.action \notin {"connect", "error", "short error"} -> Ends("invalid")
      [] m.action = "connect" ->
             /\ step' = "request" /\ sends' = 0 /\ waiting' = FALSE
             /\ transaction' \in TransactionIds /\ connection' = m.cid
             /\ UNCHANGED outcome

(* Too short, refused, the wrong action: all end the call; an answer to    *)
(* another transaction uses up this attempt.                               *)
Connected(m) ==
    CASE m.action = "short error" -> Ends("invalid")
      [] m.action = "error" -> Ends("failure")
      [] m.action \notin {"connect", "error", "short error"} -> Ends("invalid")
      [] m.action = "connect" /\ m.tid # transaction ->
             waiting' = FALSE /\ UNCHANGED <<step, sends, transaction, connection, outcome>>
      [] m.action = "connect" /\ m.tid = transaction ->
             /\ step' = "request" /\ sends' = 0 /\ waiting' = FALSE
             /\ transaction' \in TransactionIds /\ connection' = m.cid
             /\ UNCHANGED outcome

(* An announce answer has 20 bytes or more, a connect answer 16.           *)
TooShort(m) == asked = "announce" /\ m.action \in {"connect", "short error"}

(* The first datagram decides. *)
Answered(m) ==
    Ends(CASE TooShort(m) \/ m.tid # transaction -> "invalid"
           [] ~TooShort(m) /\ m.tid = transaction ->
                  IF m.action \in {"error", "short error"} THEN "failure"
                  ELSE IF m.action = asked THEN "ok" ELSE "invalid")

Receive(m) ==
    /\ waiting /\ BagIn(m, wire) /\ m.to = "client"
    /\ wire' = wire (-) One(m)
    /\ IF step = "connect" THEN Connected(m) ELSE Answered(m)
    /\ UNCHANGED <<asked, granted, served, connects, strayed, duplicated, clipped>>

(* --------------------- the tracker and the network --------------------- *)

(* A tracker answers a request that has an id it has granted, and may      *)
(* refuse any.                                                             *)
TrackerAnswers(m) ==
    /\ BagIn(m, wire) /\ m.to = "tracker"
    /\ \E action \in {m.action, "error", "short error"} :
          LET cid == IF action = "connect" THEN Cardinality(granted) + 1 ELSE 0
              answer == Datagram("client", action, m.tid, cid)
          IN /\ m.action # "connect" /\ m.cid \notin granted => action # m.action
             /\ wire' = wire (-) One(m) (+) One(answer)
             /\ granted' = IF action = "connect" THEN granted \union {cid} ELSE granted
             /\ served' = IF m.action = "connect" THEN served ELSE served \union {answer}
             /\ clipped' = (clipped \/ action = "short error")
    /\ UNCHANGED <<call, strayed, duplicated>>

Lose(m) ==
    /\ BagIn(m, wire) /\ wire' = wire (-) One(m)
    /\ UNCHANGED <<call, granted, served, strayed, duplicated, clipped>>

Duplicate(m) ==
    /\ BagIn(m, wire) /\ duplicated < MaxDuplicated
    /\ wire' = wire (+) One(m) /\ duplicated' = duplicated + 1
    /\ UNCHANGED <<call, granted, served, strayed, clipped>>

UdpNext ==
    \/ Send \/ TimesOut \/ GivesUp \/ SocketFails
    \/ \E m \in BagToSet(wire) : Receive(m) \/ TrackerAnswers(m) \/ Lose(m) \/ Duplicate(m)

UdpSpec == UdpInit /\ [][UdpNext]_udpVars

(* ----------------------------- properties ------------------------------ *)

(* Every variable is of its type. *)
UdpTypeOK ==
    /\ asked \in {"announce", "scrape"} /\ step \in {"connect", "request", "ended"}
    /\ sends \in 0 .. UdpMaxRetries /\ waiting \in BOOLEAN
    /\ transaction \in TransactionIds /\ connection \in 0 .. UdpMaxRetries + MaxDuplicated
    /\ outcome \in {"none", "ok", "failure", "timeout", "invalid", "io"}
    /\ BagToSet(wire) \subseteq Requests \union Answers
    /\ granted \subseteq Nat \ {0} /\ served \subseteq Answers
    /\ connects \in 0 .. UdpMaxRetries /\ strayed \in BOOLEAN
    /\ duplicated \in 0 .. MaxDuplicated /\ clipped \in BOOLEAN

(* A request carries a connection id the tracker gave to this socket; a    *)
(* call that succeeds has the tracker's answer to that request; and a call *)
(* ends as invalid only after a stray, a repeated connect or a duplicate   *)
(* left it an answer that is not its own, or after a refusal too short to  *)
(* be read as one (UdpTracker::connect, announce, scrape).                 *)
AnswersOwn ==
    /\ step = "request" => connection \in granted
    /\ outcome = "ok" => /\ connection \in granted
                         /\ Datagram("client", asked, transaction, 0) \in served
    /\ outcome = "invalid" => strayed \/ connects > 1 \/ duplicated > 0 \/ clipped
=============================================================================
