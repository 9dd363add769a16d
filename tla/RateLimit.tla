----------------------------- MODULE RateLimit -----------------------------
(***************************************************************************)
(* How requests are limited.  A request to the public API is attributed to *)
(* a client address and pays one token into each of three buckets of that  *)
(* client; the statement that takes a token reads the clock before it has  *)
(* the bucket's row to itself.  Requests for links share one budget of the *)
(* admin process.                                                          *)
(***************************************************************************)
EXTENDS Integers, Sequences

CONSTANTS
    Requests,       \* numbers, in the order in which requests arrive
    Clients,        \* addresses of clients
    Proxies,        \* addresses within trusted_networks
    Forgeries,      \* forwarding headers that clients make up
    Refill,         \* tokens of each kind of bucket per unit of time
    Capacity,
    LinkBudget,     \* REQUESTS_PER_MINUTE for links
    LinkWindow,
    LastTime        \* bound of the clock

Categories == {"challenge", "submission"}

\* The buckets that enforce_limits asks, in turn.
BucketKinds ==
    {"public:minute", "challenge:minute", "challenge:hour", "submission:minute", "submission:hour"}

Asked(category) ==
    <<"public:minute">> \o IF category = "challenge" THEN <<"challenge:minute", "challenge:hour">>
                          ELSE <<"submission:minute", "submission:hour">>

ASSUME RateLimitAssumption ==
    /\ Clients \cup Proxies \subseteq STRING \ {"junk"} /\ Clients \cap Proxies = {} /\ Proxies # {}
    /\ \A forged \in Forgeries : forged \in Seq(STRING)
    /\ Requests \subseteq Nat
    /\ Refill \in [BucketKinds -> Nat] /\ Capacity \in [BucketKinds -> Nat]
    /\ {LinkBudget, LinkWindow, LastTime} \subseteq Nat \ {0}

VARIABLES
    clock,
    call,       \* each request
    bucket,     \* the rows of rate_buckets
    window,     \* the window of within_request_budget
    passed,     \* when each bucket, or the link budget, let a request pass
    waited      \* how long statements waited for a bucket's row

limitVars == <<clock, call, bucket, window, passed, waited>>

RateLimitInit ==
    /\ clock = 0
    /\ call = [q \in Requests |-> [op |-> "new"]]
    /\ bucket = <<>> /\ window = <<>>
    /\ passed = <<>> /\ waited = <<>>

-----------------------------------------------------------------------------
(* Client addresses *)

\* resolve_client_address: the header is read from its end for as long as the address before is a
\* trusted proxy's; what is not an address is an error, here {}.
ResolveClientAddress(peer, forwarded) ==
    LET route == Append(forwarded, peer)
        reached == {i \in DOMAIN route : \A j \in DOMAIN route : j > i => route[j] \in Proxies}
        current == {i \in reached : i = 1 \/ route[i] \notin Proxies}
    IN  {route[i] : i \in current} \ {"junk"}

NextRequest(q) == call[q].op = "new" /\ \A x \in Requests : x < q => call[x].op # "new"

\* A client's request arrives directly, or through a proxy that appends the client's address to
\* what the client has sent.
Receive(q, client, proxied, forged, category) ==
    /\ NextRequest(q)
    /\ LET peer == IF proxied THEN CHOOSE p \in Proxies : TRUE ELSE client
           forwarded == IF proxied THEN Append(forged, client) ELSE forged
           address == ResolveClientAddress(peer, forwarded)
       IN  call' = [call EXCEPT ![q] =
               IF address = {} THEN [op |-> "over"]
               ELSE [op |-> "asking", client |-> client, key |-> CHOOSE x \in address : TRUE,
                     left |-> Asked(category)]]
    /\ UNCHANGED <<clock, bucket, window, passed, waited>>

-----------------------------------------------------------------------------
(* Buckets *)

Lookup(f, x, default) == IF x \in DOMAIN f THEN f[x] ELSE default
Update(f, x, value) == [y \in DOMAIN f \cup {x} |-> IF y = x THEN value ELSE f[y]]

\* consume_rate_limit begins: observed_at is read.
Observe(q) ==
    /\ call[q].op = "asking"
    /\ call' = [call EXCEPT ![q] = [op |-> "observed", client |-> @.client, key |-> @.key,
                                    left |-> @.left, at |-> clock]]
    /\ UNCHANGED <<clock, bucket, window, passed, waited>>

\* Mutant: a bucket gains more than it holds.
AvailableUncapped(b, kind, at) ==
    b.tokens + (IF at > b.updated THEN (at - b.updated) * Refill[kind] ELSE 0)

\* The tokens of a bucket at an observed time.
Available(b, kind, at) ==
    LET gained == IF at > b.updated THEN (at - b.updated) * Refill[kind] ELSE 0
    IN  IF b.tokens + gained > Capacity[kind] THEN Capacity[kind] ELSE b.tokens + gained

\* consume_rate_limit has the row, which starts full; consume and enforce_limits go on from its
\* answer to the next bucket, to the handler, or to an error.
Consume(q) ==
    /\ call[q].op = "observed"
    /\ LET kind == Head(call[q].left)
           id == <<kind, call[q].key>>
           at == call[q].at
           b == Lookup(bucket, id, [tokens |-> Capacity[kind], updated |-> at])
           tokens == Available(b, kind, at)
           mine == <<kind, call[q].client>>
       IN  /\ bucket' = Update(bucket, id, [tokens |-> IF tokens >= 1 THEN tokens - 1 ELSE 0,
                                            updated |-> at])
           /\ waited' = Update(waited, mine, Lookup(waited, mine, 0) + clock - at)
           /\ IF tokens >= 1
              THEN /\ passed' = Update(passed, mine, Append(Lookup(passed, mine, <<>>), clock))
                   /\ call' = [call EXCEPT ![q] =
                          IF Len(@.left) = 1 THEN [op |-> "over"]
                          ELSE [op |-> "asking", client |-> @.client, key |-> @.key,
                                left |-> Tail(@.left)]]
              ELSE /\ call' = [call EXCEPT ![q] = [op |-> "over"]]
                   /\ UNCHANGED passed
    /\ UNCHANGED <<clock, window>>

-----------------------------------------------------------------------------
(* Links *)

\* Where the passes of requests for links are counted.
LinkBucket == <<"links", "links">>

\* open: within_request_budget, before anything else; a window starts with its first request.
OpenLink(q) ==
    /\ NextRequest(q)
    /\ LET fresh == window = <<>> \/ clock - window.started >= LinkWindow
           count == (IF fresh THEN 0 ELSE window.count) + 1
       IN  /\ window' = [started |-> IF fresh THEN clock ELSE window.started, count |-> count]
           /\ passed' = IF count <= LinkBudget
                        THEN Update(passed, LinkBucket, Append(Lookup(passed, LinkBucket, <<>>), clock))
                        ELSE passed
    /\ call' = [call EXCEPT ![q] = [op |-> "over"]]
    /\ UNCHANGED <<clock, bucket, waited>>

ClockTicks ==
    /\ clock < LastTime
    /\ clock' = clock + 1
    /\ UNCHANGED <<call, bucket, window, passed, waited>>

RateLimitNext ==
    \/ \E q \in Requests :
          \/ \E client \in Clients, proxied \in BOOLEAN, forged \in Forgeries,
                category \in Categories : Receive(q, client, proxied, forged, category)
          \/ Observe(q) \/ Consume(q) \/ OpenLink(q)
    \/ ClockTicks

RateLimitSpec == RateLimitInit /\ [][RateLimitNext]_limitVars

-----------------------------------------------------------------------------
(* Properties *)

\* Between any two of a client's requests that pass a bucket there are no more than the bucket
\* holds and gains in that time, plus what it gains in the time that statements waited for its row
\* after they had read the clock (consume_rate_limit); a client that makes up forwarding headers
\* stays with its own buckets (resolve_client_address).  Requests for links pass at most twice the
\* budget in any time shorter than the window (within_request_budget).
RequestsLimited ==
    \A id \in DOMAIN passed : \A i, j \in DOMAIN passed[id] :
        i <= j =>
            LET count == j - i + 1
                span == passed[id][j] - passed[id][i]
            IN  IF id[1] = "links"
                THEN span < LinkWindow => count <= 2 * LinkBudget
                ELSE count <= Capacity[id[1]] + Refill[id[1]] * (span + waited[id])

CallStates ==
    LET lists == Seq(BucketKinds) \ {<<>>}
    IN  {[op |-> "new"], [op |-> "over"]}
        \cup [op : {"asking"}, client : Clients, key : Clients, left : lists]
        \cup [op : {"observed"}, client : Clients, key : Clients, left : lists, at : Nat]

\* Every variable has its type; clients and the keys of their buckets are addresses of clients.
RateLimitTypes ==
    /\ clock \in Nat
    /\ call \in [Requests -> CallStates]
    /\ DOMAIN bucket \subseteq BucketKinds \X Clients /\ DOMAIN waited = DOMAIN bucket
    /\ \A id \in DOMAIN bucket :
          bucket[id] \in [tokens : 0 .. Capacity[id[1]], updated : 0 .. clock] /\ waited[id] \in Nat
    /\ DOMAIN passed \subseteq DOMAIN bucket \cup {LinkBucket}
    /\ \A id \in DOMAIN passed : passed[id] \in Seq(0 .. clock)
    /\ window \in {<<>>} \cup [started : 0 .. clock, count : Nat \ {0}]

\* A client pays from its own buckets, at times that it has read.
OwnBuckets ==
    \A q \in Requests : /\ call[q].op \in {"asking", "observed"} => call[q].key = call[q].client
                        /\ call[q].op = "observed" => call[q].at <= clock

\* What has passed since any request and what a bucket still holds are covered by what it gained.
TokensCover ==
    \A id \in DOMAIN passed \ {LinkBucket} : \A i \in DOMAIN passed[id] :
        Len(passed[id]) - i + 1 + bucket[id].tokens <=
            Capacity[id[1]]
                + Refill[id[1]] * (bucket[id].updated - passed[id][i] + waited[id])

\* The requests for links that passed in the window are the latest ones, those of the window before
\* the latest but for them, and all others are older than that.
WindowCovers ==
    LET links == Lookup(passed, LinkBucket, <<>>)
        inWindow == IF window = <<>> THEN 0
                    ELSE IF window.count < LinkBudget THEN window.count ELSE LinkBudget
    IN  IF window = <<>> THEN LinkBucket \notin DOMAIN passed
        ELSE /\ inWindow <= Len(links)
             /\ \A i \in DOMAIN links : links[i] < window.started + LinkWindow
             /\ \A i \in DOMAIN links : i <= Len(links) - inWindow => links[i] < window.started
             /\ \E before \in 0 .. LinkBudget : \A i \in DOMAIN links :
                    i <= Len(links) - inWindow - before => links[i] < window.started - LinkWindow

\* The inductive invariant.
RateLimitInv == RateLimitTypes /\ OwnBuckets /\ TokensCover /\ WindowCovers /\ RequestsLimited
=============================================================================
