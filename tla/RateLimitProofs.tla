--------------------------- MODULE RateLimitProofs ---------------------------
(***************************************************************************)
(* Proofs about RateLimit, for every set of requests, clients, proxies and *)
(* forged headers, every rate and capacity and every budget.               *)
(***************************************************************************)
EXTENDS RateLimit, TLAPS

-----------------------------------------------------------------------------
(* Client addresses *)

\* A proxy's request is its client's, whatever the client has sent in the header.
LEMMA ProxiedAddress ==
    ASSUME NEW client \in Clients, NEW peer \in Proxies, NEW forged \in Seq(STRING)
    PROVE  ResolveClientAddress(peer, Append(forged, client)) = {client}
<1> DEFINE route == Append(Append(forged, client), peer)
           n == Len(forged) + 1
           reached == {i \in DOMAIN route : \A j \in DOMAIN route : j > i => route[j] \in Proxies}
           current == {i \in reached : i = 1 \/ route[i] \notin Proxies}
<1>1. /\ client \in STRING /\ peer \in STRING /\ client \notin Proxies /\ client # "junk"
      /\ peer \in Proxies
  BY RateLimitAssumption
<1>2. /\ DOMAIN route = 1 .. n + 1 /\ n \in Nat \ {0}
      /\ route[n] = client /\ route[n + 1] = peer
  <2>1. Append(forged, client) \in Seq(STRING) /\ Len(Append(forged, client)) = n
        /\ Append(forged, client)[n] = client /\ n \in Nat \ {0}
    BY <1>1
  <2>2. QED
    BY <1>1, <2>1
<1> HIDE DEF route
<1>3. n \in reached /\ \A i \in reached : i \in {n, n + 1}
  BY <1>1, <1>2
<1>4. current = {n}
  BY <1>1, <1>2, <1>3
<1>5. {route[i] : i \in current} \ {"junk"} = {client}
  BY <1>1, <1>2, <1>4
<1>6. ResolveClientAddress(peer, Append(forged, client)) = {route[i] : i \in current} \ {"junk"}
  BY DEF ResolveClientAddress, route
<1>7. QED
  BY <1>5, <1>6

\* A direct request is its sender's, whatever it says in the header.
LEMMA DirectAddress ==
    ASSUME NEW client \in Clients, NEW forged \in Seq(STRING)
    PROVE  ResolveClientAddress(client, forged) = {client}
<1> DEFINE route == Append(forged, client)
           n == Len(forged) + 1
           reached == {i \in DOMAIN route : \A j \in DOMAIN route : j > i => route[j] \in Proxies}
           current == {i \in reached : i = 1 \/ route[i] \notin Proxies}
<1>1. client \in STRING /\ client \notin Proxies /\ client # "junk"
  BY RateLimitAssumption
<1>2. DOMAIN route = 1 .. n /\ n \in Nat \ {0} /\ route[n] = client
  BY <1>1
<1> HIDE DEF route
<1>3. current = {n}
  BY <1>1, <1>2
<1>4. ResolveClientAddress(client, forged) = {route[i] : i \in current} \ {"junk"}
  BY DEF ResolveClientAddress, route
<1>5. QED
  BY <1>1, <1>2, <1>3, <1>4

-----------------------------------------------------------------------------
(* Buckets *)

\* Products of amounts and times.
LEMMA Products ==
    ASSUME NEW r \in Nat, NEW x \in Int, NEW y \in Int
    PROVE  /\ r * x \in Int /\ r * (x + y) = r * x + r * y
           /\ x <= y => r * x <= r * y
OBVIOUS

\* What is covered stays covered as more is gained.
LEMMA GainedMore ==
    ASSUME NEW r \in Nat, NEW c \in Nat, NEW n \in Int, NEW x \in Int, NEW y \in Int,
           x <= y, n <= c + r * x
    PROVE  n <= c + r * y
<1>1. r * x <= r * y /\ r * x \in Int /\ r * y \in Int
  BY Products
<1>2. QED
  BY <1>1

\* Spans of time and what is gained in them, in the forms in which they are used.
LEMMA Spans ==
    ASSUME NEW x \in Int, NEW y \in Int, NEW v \in Int, NEW w \in Int, v <= w
    PROVE  /\ x - y + v <= x - y + w
           /\ x - y + v \in Int /\ x - y + w \in Int
OBVIOUS

LEMMA GainedSome ==
    ASSUME NEW r \in Nat, NEW c \in Int, NEW n \in Int, NEW x \in Nat, n <= c
    PROVE  n <= c + r * x
<1>1. r * 0 <= r * x /\ r * 0 = 0 /\ r * x \in Int
  BY Products
<1>2. QED
  BY <1>1

LEMMA Within ==
    ASSUME NEW c \in Int, NEW n \in Int, NEW m \in Int, n <= m, m <= c
    PROVE  n <= c
OBVIOUS

LEMMA AppendedTime ==
    ASSUME NEW S, NEW times \in Seq(S), NEW time \in S
    PROVE  /\ Append(times, time) \in Seq(S) /\ Len(Append(times, time)) = Len(times) + 1
           /\ DOMAIN times = 1 .. Len(times) /\ DOMAIN Append(times, time) = 1 .. Len(times) + 1
           /\ Append(times, time)[Len(times) + 1] = time
           /\ \A i \in DOMAIN times : Append(times, time)[i] = times[i] /\ times[i] \in S
OBVIOUS

LEMMA Times ==
    ASSUME NEW time \in Nat, NEW times \in Seq(0 .. time)
    PROVE  /\ Len(times) \in Nat /\ DOMAIN times = 1 .. Len(times)
           /\ \A i \in DOMAIN times : /\ times[i] \in Nat /\ times[i] <= time
                                      /\ i \in Nat /\ i <= Len(times) /\ Len(times) - i + 1 \in Nat
<1>1. Len(times) \in Nat /\ DOMAIN times = 1 .. Len(times)
  OBVIOUS
<1>2. \A i \in DOMAIN times : times[i] \in 0 .. time
  OBVIOUS
<1>3. QED
  BY <1>1, <1>2

\* The tokens of a bucket at a time that was read before now are covered, if those before were; the
\* wait since then counts as time in which tokens were gained.
LEMMA AvailableCovered ==
    ASSUME NEW kind \in BucketKinds, NEW b \in [tokens : 0 .. Capacity[kind], updated : Nat],
           NEW at \in Nat, NEW time \in Nat, at <= time, b.updated <= time
    PROVE  /\ Available(b, kind, at) \in 0 .. Capacity[kind]
           /\ \A n \in Nat, from \in Nat, wait \in Nat :
                 n + b.tokens <= Capacity[kind] + Refill[kind] * (b.updated - from + wait) =>
                     n + Available(b, kind, at) <=
                         Capacity[kind] + Refill[kind] * (at - from + (wait + time - at))
<1> DEFINE r == Refill[kind]  c == Capacity[kind]  u == b.updated
           gained == IF at > u THEN (at - u) * r ELSE 0
<1>1. r \in Nat /\ c \in Nat /\ u \in Nat /\ b.tokens \in 0 .. c
  BY RateLimitAssumption
<1> HIDE DEF r, c, u
<1>2. gained \in Nat /\ gained <= r * (time - u)
  <2>1. CASE at > u
    <3>1. at - u \in Nat /\ at - u <= time - u
      BY <1>1, <2>1 DEF u
    <3>2. (at - u) * r = r * (at - u) /\ r * (at - u) \in Nat
      BY <1>1, <3>1
    <3>3. r * (at - u) <= r * (time - u)
      BY <1>1, <3>1, Products
    <3>4. QED
      BY <2>1, <3>2, <3>3
  <2>2. CASE ~(at > u)
    <3>1. r * 0 <= r * (time - u)
      BY <1>1, Products DEF u
    <3>2. QED
      BY <1>1, <2>2, <3>1
  <2>3. QED
    BY <2>1, <2>2
<1> HIDE DEF gained
<1>3. Available(b, kind, at) = IF b.tokens + gained > c THEN c ELSE b.tokens + gained
  BY DEF Available, gained, r, c, u
<1>4. Available(b, kind, at) \in 0 .. c /\ Available(b, kind, at) <= b.tokens + gained
  BY <1>1, <1>2, <1>3
<1>5. ASSUME NEW n \in Nat, NEW from \in Nat, NEW wait \in Nat,
             n + b.tokens <= c + r * (u - from + wait)
      PROVE  n + Available(b, kind, at) <= c + r * (at - from + (wait + time - at))
  <2>1. at - from + (wait + time - at) = (u - from + wait) + (time - u)
    BY <1>1
  <2>2. r * ((u - from + wait) + (time - u)) = r * (u - from + wait) + r * (time - u)
    BY <1>1, Products
  <2>3. r * (u - from + wait) \in Int /\ r * (time - u) \in Int
    BY <1>1, Products
  <2>4. QED
    BY <1>1, <1>2, <1>4, <1>5, <2>1, <2>2, <2>3
<1>6. QED
  BY <1>4, <1>5 DEF r, c, u

\* TokensCover and RequestsLimited of one bucket.
Covered(kind, times, b, wait) ==
    \A i \in DOMAIN times :
        Len(times) - i + 1 + b.tokens <= Capacity[kind] + Refill[kind] * (b.updated - times[i] + wait)

Limited(kind, times, wait) ==
    \A i, j \in DOMAIN times :
        i <= j => j - i + 1 <= Capacity[kind] + Refill[kind] * (times[j] - times[i] + wait)

\* What becomes of a bucket and of the times at which it let a request pass.
Answered(tokens, at, time, times, row, later) ==
    /\ row = [tokens |-> IF tokens >= 1 THEN tokens - 1 ELSE 0, updated |-> at]
    /\ later = IF tokens >= 1 THEN Append(times, time) ELSE times

\* Whether or not a request passes, a bucket goes on to cover what passes and to limit it.
LEMMA BucketGoesOn ==
    ASSUME NEW kind \in BucketKinds, NEW b \in [tokens : 0 .. Capacity[kind], updated : Nat],
           NEW at \in Nat, NEW time \in Nat, at <= time, b.updated <= time,
           NEW wait \in Nat, NEW times \in Seq(0 .. time),
           Covered(kind, times, b, wait), Limited(kind, times, wait),
           NEW row, NEW later,
           Answered(Available(b, kind, at), at, time, times, row, later)
    PROVE  /\ row \in [tokens : 0 .. Capacity[kind], updated : 0 .. time]
           /\ wait + time - at \in Nat /\ later \in Seq(0 .. time)
           /\ Covered(kind, later, row, wait + time - at)
           /\ Limited(kind, later, wait + time - at)
<1> DEFINE tokens == Available(b, kind, at)  left == IF tokens >= 1 THEN tokens - 1 ELSE 0
           after == wait + time - at  r == Refill[kind]  c == Capacity[kind]
<1>1. r \in Nat /\ c \in Nat
  BY RateLimitAssumption
<1>2. /\ tokens \in 0 .. c
      /\ \A n \in Nat, from \in Nat :
            n + b.tokens <= c + r * (b.updated - from + wait) => n + tokens <= c + r * (at - from + after)
  BY AvailableCovered
<1>3. /\ after \in Nat /\ wait <= after
  OBVIOUS
<1>4. later \in Seq(0 .. time) /\ \A i \in DOMAIN later : later[i] \in Nat /\ later[i] <= time
  <2>1. time \in 0 .. time
    OBVIOUS
  <2>2. Append(times, time) \in Seq(0 .. time)
    BY <2>1, AppendedTime
  <2>3. later \in Seq(0 .. time)
    BY <2>2 DEF Answered
  <2>4. \A i \in DOMAIN later : later[i] \in 0 .. time
    BY <2>3
  <2>5. QED
    BY <2>3, <2>4
<1>5. row.tokens = left /\ row.updated = at /\ left \in 0 .. c /\ left <= tokens
      /\ row \in [tokens : 0 .. Capacity[kind], updated : 0 .. time]
  BY <1>1, <1>2 DEF Answered
<1> HIDE DEF tokens, left, after, r, c
<1>6. /\ Len(times) \in Nat /\ DOMAIN times = 1 .. Len(times)
      /\ \A i \in DOMAIN times : /\ times[i] \in Nat /\ times[i] <= time
                                 /\ i \in Nat /\ i <= Len(times) /\ Len(times) - i + 1 \in Nat
  BY Times
<1>7. ASSUME NEW i \in DOMAIN times
      PROVE  Len(times) - i + 1 + tokens <= c + r * (at - times[i] + after)
  <2>1. Len(times) - i + 1 + b.tokens <= c + r * (b.updated - times[i] + wait)
    BY DEF Covered, c, r
  <2>2. QED
    BY <1>2, <1>6, <2>1
<1>8. ASSUME NEW i \in DOMAIN times, NEW j \in DOMAIN times, i <= j
      PROVE  j - i + 1 <= c + r * (times[j] - times[i] + after)
  <2>1. j - i + 1 <= c + r * (times[j] - times[i] + wait)
    BY <1>8 DEF Limited, c, r
  <2>2. /\ times[j] \in Nat /\ times[i] \in Nat /\ j - i + 1 \in Int
    BY <1>6
  <2>3. /\ times[j] - times[i] + wait <= times[j] - times[i] + after
        /\ times[j] - times[i] + wait \in Int /\ times[j] - times[i] + after \in Int
    <3> DEFINE x == times[j]  y == times[i]
    <3>1. x \in Int /\ y \in Int /\ wait \in Int /\ after \in Int /\ wait <= after
      BY <1>3, <2>2
    <3> HIDE DEF x, y
    <3>2. /\ x - y + wait <= x - y + after
          /\ x - y + wait \in Int /\ x - y + after \in Int
      BY <3>1, Spans
    <3>3. QED
      BY <3>2 DEF x, y
  <2>4. QED
    BY <1>1, <2>1, <2>2, <2>3, GainedMore
<1>9. CASE tokens >= 1
  <2>1. later = Append(times, time) /\ left = tokens - 1
    BY <1>9 DEF tokens, left, Answered
  <2>2. /\ DOMAIN later = 1 .. Len(times) + 1 /\ Len(later) = Len(times) + 1
        /\ later[Len(times) + 1] = time /\ \A i \in DOMAIN times : later[i] = times[i]
        /\ DOMAIN times = 1 .. Len(times) /\ Len(times) \in Nat
    BY <2>1, AppendedTime
  <2>3. ASSUME NEW i \in DOMAIN later
        PROVE  Len(later) - i + 1 + left <= c + r * (at - later[i] + after)
    <3>1. CASE i \in DOMAIN times
      <4>1. Len(times) - i + 1 + tokens <= c + r * (at - times[i] + after)
        BY <1>7, <3>1
      <4>2. Len(later) - i + 1 + left = Len(times) - i + 1 + tokens
        BY <1>2, <1>9, <2>1, <2>2, <3>1
      <4>3. QED
        BY <2>2, <3>1, <4>1, <4>2
    <3>2. CASE i = Len(times) + 1
      <4>1. at - later[i] + after = wait
        BY <2>2, <3>2 DEF after
      <4>2. Len(later) - i + 1 + left = tokens
        BY <1>2, <2>1, <2>2, <3>2
      <4>3. QED
        <5>1. tokens <= c /\ tokens \in Int /\ c \in Int
          BY <1>1, <1>2
        <5>2. tokens <= c + r * wait
          BY <1>1, <5>1, GainedSome
        <5>3. QED
          BY <4>1, <4>2, <5>2
    <3>3. QED
      BY <2>2, <3>1, <3>2
  <2>4. Covered(kind, later, row, after)
    BY <1>5, <2>3 DEF Covered, c, r
  <2>5. ASSUME NEW i \in DOMAIN later, NEW j \in DOMAIN later, i <= j
        PROVE  j - i + 1 <= c + r * (later[j] - later[i] + after)
    <3>1. CASE j \in DOMAIN times
      <4>1. i \in DOMAIN times /\ later[i] = times[i] /\ later[j] = times[j]
        BY <2>2, <2>5, <3>1
      <4>2. QED
        BY <1>8, <2>5, <3>1, <4>1
    <3>2. CASE j = Len(times) + 1
      <4>1. later[j] = time /\ Len(later) - i + 1 + left <= c + r * (at - later[i] + after)
        BY <2>2, <2>3, <3>2
      <4>2. /\ at - later[i] + after <= later[j] - later[i] + after
            /\ at - later[i] + after \in Int /\ later[j] - later[i] + after \in Int
        <5> DEFINE x == later[i]
        <5>1. x \in Int /\ after \in Int /\ at \in Int /\ time \in Int /\ at <= time
          BY <1>3, <1>4
        <5> HIDE DEF x
        <5>2. /\ at - x + after <= time - x + after
              /\ at - x + after \in Int /\ time - x + after \in Int
          BY <5>1
        <5>3. QED
          BY <4>1, <5>2 DEF x
      <4>3. Len(later) - i + 1 + left \in Int
        BY <1>5, <2>2
      <4>4. Len(later) - i + 1 + left <= c + r * (later[j] - later[i] + after)
        BY <1>1, <4>1, <4>2, <4>3, GainedMore
      <4>5. j - i + 1 <= Len(later) - i + 1 + left /\ j - i + 1 \in Int
        BY <1>5, <2>2, <3>2
      <4>6. r * (later[j] - later[i] + after) \in Int
        BY <1>1, <4>2, Products
      <4>7. QED
        <5> DEFINE bound == c + r * (later[j] - later[i] + after)
                   m == Len(later) - i + 1 + left
        <5>1. bound \in Int /\ m \in Int /\ j - i + 1 <= m /\ m <= bound
          BY <1>1, <4>3, <4>4, <4>5, <4>6
        <5> HIDE DEF bound, m
        <5>2. j - i + 1 <= bound
          BY <4>5, <5>1, Within
        <5>3. QED
          BY <5>2 DEF bound
    <3>3. QED
      BY <2>2, <3>1, <3>2
  <2>6. Limited(kind, later, after)
    BY <2>5 DEF Limited, c, r
  <2>7. QED
    BY <1>3, <1>4, <1>5, <2>4, <2>6 DEF after
<1>10. CASE ~(tokens >= 1)
  <2>1. later = times /\ left = 0 /\ tokens = 0
    BY <1>2, <1>10 DEF tokens, left, Answered
  <2>2. Covered(kind, later, row, after)
    BY <1>5, <1>7, <2>1 DEF Covered, c, r
  <2>3. Limited(kind, later, after)
    BY <1>8, <2>1 DEF Limited, c, r
  <2>4. QED
    BY <1>3, <1>4, <1>5, <2>2, <2>3 DEF after
<1>11. QED
  BY <1>9, <1>10

-----------------------------------------------------------------------------
(* Links *)

\* RequestsLimited of the budget for links.
LinksLimited(times) ==
    \A i, j \in DOMAIN times :
        i <= j => (times[j] - times[i] < LinkWindow => j - i + 1 <= 2 * LinkBudget)

\* WindowCovers, of the times of a window that started and in which so many passed.
LinksCovered(times, started, inWindow) ==
    /\ inWindow <= Len(times)
    /\ \A i \in DOMAIN times : times[i] < started + LinkWindow
    /\ \A i \in DOMAIN times : i <= Len(times) - inWindow => times[i] < started
    /\ \E before \in 0 .. LinkBudget : \A i \in DOMAIN times :
          i <= Len(times) - inWindow - before => times[i] < started - LinkWindow

\* One more request passes when fewer than twice the budget have in the window that ends with it.
LEMMA OneMoreLink ==
    ASSUME NEW time \in Nat, NEW times \in Seq(0 .. time), LinksLimited(times),
           NEW k \in 0 .. 2 * LinkBudget - 1,
           \A i \in DOMAIN times : i <= Len(times) - k => times[i] <= time - LinkWindow
    PROVE  LinksLimited(Append(times, time))
<1> DEFINE later == Append(times, time)
<1>1. LinkBudget \in Nat /\ LinkWindow \in Nat \ {0} /\ k \in Nat /\ k + 1 <= 2 * LinkBudget
  BY RateLimitAssumption
<1>2. /\ DOMAIN later = 1 .. Len(times) + 1 /\ later[Len(times) + 1] = time
      /\ \A i \in DOMAIN times : later[i] = times[i]
      /\ DOMAIN times = 1 .. Len(times) /\ Len(times) \in Nat
      /\ \A i \in DOMAIN times : times[i] \in Nat /\ times[i] <= time
  <2>1. time \in 0 .. time
    OBVIOUS
  <2>2. QED
    BY <2>1, AppendedTime, Times
<1> HIDE DEF later
<1>3. ASSUME NEW i \in DOMAIN later, NEW j \in DOMAIN later, i <= j,
             later[j] - later[i] < LinkWindow
      PROVE  j - i + 1 <= 2 * LinkBudget
  <2>1. CASE j \in DOMAIN times
    <3>1. i \in DOMAIN times /\ times[j] - times[i] < LinkWindow
      BY <1>2, <1>3, <2>1
    <3>2. QED
      BY <1>3, <2>1, <3>1 DEF LinksLimited
  <2>2. CASE j = Len(times) + 1 /\ i = j
    BY <1>1, <1>2, <2>2
  <2>3. CASE j = Len(times) + 1 /\ i \in DOMAIN times
    <3>1. ~(times[i] <= time - LinkWindow)
      BY <1>1, <1>2, <1>3, <2>3
    <3>2. i > Len(times) - k
      BY <1>1, <1>2, <2>3, <3>1
    <3>3. QED
      BY <1>1, <1>2, <2>3, <3>2
  <2>4. QED
    BY <1>2, <1>3, <2>1, <2>2, <2>3
<1>4. QED
  BY <1>3 DEF LinksLimited, later

\* Within a window, a request passes while the budget lasts.
LEMMA LinkInWindow ==
    ASSUME NEW time \in Nat, NEW times \in Seq(0 .. time), NEW started \in 0 .. time,
           NEW inWindow \in 0 .. LinkBudget - 1, time < started + LinkWindow,
           LinksLimited(times), LinksCovered(times, started, inWindow)
    PROVE  /\ LinksLimited(Append(times, time))
           /\ LinksCovered(Append(times, time), started, inWindow + 1)
<1> DEFINE later == Append(times, time)
<1>1. /\ LinkBudget \in Nat /\ LinkWindow \in Nat \ {0}
      /\ inWindow \in Nat /\ inWindow + 1 <= LinkBudget /\ started \in Nat /\ started <= time
  BY RateLimitAssumption
<1>2. /\ DOMAIN later = 1 .. Len(times) + 1 /\ later[Len(times) + 1] = time
      /\ Len(later) = Len(times) + 1
      /\ \A i \in DOMAIN times : later[i] = times[i]
      /\ DOMAIN times = 1 .. Len(times) /\ Len(times) \in Nat
      /\ \A i \in DOMAIN times : times[i] \in Nat /\ times[i] <= time
  <2>1. time \in 0 .. time
    OBVIOUS
  <2>2. QED
    BY <2>1, AppendedTime, Times
<1> HIDE DEF later
<1>3. PICK before \in 0 .. LinkBudget : \A i \in DOMAIN times :
          i <= Len(times) - inWindow - before => times[i] < started - LinkWindow
  BY DEF LinksCovered
<1>4. LinksLimited(Append(times, time))
  <2> DEFINE k == inWindow + before
  <2>1. k \in 0 .. 2 * LinkBudget - 1
    BY <1>1
  <2>2. ASSUME NEW i \in DOMAIN times, i <= Len(times) - k
        PROVE  times[i] <= time - LinkWindow
    <3>1. i <= Len(times) - inWindow - before
      BY <1>1, <1>2, <2>2
    <3>2. times[i] < started - LinkWindow
      BY <1>3, <3>1
    <3>3. QED
      BY <1>1, <1>2, <3>2
  <2> HIDE DEF k
  <2>3. QED
    BY <2>1, <2>2, OneMoreLink
<1>5. LinksCovered(later, started, inWindow + 1)
  <2>1. inWindow + 1 <= Len(later)
    BY <1>1, <1>2 DEF LinksCovered
  <2>2. \A i \in DOMAIN later : later[i] < started + LinkWindow
    BY <1>1, <1>2 DEF LinksCovered
  <2>3. \A i \in DOMAIN later : i <= Len(later) - (inWindow + 1) => later[i] < started
    BY <1>1, <1>2 DEF LinksCovered
  <2>4. \A i \in DOMAIN later :
            i <= Len(later) - (inWindow + 1) - before => later[i] < started - LinkWindow
    BY <1>1, <1>2, <1>3
  <2>5. QED
    BY <2>1, <2>2, <2>3, <2>4 DEF LinksCovered
<1>6. QED
  BY <1>4, <1>5 DEF later

\* The first request of a window passes, and the window before is over.
LEMMA LinkOpensWindow ==
    ASSUME NEW time \in Nat, NEW times \in Seq(0 .. time), NEW started \in 0 .. time,
           NEW inWindow \in 0 .. LinkBudget, started + LinkWindow <= time,
           LinksLimited(times), LinksCovered(times, started, inWindow)
    PROVE  /\ LinksLimited(Append(times, time))
           /\ LinksCovered(Append(times, time), time, 1)
<1> DEFINE later == Append(times, time)
<1>1. /\ LinkBudget \in Nat \ {0} /\ LinkWindow \in Nat \ {0}
      /\ inWindow \in Nat /\ inWindow <= LinkBudget /\ started \in Nat
  BY RateLimitAssumption
<1>2. /\ DOMAIN later = 1 .. Len(times) + 1 /\ later[Len(times) + 1] = time
      /\ Len(later) = Len(times) + 1
      /\ \A i \in DOMAIN times : later[i] = times[i]
      /\ DOMAIN times = 1 .. Len(times) /\ Len(times) \in Nat
      /\ \A i \in DOMAIN times : times[i] \in Nat /\ times[i] <= time
  <2>1. time \in 0 .. time
    OBVIOUS
  <2>2. QED
    BY <2>1, AppendedTime, Times
<1> HIDE DEF later
<1>3. LinksLimited(Append(times, time))
  <2>1. inWindow \in 0 .. 2 * LinkBudget - 1
    BY <1>1
  <2>2. \A i \in DOMAIN times : i <= Len(times) - inWindow => times[i] <= time - LinkWindow
    BY <1>1, <1>2 DEF LinksCovered
  <2>3. QED
    BY <2>1, <2>2, OneMoreLink
<1>4. LinksCovered(later, time, 1)
  <2>1. 1 <= Len(later)
    BY <1>2
  <2>2. \A i \in DOMAIN later : later[i] < time + LinkWindow
    BY <1>1, <1>2
  <2>3. \A i \in DOMAIN later : i <= Len(later) - 1 => later[i] < time
    BY <1>1, <1>2 DEF LinksCovered
  <2>4. inWindow \in 0 .. LinkBudget /\ \A i \in DOMAIN later :
            i <= Len(later) - 1 - inWindow => later[i] < time - LinkWindow
    BY <1>1, <1>2 DEF LinksCovered
  <2>5. QED
    BY <2>1, <2>2, <2>3, <2>4 DEF LinksCovered
<1>5. QED
  BY <1>3, <1>4 DEF later

\* The first request for a link of all.
LEMMA FirstLink ==
    ASSUME NEW time \in Nat
    PROVE  /\ LinksLimited(Append(<<>>, time)) /\ LinksCovered(Append(<<>>, time), time, 1)
<1>1. LinkBudget \in Nat \ {0} /\ LinkWindow \in Nat \ {0}
  BY RateLimitAssumption
<1>2. Append(<<>>, time) = <<time>> /\ Len(<<time>>) = 1 /\ DOMAIN <<time>> = {1} /\ <<time>>[1] = time
  OBVIOUS
<1>3. LinksLimited(<<time>>)
  BY <1>1, <1>2 DEF LinksLimited
<1>4. LinksCovered(<<time>>, time, 1)
  <2>1. 0 \in 0 .. LinkBudget
    BY <1>1
  <2>2. \A i \in DOMAIN <<time>> : i <= Len(<<time>>) - 1 - 0 => <<time>>[i] < time - LinkWindow
    BY <1>2
  <2>3. QED
    BY <1>1, <1>2, <2>1, <2>2 DEF LinksCovered
<1>5. QED
  BY <1>2, <1>3, <1>4

-----------------------------------------------------------------------------
(* The steps *)

\* RequestsLimited, for each kind of bucket.
LEMMA LimitedByKind ==
    ASSUME \A id \in DOMAIN passed :
              IF id[1] = "links" THEN LinksLimited(passed[id])
              ELSE Limited(id[1], passed[id], waited[id])
    PROVE  RequestsLimited
BY DEF RequestsLimited, LinksLimited, Limited

LEMMA KindLimited ==
    ASSUME RequestsLimited
    PROVE  \A id \in DOMAIN passed :
              IF id[1] = "links" THEN LinksLimited(passed[id])
              ELSE Limited(id[1], passed[id], waited[id])
BY DEF RequestsLimited, LinksLimited, Limited

\* Where no bucket changes and time goes on, everything stays limited.
LEMMA NothingPasses ==
    ASSUME RateLimitInv, UNCHANGED <<bucket, window, passed, waited>>,
           clock' \in Nat, clock <= clock', call' \in [Requests -> CallStates], OwnBuckets'
    PROVE  RateLimitInv'
<1>1. \A x \in 0 .. clock : x \in 0 .. clock'
  BY DEF RateLimitInv, RateLimitTypes
<1>2. RateLimitTypes'
  <2>1. \A id \in DOMAIN passed : passed[id] \in Seq(0 .. clock')
    BY <1>1 DEF RateLimitInv, RateLimitTypes
  <2>2. QED
    BY <1>1, <2>1 DEF RateLimitInv, RateLimitTypes
<1>3. TokensCover' /\ RequestsLimited'
  BY DEF RateLimitInv, TokensCover, RequestsLimited
<1>4. WindowCovers'
  BY DEF RateLimitInv, WindowCovers
<1>5. QED
  BY <1>2, <1>3, <1>4 DEF RateLimitInv

\* Facts about the lists of buckets that a request has still to pay.
LEMMA FirstAndOthers ==
    ASSUME NEW S, NEW x \in S, NEW others \in Seq(S)
    PROVE  <<x>> \o others \in Seq(S) \ {<<>>}
<1>1. <<x>> \in Seq(S) /\ Len(<<x>>) = 1 /\ Len(others) \in Nat
  OBVIOUS
<1>2. <<x>> \o others \in Seq(S) /\ Len(<<x>> \o others) = 1 + Len(others)
  BY <1>1
<1>3. QED
  BY <1>1, <1>2

LEMMA RestOf ==
    ASSUME NEW S, NEW list \in Seq(S), list # <<>>
    PROVE  /\ Head(list) \in S /\ Tail(list) \in Seq(S)
           /\ Len(list) # 1 => Tail(list) # <<>>
<1>1. Len(list) \in Nat \ {0} /\ Head(list) \in S /\ Tail(list) \in Seq(S)
      /\ Len(Tail(list)) = Len(list) - 1 /\ Len(<<>>) = 0
  OBVIOUS
<1>2. Len(list) # 1 => Len(Tail(list)) # 0
  BY <1>1
<1>3. QED
  BY <1>1, <1>2

LEMMA ReceiveKeeps ==
    ASSUME RateLimitInv, NEW q \in Requests, NEW client \in Clients, NEW proxied \in BOOLEAN,
           NEW forged \in Forgeries, NEW category \in Categories,
           Receive(q, client, proxied, forged, category)
    PROVE  RateLimitInv'
<1> DEFINE peer == IF proxied THEN CHOOSE p \in Proxies : TRUE ELSE client
           forwarded == IF proxied THEN Append(forged, client) ELSE forged
<1>1. forged \in Seq(STRING) /\ (CHOOSE p \in Proxies : TRUE) \in Proxies
  BY RateLimitAssumption
<1>2. ResolveClientAddress(peer, forwarded) = {client}
  <2>1. CASE proxied
    BY <1>1, <2>1, ProxiedAddress
  <2>2. CASE ~proxied
    BY <1>1, <2>2, DirectAddress
  <2>3. QED
    BY <2>1, <2>2
<1> DEFINE asking == [op |-> "asking", client |-> client, key |-> client, left |-> Asked(category)]
<1>3. call' = [call EXCEPT ![q] = asking]
  <2>1. {client} # {} /\ (CHOOSE x \in {client} : TRUE) = client
    OBVIOUS
  <2>2. QED
    BY <1>2, <2>1 DEF Receive
<1>4. asking \in CallStates
  <2>1. Asked(category) \in Seq(BucketKinds) \ {<<>>}
    <3> DEFINE others == IF category = "challenge" THEN <<"challenge:minute", "challenge:hour">>
                         ELSE <<"submission:minute", "submission:hour">>
    <3>1. /\ "public:minute" \in BucketKinds /\ "challenge:minute" \in BucketKinds
          /\ "challenge:hour" \in BucketKinds /\ "submission:minute" \in BucketKinds
          /\ "submission:hour" \in BucketKinds
      BY DEF BucketKinds
    <3>2. others \in Seq(BucketKinds)
      BY <3>1
    <3>3. Asked(category) = <<"public:minute">> \o others
      BY DEF Asked
    <3> HIDE DEF others
    <3>4. QED
      BY <3>1, <3>2, <3>3, FirstAndOthers
  <2>2. QED
    BY <2>1 DEF CallStates
<1>5. call \in [Requests -> CallStates] /\ clock \in Nat
  BY DEF RateLimitInv, RateLimitTypes
<1>6. call' \in [Requests -> CallStates]
  BY <1>3, <1>4, <1>5
<1>7. UNCHANGED <<clock, bucket, window, passed, waited>>
  BY DEF Receive
<1>8. OwnBuckets'
  <2>1. ASSUME NEW x \in Requests
        PROVE  /\ call'[x].op \in {"asking", "observed"} => call'[x].key = call'[x].client
               /\ call'[x].op = "observed" => call'[x].at <= clock'
    <3>1. CASE x = q
      BY <1>3, <1>5, <3>1
    <3>2. CASE x # q
      BY <1>3, <1>5, <1>7, <3>2 DEF RateLimitInv, OwnBuckets
    <3>3. QED
      BY <3>1, <3>2
  <2>2. QED
    BY <2>1 DEF OwnBuckets
<1>9. QED
  BY <1>5, <1>6, <1>7, <1>8, NothingPasses

LEMMA ObserveKeeps ==
    ASSUME RateLimitInv, NEW q \in Requests, Observe(q)
    PROVE  RateLimitInv'
<1> DEFINE observed == [op |-> "observed", client |-> call[q].client, key |-> call[q].key,
                        left |-> call[q].left, at |-> clock]
<1>1. call \in [Requests -> CallStates] /\ clock \in Nat
  BY DEF RateLimitInv, RateLimitTypes
<1>2. call[q] \in CallStates /\ call[q].op = "asking" /\ call' = [call EXCEPT ![q] = observed]
  BY <1>1 DEF Observe
<1>3. observed \in CallStates
  BY <1>1, <1>2 DEF CallStates
<1>4. call' \in [Requests -> CallStates]
  BY <1>1, <1>2, <1>3
<1>5. OwnBuckets'
  BY <1>1, <1>2 DEF RateLimitInv, OwnBuckets, Observe
<1>6. QED
  BY <1>1, <1>4, <1>5, NothingPasses DEF Observe

LEMMA ClockKeeps ==
    ASSUME RateLimitInv, ClockTicks
    PROVE  RateLimitInv'
<1>1. call \in [Requests -> CallStates] /\ clock \in Nat
  BY DEF RateLimitInv, RateLimitTypes
<1>2. \A q \in Requests : call[q].op = "observed" => call[q].at \in Nat
  BY <1>1 DEF CallStates
<1>3. OwnBuckets'
  BY <1>1, <1>2 DEF RateLimitInv, OwnBuckets, ClockTicks
<1>4. QED
  BY <1>1, <1>3, NothingPasses DEF ClockTicks

LEMMA ConsumeKeeps ==
    ASSUME RateLimitInv, NEW q \in Requests, Consume(q)
    PROVE  RateLimitInv'
<1> DEFINE kind == Head(call[q].left)
           id == <<kind, call[q].key>>
           at == call[q].at
           b == Lookup(bucket, id, [tokens |-> Capacity[kind], updated |-> at])
           tokens == Available(b, kind, at)
           times == Lookup(passed, id, <<>>)
           wait == Lookup(waited, id, 0)
           row == [tokens |-> IF tokens >= 1 THEN tokens - 1 ELSE 0, updated |-> at]
           later == IF tokens >= 1 THEN Append(times, clock) ELSE times
           after == wait + clock - at
<1>1. /\ call \in [Requests -> CallStates] /\ clock \in Nat
      /\ RateLimitTypes /\ OwnBuckets /\ TokensCover /\ WindowCovers /\ RequestsLimited
  BY DEF RateLimitInv, RateLimitTypes
<1>2. /\ call[q] \in CallStates /\ call[q].op = "observed" /\ call[q].client = call[q].key
      /\ call[q].key \in Clients /\ at \in Nat /\ at <= clock
      /\ call[q].left \in Seq(BucketKinds) /\ call[q].left # <<>>
  BY <1>1 DEF Consume, CallStates, OwnBuckets
<1>3. kind \in BucketKinds /\ Tail(call[q].left) \in Seq(BucketKinds)
      /\ (Len(call[q].left) # 1 => Tail(call[q].left) # <<>>)
  BY <1>2, RestOf
<1>4. /\ bucket' = Update(bucket, id, row) /\ waited' = Update(waited, id, after)
      /\ passed' = IF tokens >= 1 THEN Update(passed, id, later) ELSE passed
      /\ clock' = clock /\ window' = window
      /\ call' = [call EXCEPT ![q] =
            IF tokens >= 1 /\ Len(call[q].left) # 1
            THEN [op |-> "asking", client |-> call[q].client, key |-> call[q].key,
                  left |-> Tail(call[q].left)]
            ELSE [op |-> "over"]]
  BY <1>1, <1>2 DEF Consume
<1> HIDE DEF kind, at
<1>5. /\ id \in BucketKinds \X Clients /\ id[1] = kind /\ kind # "links" /\ id # LinkBucket
  BY <1>2, <1>3 DEF BucketKinds, LinkBucket
<1> HIDE DEF id, b, times, wait, tokens, row, later, after
<1>6. id \in DOMAIN passed => id \in DOMAIN bucket
  BY <1>1, <1>5 DEF RateLimitTypes
<1>7. /\ b \in [tokens : 0 .. Capacity[kind], updated : Nat] /\ b.updated <= clock
      /\ wait \in Nat
  <2>1. Capacity[kind] \in Nat
    BY <1>3, RateLimitAssumption
  <2>2. CASE id \in DOMAIN bucket
    BY <1>1, <1>5, <2>2 DEF RateLimitTypes, b, wait, Lookup
  <2>3. CASE id \notin DOMAIN bucket
    BY <1>1, <1>2, <2>1, <2>3 DEF RateLimitTypes, b, wait, Lookup
  <2>4. QED
    BY <2>2, <2>3
<1>8. times \in Seq(0 .. clock) /\ Covered(kind, times, b, wait) /\ Limited(kind, times, wait)
  <2>1. CASE id \in DOMAIN passed
    <3>1. times = passed[id] /\ b = bucket[id] /\ wait = waited[id]
      BY <1>1, <1>6, <2>1 DEF RateLimitTypes, times, b, wait, Lookup
    <3>2. times \in Seq(0 .. clock)
      BY <1>1, <2>1, <3>1 DEF RateLimitTypes
    <3>3. Covered(kind, times, b, wait)
      BY <1>1, <1>5, <2>1, <3>1 DEF TokensCover, Covered
    <3>4. Limited(kind, times, wait)
      BY <1>1, <1>5, <2>1, <3>1, KindLimited
    <3>5. QED
      BY <3>2, <3>3, <3>4
  <2>2. CASE id \notin DOMAIN passed
    <3>1. times = <<>>
      BY <2>2 DEF times, Lookup
    <3>2. QED
      BY <3>1 DEF Covered, Limited
  <2>3. QED
    BY <2>1, <2>2
<1>9. Answered(tokens, at, clock, times, row, later)
  BY DEF Answered, row, later
<1>10. /\ row \in [tokens : 0 .. Capacity[kind], updated : 0 .. clock]
       /\ after \in Nat /\ later \in Seq(0 .. clock)
       /\ Covered(kind, later, row, after) /\ Limited(kind, later, after)
  BY <1>1, <1>2, <1>3, <1>7, <1>8, <1>9, BucketGoesOn DEF tokens, after
<1>11. /\ DOMAIN bucket' = DOMAIN bucket \cup {id} /\ bucket'[id] = row
       /\ \A x \in DOMAIN bucket : x # id => bucket'[x] = bucket[x]
       /\ DOMAIN waited' = DOMAIN bucket' /\ waited'[id] = after
       /\ \A x \in DOMAIN waited : x # id => waited'[x] = waited[x]
  <2>1. /\ DOMAIN Update(bucket, id, row) = DOMAIN bucket \cup {id}
        /\ Update(bucket, id, row)[id] = row
        /\ \A x \in DOMAIN bucket : x # id => Update(bucket, id, row)[x] = bucket[x]
    BY DEF Update
  <2>2. /\ DOMAIN Update(waited, id, after) = DOMAIN waited \cup {id}
        /\ Update(waited, id, after)[id] = after
        /\ \A x \in DOMAIN waited : x # id => Update(waited, id, after)[x] = waited[x]
    BY DEF Update
  <2>3. QED
    BY <1>1, <1>4, <2>1, <2>2 DEF RateLimitTypes
<1>12. /\ DOMAIN passed' \subseteq DOMAIN passed \cup {id}
       /\ \A x \in DOMAIN passed : x \in DOMAIN passed'
       /\ id \in DOMAIN passed' => passed'[id] = later
       /\ \A x \in DOMAIN passed : x # id => passed'[x] = passed[x]
  <2>1. CASE tokens >= 1
    <3>1. /\ DOMAIN Update(passed, id, later) = DOMAIN passed \cup {id}
          /\ Update(passed, id, later)[id] = later
          /\ \A x \in DOMAIN passed : x # id => Update(passed, id, later)[x] = passed[x]
      BY DEF Update
    <3>2. QED
      BY <1>4, <2>1, <3>1
  <2>2. CASE ~(tokens >= 1)
    <3>1. passed' = passed /\ later = times
      BY <1>4, <2>2 DEF later
    <3>2. id \in DOMAIN passed => passed[id] = times
      BY DEF times, Lookup
    <3>3. QED
      BY <3>1, <3>2
  <2>3. QED
    BY <2>1, <2>2
<1>13. RateLimitTypes'
  <2>1. call' \in [Requests -> CallStates]
    BY <1>1, <1>2, <1>3, <1>4 DEF CallStates
  <2>2. DOMAIN bucket' \subseteq BucketKinds \X Clients
    BY <1>1, <1>5, <1>11 DEF RateLimitTypes
  <2>3. \A x \in DOMAIN bucket' :
            bucket'[x] \in [tokens : 0 .. Capacity[x[1]], updated : 0 .. clock] /\ waited'[x] \in Nat
    BY <1>1, <1>5, <1>10, <1>11 DEF RateLimitTypes
  <2>4. DOMAIN passed' \subseteq DOMAIN bucket' \cup {LinkBucket}
    BY <1>1, <1>11, <1>12 DEF RateLimitTypes
  <2>5. \A x \in DOMAIN passed' : passed'[x] \in Seq(0 .. clock)
    BY <1>1, <1>10, <1>12 DEF RateLimitTypes
  <2>6. QED
    BY <1>1, <1>4, <1>11, <2>1, <2>2, <2>3, <2>4, <2>5 DEF RateLimitTypes
<1>14. OwnBuckets'
  BY <1>1, <1>2, <1>4 DEF OwnBuckets
<1>15. TokensCover'
  <2>1. ASSUME NEW x \in DOMAIN passed', x # LinkBucket, NEW i \in DOMAIN passed'[x]
        PROVE  Len(passed'[x]) - i + 1 + bucket'[x].tokens <=
                  Capacity[x[1]] + Refill[x[1]] * (bucket'[x].updated - passed'[x][i] + waited'[x])
    <3>1. CASE x = id
      BY <1>5, <1>10, <1>11, <1>12, <2>1, <3>1 DEF Covered
    <3>2. CASE x # id
      <4>1. x \in DOMAIN passed /\ x \in DOMAIN bucket /\ x \in DOMAIN waited
        BY <1>1, <1>12, <2>1, <3>2 DEF RateLimitTypes
      <4>2. passed'[x] = passed[x] /\ bucket'[x] = bucket[x] /\ waited'[x] = waited[x]
        BY <1>11, <1>12, <3>2, <4>1
      <4>3. QED
        BY <1>1, <2>1, <4>1, <4>2 DEF TokensCover
    <3>3. QED
      BY <3>1, <3>2
  <2>2. QED
    BY <2>1 DEF TokensCover
<1>16. WindowCovers'
  <2>1. Lookup(passed, LinkBucket, <<>>)' = Lookup(passed, LinkBucket, <<>>)
        /\ (LinkBucket \in DOMAIN passed' => LinkBucket \in DOMAIN passed)
    BY <1>5, <1>12 DEF Lookup
  <2>2. QED
    BY <1>1, <1>4, <2>1 DEF WindowCovers
<1>17. RequestsLimited'
  <2>1. ASSUME NEW x \in DOMAIN passed'
        PROVE  IF x[1] = "links" THEN LinksLimited(passed'[x])
               ELSE Limited(x[1], passed'[x], waited'[x])
    <3>1. CASE x = id
      BY <1>5, <1>10, <1>11, <1>12, <2>1, <3>1
    <3>2. CASE x # id
      <4>1. x \in DOMAIN passed /\ passed'[x] = passed[x]
        BY <1>12, <2>1, <3>2
      <4>2. x[1] # "links" => x \in DOMAIN waited /\ waited'[x] = waited[x]
        <5>1. LinkBucket[1] = "links"
          BY DEF LinkBucket
        <5>2. QED
          BY <1>1, <1>11, <3>2, <4>1, <5>1 DEF RateLimitTypes
      <4>3. QED
        BY <1>1, <4>1, <4>2, KindLimited
    <3>3. QED
      BY <3>1, <3>2
  <2>2. QED
    BY <2>1 DEF RequestsLimited, LinksLimited, Limited
<1>18. QED
  BY <1>13, <1>14, <1>15, <1>16, <1>17 DEF RateLimitInv

LEMMA OpenLinkKeeps ==
    ASSUME RateLimitInv, NEW q \in Requests, OpenLink(q)
    PROVE  RateLimitInv'
<1> DEFINE fresh == window = <<>> \/ clock - window.started >= LinkWindow
           count == (IF fresh THEN 0 ELSE window.count) + 1
           started == IF fresh THEN clock ELSE window.started
           links == Lookup(passed, LinkBucket, <<>>)
           inWindow == IF window = <<>> THEN 0
                       ELSE IF window.count < LinkBudget THEN window.count ELSE LinkBudget
           later == IF count <= LinkBudget THEN Append(links, clock) ELSE links
           shown == IF count < LinkBudget THEN count ELSE LinkBudget
<1>1. /\ call \in [Requests -> CallStates] /\ clock \in Nat
      /\ RateLimitTypes /\ OwnBuckets /\ TokensCover /\ WindowCovers /\ RequestsLimited
      /\ LinkBudget \in Nat \ {0} /\ LinkWindow \in Nat \ {0}
      /\ window \in {<<>>} \cup [started : 0 .. clock, count : Nat \ {0}]
  BY RateLimitAssumption DEF RateLimitInv, RateLimitTypes
<1>2. /\ window' = [started |-> started, count |-> count]
      /\ passed' = IF count <= LinkBudget THEN Update(passed, LinkBucket, later) ELSE passed
      /\ call' = [call EXCEPT ![q] = [op |-> "over"]]
      /\ UNCHANGED <<clock, bucket, waited>>
  BY DEF OpenLink
<1>3. /\ started \in 0 .. clock /\ count \in Nat \ {0}
      /\ inWindow \in 0 .. LinkBudget /\ shown \in 1 .. LinkBudget
  <2>1. CASE window = <<>>
    BY <1>1, <2>1
  <2>2. CASE window \in [started : 0 .. clock, count : Nat \ {0}]
    BY <1>1, <2>2
  <2>3. QED
    BY <1>1, <2>1, <2>2
<1>4. LinkBucket[1] = "links" /\ LinkBucket \notin BucketKinds \X Clients
  BY DEF LinkBucket, BucketKinds
<1>5. links \in Seq(0 .. clock) /\ LinksLimited(links)
  <2>1. CASE LinkBucket \in DOMAIN passed
    BY <1>1, <1>4, <2>1, KindLimited DEF RateLimitTypes, Lookup
  <2>2. CASE LinkBucket \notin DOMAIN passed
    BY <2>2 DEF Lookup, LinksLimited
  <2>3. QED
    BY <2>1, <2>2
<1>6. /\ window = <<>> => links = <<>>
      /\ window # <<>> => LinksCovered(links, window.started, inWindow)
  <2>1. CASE window = <<>>
    BY <1>1, <2>1 DEF WindowCovers, Lookup
  <2>2. CASE window # <<>>
    BY <1>1, <2>2 DEF WindowCovers, LinksCovered
  <2>3. QED
    BY <2>1, <2>2
<1>7. /\ later \in Seq(0 .. clock)
      /\ LinksLimited(later) /\ LinksCovered(later, started, shown)
      /\ count > LinkBudget => window # <<>>
  <2>1. CASE window = <<>>
    <3>1. fresh /\ count = 1 /\ started = clock /\ later = Append(links, clock) /\ shown = 1
      BY <1>1, <2>1
    <3>2. Append(links, clock) \in Seq(0 .. clock)
      BY <1>1, <1>5, AppendedTime
    <3> HIDE DEF links, later, shown, count, started, fresh
    <3>3. QED
      BY <1>1, <1>6, <2>1, <3>1, <3>2, FirstLink
  <2>2. CASE window # <<>> /\ fresh
    <3>1. /\ count = 1 /\ started = clock /\ later = Append(links, clock) /\ shown = 1
          /\ window.started \in 0 .. clock /\ window.started + LinkWindow <= clock
      BY <1>1, <2>2
    <3>2. Append(links, clock) \in Seq(0 .. clock)
      BY <1>1, <1>5, AppendedTime
    <3> HIDE DEF links, later, shown, count, started, fresh, inWindow
    <3>3. LinksLimited(Append(links, clock)) /\ LinksCovered(Append(links, clock), clock, 1)
      BY <1>1, <1>3, <1>5, <1>6, <2>2, <3>1, LinkOpensWindow
    <3>4. QED
      BY <2>2, <3>1, <3>2, <3>3
  <2>3. CASE window # <<>> /\ ~fresh /\ count <= LinkBudget
    <3>1. /\ started = window.started /\ later = Append(links, clock)
          /\ window.started \in 0 .. clock /\ clock < window.started + LinkWindow
          /\ inWindow \in 0 .. LinkBudget - 1 /\ shown = inWindow + 1
      BY <1>1, <2>3
    <3>2. Append(links, clock) \in Seq(0 .. clock)
      BY <1>1, <1>5, AppendedTime
    <3> HIDE DEF links, later, shown, count, started, fresh, inWindow
    <3>3. /\ LinksLimited(Append(links, clock))
          /\ LinksCovered(Append(links, clock), window.started, inWindow + 1)
      BY <1>1, <1>5, <1>6, <2>3, <3>1, LinkInWindow
    <3>4. QED
      BY <2>3, <3>1, <3>2, <3>3
  <2>4. CASE window # <<>> /\ ~fresh /\ count > LinkBudget
    <3>1. started = window.started /\ later = links /\ shown = inWindow
      BY <1>1, <2>4
    <3> HIDE DEF links, later, shown, count, started, fresh, inWindow
    <3>2. QED
      BY <1>5, <1>6, <2>4, <3>1
  <2>5. QED
    BY <1>1, <1>3, <2>1, <2>2, <2>3, <2>4
<1> HIDE DEF fresh, count, started, links, inWindow, later, shown
<1>8. /\ DOMAIN passed' \subseteq DOMAIN passed \cup {LinkBucket}
      /\ LinkBucket \in DOMAIN passed' => passed'[LinkBucket] = later
      /\ LinkBucket \notin DOMAIN passed' => later = <<>>
      /\ \A x \in DOMAIN passed : x # LinkBucket => passed'[x] = passed[x]
  <2>1. CASE count <= LinkBudget
    <3>1. /\ DOMAIN Update(passed, LinkBucket, later) = DOMAIN passed \cup {LinkBucket}
          /\ Update(passed, LinkBucket, later)[LinkBucket] = later
          /\ \A x \in DOMAIN passed : x # LinkBucket => Update(passed, LinkBucket, later)[x] = passed[x]
      BY DEF Update
    <3>2. QED
      BY <1>2, <2>1, <3>1
  <2>2. CASE ~(count <= LinkBudget)
    <3>1. passed' = passed /\ later = links
      BY <1>2, <2>2 DEF later
    <3>2. IF LinkBucket \in DOMAIN passed THEN links = passed[LinkBucket] ELSE links = <<>>
      BY DEF links, Lookup
    <3>3. QED
      BY <3>1, <3>2
  <2>3. QED
    BY <2>1, <2>2
<1>9. Lookup(passed, LinkBucket, <<>>)' = later
  BY <1>8 DEF Lookup
<1>10. RateLimitTypes'
  <2>1. call' \in [Requests -> CallStates]
    BY <1>1, <1>2 DEF CallStates
  <2>2. DOMAIN passed' \subseteq DOMAIN bucket' \cup {LinkBucket}
    BY <1>1, <1>2, <1>8 DEF RateLimitTypes
  <2>3. \A x \in DOMAIN passed' : passed'[x] \in Seq(0 .. clock)
    BY <1>1, <1>7, <1>8 DEF RateLimitTypes
  <2>4. window' \in [started : 0 .. clock, count : Nat \ {0}]
    BY <1>2, <1>3
  <2>5. QED
    BY <1>1, <1>2, <2>1, <2>2, <2>3, <2>4 DEF RateLimitTypes
<1>11. OwnBuckets'
  BY <1>1, <1>2 DEF OwnBuckets
<1>12. TokensCover'
  <2>1. \A x \in DOMAIN passed' \ {LinkBucket} : x \in DOMAIN passed /\ passed'[x] = passed[x]
    BY <1>8
  <2>2. QED
    BY <1>1, <1>2, <2>1 DEF TokensCover
<1>13. WindowCovers'
  <2>1. window' # <<>> /\ window'.started = started /\ window'.count = count
    <3>1. DOMAIN <<>> = {} /\ DOMAIN [started |-> started, count |-> count] # {}
      OBVIOUS
    <3>2. QED
      BY <1>2, <3>1
  <2>2. LinksCovered(Lookup(passed, LinkBucket, <<>>)', window'.started,
            IF window'.count < LinkBudget THEN window'.count ELSE LinkBudget)
    BY <1>7, <1>9, <2>1 DEF shown
  <2>3. QED
    BY <2>1, <2>2 DEF WindowCovers, LinksCovered
<1>14. RequestsLimited'
  <2>1. ASSUME NEW x \in DOMAIN passed'
        PROVE  IF x[1] = "links" THEN LinksLimited(passed'[x])
               ELSE Limited(x[1], passed'[x], waited'[x])
    <3>1. CASE x = LinkBucket
      BY <1>4, <1>7, <1>8, <3>1
    <3>2. CASE x # LinkBucket
      <4>1. x \in DOMAIN passed /\ passed'[x] = passed[x]
        BY <1>8, <2>1, <3>2
      <4>2. QED
        BY <1>1, <1>2, <4>1, KindLimited
    <3>3. QED
      BY <3>1, <3>2
  <2>2. QED
    BY <2>1 DEF RequestsLimited, LinksLimited, Limited
<1>15. QED
  BY <1>10, <1>11, <1>12, <1>13, <1>14 DEF RateLimitInv

-----------------------------------------------------------------------------
(* Theorems *)

LEMMA StartsLimited ==
    ASSUME RateLimitInit
    PROVE  RateLimitInv
<1>1. /\ clock = 0 /\ call = [q \in Requests |-> [op |-> "new"]]
      /\ bucket = <<>> /\ window = <<>> /\ passed = <<>> /\ waited = <<>>
      /\ DOMAIN <<>> = {}
  BY DEF RateLimitInit
<1>2. RateLimitTypes
  <2>1. call \in [Requests -> CallStates]
    BY <1>1 DEF CallStates
  <2>2. QED
    BY <1>1, <2>1 DEF RateLimitTypes
<1>3. OwnBuckets
  BY <1>1 DEF OwnBuckets
<1>4. TokensCover /\ WindowCovers /\ RequestsLimited
  BY <1>1 DEF TokensCover, WindowCovers, RequestsLimited
<1>5. QED
  BY <1>2, <1>3, <1>4 DEF RateLimitInv

\* What the limits rest on, over all steps: a request pays from the buckets of the client that sent
\* it whatever its headers say, what has passed since any request is covered by what the bucket
\* gained, and the window for links covers the latest passes (consume_rate_limit,
\* resolve_client_address, within_request_budget).
THEOREM RateLimitInductive == RateLimitSpec => []RateLimitInv
<1>1. RateLimitInit => RateLimitInv
  BY StartsLimited
<1>2. RateLimitInv /\ [RateLimitNext]_limitVars => RateLimitInv'
  <2> SUFFICES ASSUME RateLimitInv, [RateLimitNext]_limitVars PROVE RateLimitInv'
    OBVIOUS
  <2>1. CASE UNCHANGED limitVars
    BY <2>1 DEF limitVars, RateLimitInv, RateLimitTypes, OwnBuckets, TokensCover, WindowCovers,
        RequestsLimited
  <2>2. ASSUME NEW q \in Requests, NEW client \in Clients, NEW proxied \in BOOLEAN,
               NEW forged \in Forgeries, NEW category \in Categories,
               Receive(q, client, proxied, forged, category)
        PROVE  RateLimitInv'
    BY <2>2, ReceiveKeeps
  <2>3. ASSUME NEW q \in Requests, Observe(q) PROVE RateLimitInv'
    BY <2>3, ObserveKeeps
  <2>4. ASSUME NEW q \in Requests, Consume(q) PROVE RateLimitInv'
    BY <2>4, ConsumeKeeps
  <2>5. ASSUME NEW q \in Requests, OpenLink(q) PROVE RateLimitInv'
    BY <2>5, OpenLinkKeeps
  <2>6. CASE ClockTicks
    BY <2>6, ClockKeeps
  <2>7. QED
    BY <2>1, <2>2, <2>3, <2>4, <2>5, <2>6 DEF RateLimitNext
<1>3. QED
  BY <1>1, <1>2, PTL DEF RateLimitSpec

\* No bucket lets more of a client's requests pass in any span of time than it holds and gains, but
\* for what it gains while statements wait for its row; and requests for links pass at most twice
\* the budget within a window's length (consume_rate_limit, within_request_budget).
THEOREM RequestsStayLimited == RateLimitSpec => []RequestsLimited
<1>1. RateLimitInv => RequestsLimited
  BY DEF RateLimitInv
<1>2. QED
  BY <1>1, RateLimitInductive, PTL
=============================================================================
