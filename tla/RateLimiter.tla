----------------------------- MODULE RateLimiter -----------------------------
(***************************************************************************)
(* The request limiter of the API: for each client a fixed window and a    *)
(* counter, in a table with a bound, in memory.                            *)
(*                                                                         *)
(* The mutex makes each call of the limiter one step; the clock is read    *)
(* just before and taken to be the same.  A request is that of the client  *)
(* whose address a trusted proxy has seen; what the client itself writes   *)
(* into X-Forwarded-For stands left of it.                                 *)
(*                                                                         *)
(* An observer picks a moment and what to count from then on, for as long  *)
(* as a window lasts: what holds of its count holds of every such time.    *)
(*                                                                         *)
(* Abstracted: one endpoint (the key of another is another key); addresses *)
(* that do not parse, which the code drops.                                *)
(***************************************************************************)
EXTENDS Integers, Sequences, FiniteSetsExt

CONSTANTS
  Clients,      \* addresses of clients
  Proxy,        \* address of a trusted proxy
  MaxEntries,   \* size of the table
  Limit,        \* requests in a window
  Window,       \* length of a window in ticks
  MaxClock      \* bound: ticks of the clock

ASSUME LimiterAssumption ==
  /\ Proxy \notin Clients /\ MaxEntries \in Nat \ {0} /\ Limit \in Nat \ {0}
  /\ Window \in Nat \ {0} /\ MaxClock \in Nat \ {0}

VARIABLES
  clock,
  counters,     \* the table: counter and end of the window of every key in it
  watch         \* the observer: what, of which address, since when, and how many so far

Addresses == Clients \cup {Proxy}

\* What a client may begin the header with.
Begun == {<<>>} \cup {<<a>> : a \in Addresses}

Nothing == [what |-> "nothing", of |-> Proxy, since |-> 0, count |-> 0]

LimiterInit == clock = 1 /\ counters = <<>> /\ watch = Nothing

\* The observer counts what has just happened.
Observe(what, of, length) ==
  IF watch.what = what /\ watch.of = of /\ clock < watch.since + length
    THEN [watch EXCEPT !.count = @ + 1] ELSE watch

isTrustedProxy(a) == a = Proxy

\* The first address instead of the last.
FirstForwarded(peer, forwarded) ==
  IF isTrustedProxy(peer) /\ forwarded # <<>> THEN forwarded[1] ELSE peer

\* The last address that is not a trusted proxy's, or else the first.
ClientIP(peer, forwarded) ==
  LET unknown == {i \in DOMAIN forwarded : ~ isTrustedProxy(forwarded[i])}
  IN IF ~ isTrustedProxy(peer) \/ forwarded = <<>> THEN peer
     ELSE IF unknown # {} THEN forwarded[Max(unknown)] ELSE forwarded[1]

----------------------------------------------------------------------------
Known == DOMAIN counters

Live(k) == k \in Known /\ clock < counters[k].end

\* Whatever is in the table goes.
removeAll == <<>>

removeExpired == [k \in {j \in Known : Live(j)} |-> counters[k]]

\* The table, made room in when it is full.
Room(k) == IF k \in Known \/ Cardinality(Known) < MaxEntries THEN counters ELSE removeExpired

\* A full table takes one more.
NewWindowAnyway(k) ==
  /\ ~ Live(k)
  /\ counters' = [j \in DOMAIN Room(k) \cup {k} |->
       IF j = k THEN [count |-> 1, end |-> clock + Window] ELSE counters[j]]

NewWindow(k) ==
  /\ ~ Live(k)
  /\ k \in Known \/ Cardinality(DOMAIN Room(k)) < MaxEntries
  /\ counters' = [j \in DOMAIN Room(k) \cup {k} |->
       IF j = k THEN [count |-> 1, end |-> clock + Window] ELSE counters[j]]

SameWindow(k) ==
  /\ Live(k) /\ counters[k].count < Limit
  /\ counters' = [counters EXCEPT ![k].count = @ + 1]

\* A request passes; a refusal changes nothing.
allow(k) == NewWindow(k) \/ SameWindow(k)

\* A request of client c, from its own address or through the proxy with a header that the
\* client has begun.
RateLimit(c) ==
  /\ \E own \in Begun :
       allow(ClientIP(Proxy, Append(own, c))) \/ (own = <<>> /\ allow(ClientIP(c, own)))
  /\ watch' = Observe("request", c, Window)
=============================================================================
