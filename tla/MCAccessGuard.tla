---------------------------- MODULE MCAccessGuard ----------------------------
(* Instances of AccessGuard, and of RateLimiter in it, for TLC. *)
EXTENDS AccessGuard, TLC

Symmetry == Permutations(Verifiers) \cup Permutations(Downloaders) \cup Permutations(Clients)

UnderWay(procs) == {p \in procs : req[p] # "idle"}
Named == {a \in Addresses : dl[a] # NoWindow}
NoDownloads == Named = {} /\ UnderWay(Downloaders) = {}

\* The limiter does not read the guard, the attempts do not read the grant, and downloads
\* read neither the attempts nor the limiter: TLC meets each of the three with as little of
\* the others as it needs, and looks on from the end of the access without the observer.
\* Two addresses have a window at a time.
Requests  == watch.what = "request" /\ verify = NoAttempts /\ Cardinality(UnderWay(Verifiers)) <= 1
Guesses   == watch.what = "guess" /\ grant = 0 /\ Cardinality(Known) <= 2
Downloads == watch.what \in {"download", "nothing"} /\ UnderWay(Verifiers) = {} /\ Cardinality(Named) <= 2
Grants    == watch = Nothing /\ Named = {}

Apart ==
  \/ NoDownloads /\ clock <= Expires /\ (Requests \/ Guesses)
  \/ NoDownloads /\ watch = Nothing /\ grant = 0
  \/ verify = NoAttempts /\ Cardinality(Known) <= 1 /\ (Downloads \/ Grants)

ApartSpec == Init /\ [][Next /\ Apart']_vars
=============================================================================
