--------------------------- MODULE AccessGuardProofs ---------------------------
(***************************************************************************)
(* Proofs about AccessGuard and the RateLimiter in it, for any clients,    *)
(* requests, limits and lengths of windows: the table keeps its bound, no  *)
(* time of a window's length sees more than its share of a client's        *)
(* requests, of guesses, or of downloads by an address, and a grant ends   *)
(* with the access.                                                        *)
(*                                                                         *)
(* The three bounds have one argument.  While the observer looks, a window *)
(* that began before it has at least one more on its counter than the      *)
(* observer has seen; when it is over, less than a full window was seen;   *)
(* and the window that follows outlasts the observer.                      *)
(***************************************************************************)
EXTENDS AccessGuard, SequenceTheorems, FiniteSetTheorems, TLAPS

Row        == [count : 1 .. Limit, end : Nat]
WatchState == [what : {"request", "guess", "download", "nothing"}, of : Addresses,
               since : Nat, count : Nat]
DlWindow   == [count : 0 .. DownloadLimit, windowTil : Nat]
States     == {"idle", "verify", "compare", "wrong", "right", "grant", "validate", "download"}

TypeInv ==
  /\ clock \in 1 .. MaxClock
  /\ counters \in [Known -> Row] /\ Known \subseteq Clients
  /\ IsFiniteSet(Known) /\ Cardinality(Known) <= MaxEntries
  /\ verify \in [failures : 0 .. VerifyMaxAttempts - 1, lockedTil : Nat, windowTil : Nat]
  /\ dl \in [Addresses -> DlWindow]
  /\ \A a \in Addresses : dl[a].count = 0 => dl[a].windowTil = 0
  /\ grant \in Nat /\ right \in BOOLEAN
  /\ req \in [Verifiers \cup Downloaders -> States]
  /\ watch \in WatchState /\ watch.since <= clock
  /\ watch.what = "request" => watch.of \in Clients

RequestsFine ==
  LET c == watch.of  n == watch.count
  IN watch.what = "request" =>
       /\ n < 2 * Limit
       /\ clock < watch.since + Window =>
            IF Live(c) THEN /\ n < Limit + counters[c].count
                            /\ counters[c].end < watch.since + Window => n < counters[c].count
                       ELSE n < Limit

DownloadsFine ==
  LET n == watch.count  window == dl[watch.of]
  IN watch.what = "download" =>
       /\ n < 2 * DownloadLimit
       /\ clock < watch.since + DownloadWindow =>
            IF clock <= window.windowTil
              THEN /\ n < DownloadLimit + window.count
                   /\ window.windowTil < watch.since + DownloadWindow => n < window.count
              ELSE n < DownloadLimit

\* Requests that have passed VerifyAllowed and are not registered yet.
Flying == {p \in Verifiers : req[p] \in {"compare", "wrong"}}

MaxGuesses == 2 * VerifyMaxAttempts - 2 + Cardinality(Verifiers)

\* Once there is a lock that outlasts the observer, nobody sets out any more.
GuessesFine ==
  LET n == watch.count  until == watch.since + VerifyLockout
  IN watch.what = "guess" =>
       /\ n <= MaxGuesses
       /\ clock < until =>
            IF verify.lockedTil >= until THEN n + Cardinality(Flying) <= MaxGuesses
            ELSE IF clock <= verify.windowTil
              THEN /\ n < VerifyMaxAttempts + verify.failures
                   /\ verify.windowTil < until => n <= verify.failures
              ELSE n < VerifyMaxAttempts

GrantFine ==
  /\ grant <= Expires
  /\ grant > 0 => right
  /\ \A p \in Verifiers : req[p] \in {"right", "grant"} => right

IInv == TypeInv /\ RequestsFine /\ DownloadsFine /\ GuessesFine /\ GrantFine

----------------------------------------------------------------------------
(* The observer, the clock and the constants. *)

\* Numbers are numbers.
LEMMA Numbers ==
  /\ Limit \in Nat \ {0} /\ Window \in Nat \ {0} /\ MaxEntries \in Nat \ {0} /\ MaxClock \in Nat \ {0}
  /\ VerifyMaxAttempts \in Nat \ {0} /\ VerifyLockout \in Nat \ {0}
  /\ DownloadLimit \in Nat \ {0} /\ DownloadWindow \in Nat \ {0}
  /\ GrantTTL \in Nat \ {0} /\ Expires \in Nat \ {0}
  /\ Cardinality(Verifiers) \in Nat
BY LimiterAssumption, GuardAssumption, FS_CardinalityType

\* What the observer counts.
LEMMA Observed ==
  ASSUME watch \in WatchState, NEW w, NEW o, NEW length \in Nat, clock \in Nat,
         watch' = Observe(w, o, length)
  PROVE  /\ watch' \in WatchState /\ watch'.what = watch.what /\ watch'.of = watch.of
         /\ watch'.since = watch.since
         /\ watch'.count = IF watch.what = w /\ watch.of = o /\ clock < watch.since + length
                           THEN watch.count + 1 ELSE watch.count
         /\ watch.since \in Nat /\ watch.count \in Nat
BY DEF Observe, WatchState

\* The smaller of two numbers.
LEMMA MinOfTwo ==
  ASSUME NEW a \in Int, NEW b \in Int
  PROVE  Min({a, b}) \in {a, b} /\ Min({a, b}) <= a /\ Min({a, b}) <= b
<1>1. \E x \in {a, b} : \A y \in {a, b} : x <= y
  OBVIOUS
<1> QED
  BY <1>1 DEF Min

\* The observer looks elsewhere.
LEMMA NotObserved ==
  ASSUME watch'.what = watch.what, watch'.of = watch.of, watch'.since = watch.since,
         watch'.count = watch.count, clock' = clock
  PROVE  /\ RequestsFine /\ counters' = counters => RequestsFine'
         /\ DownloadsFine /\ dl' = dl => DownloadsFine'
         /\ GuessesFine /\ verify' = verify /\ req' = req => GuessesFine'
<1>1. RequestsFine /\ counters' = counters => RequestsFine'
  BY DEF RequestsFine, Live, Known
<1>2. DownloadsFine /\ dl' = dl => DownloadsFine'
  BY DEF DownloadsFine
<1>3. GuessesFine /\ verify' = verify /\ req' = req => GuessesFine'
  BY DEF GuessesFine, Flying
<1> QED
  BY <1>1, <1>2, <1>3

----------------------------------------------------------------------------
(* The limiter. *)

\* Whatever a client writes into the header, its request is counted for its own address.
LEMMA ClientSeen ==
  ASSUME NEW c \in Clients, NEW own \in Begun
  PROVE  ClientIP(Proxy, Append(own, c)) = c /\ ClientIP(c, own) = c
<1>1. c # Proxy /\ c \in Addresses
  BY LimiterAssumption DEF Addresses
<1>2. ClientIP(c, own) = c
  BY <1>1 DEF ClientIP, isTrustedProxy
<1> DEFINE s == Append(own, c)
           n == Len(own) + 1
           unknown == {i \in DOMAIN s : ~ isTrustedProxy(s[i])}
<1>3. own \in Seq(Addresses)
  <2>1. <<>> \in Seq(Addresses)
    BY EmptySeq
  <2>2. ASSUME NEW a \in Addresses
        PROVE  <<a>> \in Seq(Addresses)
    <3>1. <<a>> \in [1 .. 1 -> Addresses]
      OBVIOUS
    <3> QED
      BY <3>1, SeqDef
  <2> QED
    BY <2>1, <2>2 DEF Begun
<1>4. /\ s \in Seq(Addresses) /\ Len(s) = n /\ s[n] = c /\ s # <<>> /\ n \in Nat /\ DOMAIN s = 1 .. n
  <2>1. s \in Seq(Addresses) /\ Len(s) = n /\ s[n] = c /\ s # <<>>
    BY <1>1, <1>3, AppendProperties
  <2>2. Len(own) \in Nat /\ DOMAIN s = 1 .. Len(s)
    BY <1>3, <2>1, LenProperties
  <2> QED
    BY <2>1, <2>2
<1> HIDE DEF s, n
<1>5. n \in unknown /\ \A i \in unknown : i \in Int /\ n >= i
  <2>1. n \in DOMAIN s
    BY <1>4 DEF n
  <2> QED
    BY <1>1, <1>4, <2>1 DEF isTrustedProxy
<1>6. Max(unknown) = n
  <2>1. Max(unknown) \in unknown /\ \A i \in unknown : Max(unknown) >= i
    BY <1>5 DEF Max
  <2>2. Max(unknown) >= n /\ n >= Max(unknown) /\ Max(unknown) \in Int /\ n \in Int
    BY <1>5, <2>1
  <2> QED
    BY <2>2
<1>7. ClientIP(Proxy, s) = s[Max(unknown)]
  BY <1>4, <1>5 DEF ClientIP, isTrustedProxy
<1> QED
  BY <1>2, <1>4, <1>6, <1>7 DEF s

\* Making room drops no window that is not over.
LEMMA RoomMade ==
  ASSUME TypeInv, NEW k
  PROVE  /\ DOMAIN Room(k) \subseteq Known /\ Room(k) \in [DOMAIN Room(k) -> Row]
         /\ \A j \in Known : Live(j) => j \in DOMAIN Room(k)
         /\ IsFiniteSet(DOMAIN Room(k)) /\ Cardinality(DOMAIN Room(k)) \in Nat
<1>1. /\ DOMAIN Room(k) \subseteq Known /\ Room(k) \in [DOMAIN Room(k) -> Row]
      /\ \A j \in Known : Live(j) => j \in DOMAIN Room(k)
  BY DEF TypeInv, Room, removeExpired, Known
<1>2. IsFiniteSet(Known) /\ DOMAIN Room(k) \in SUBSET Known
  BY <1>1 DEF TypeInv
<1>3. IsFiniteSet(DOMAIN Room(k))
  BY <1>2, FS_Subset
<1> QED
  BY <1>1, <1>3, FS_CardinalityType

\* The table after a request has passed.
LEMMA Allowed ==
  ASSUME TypeInv, NEW c \in Clients, allow(c)
  PROVE  /\ Known' \subseteq Clients /\ IsFiniteSet(Known') /\ Cardinality(Known') <= MaxEntries
         /\ counters' \in [Known' -> Row] /\ c \in Known'
         /\ IF Live(c) THEN /\ counters[c].count \in 1 .. Limit /\ counters[c].end \in Nat
                            /\ counters'[c].count = counters[c].count + 1
                            /\ counters'[c].end = counters[c].end
            ELSE counters'[c].count = 1 /\ counters'[c].end = clock + Window
<1>1. /\ counters \in [Known -> Row] /\ Known \subseteq Clients /\ clock \in Nat
      /\ IsFiniteSet(Known) /\ Cardinality(Known) <= MaxEntries /\ Cardinality(Known) \in Nat
  BY Numbers, FS_CardinalityType DEF TypeInv
<1>2. CASE SameWindow(c)
  <2> DEFINE row == [counters[c] EXCEPT !.count = @ + 1]
  <2>1. /\ Live(c) /\ c \in Known /\ counters[c] \in Row /\ counters[c].count < Limit
        /\ counters' = [counters EXCEPT ![c] = row]
    BY <1>1, <1>2 DEF SameWindow, Live
  <2>2. /\ row \in Row /\ row.count = counters[c].count + 1 /\ row.end = counters[c].end
        /\ counters[c].count \in 1 .. Limit /\ counters[c].end \in Nat
    BY <2>1, Numbers DEF Row
  <2> HIDE DEF row
  <2>3. counters' \in [Known -> Row] /\ Known' = Known /\ counters'[c] = row
    BY <1>1, <2>1, <2>2 DEF Known
  <2> QED
    BY <1>1, <2>1, <2>2, <2>3
<1>3. CASE NewWindow(c)
  <2> DEFINE D == DOMAIN Room(c)
             row == [count |-> 1, end |-> clock + Window]
  <2>1. /\ ~ Live(c) /\ (c \in Known \/ Cardinality(D) < MaxEntries)
        /\ counters' = [j \in D \cup {c} |-> IF j = c THEN row ELSE counters[j]]
    BY <1>3 DEF NewWindow
  <2>2. row \in Row /\ row.count = 1 /\ row.end = clock + Window
    BY <1>1, Numbers DEF Row
  <2>3. D \subseteq Known /\ IsFiniteSet(D) /\ Cardinality(D) \in Nat /\ D \cup {c} \subseteq Clients
    BY <1>1, RoomMade
  <2> HIDE DEF row, D
  <2>4. Known' = D \cup {c} /\ counters'[c] = row /\ counters' \in [Known' -> Row]
    BY <1>1, <2>1, <2>2, <2>3 DEF Known
  <2>5. IsFiniteSet(D \cup {c}) /\ Cardinality(D \cup {c}) <= MaxEntries
    <3>1. CASE c \in Known
      <4>1. D \cup {c} \in SUBSET Known
        BY <2>3, <3>1
      <4>2. IsFiniteSet(D \cup {c}) /\ Cardinality(D \cup {c}) <= Cardinality(Known)
        BY <1>1, <4>1, FS_Subset
      <4> QED
        BY <1>1, <4>2, Numbers, FS_CardinalityType
    <3>2. CASE Cardinality(D) < MaxEntries
      <4>1. /\ IsFiniteSet(D \cup {c})
            /\ Cardinality(D \cup {c}) = IF c \in D THEN Cardinality(D) ELSE Cardinality(D) + 1
        BY <2>3, FS_AddElement
      <4> QED
        BY <2>3, <3>2, <4>1, Numbers
    <3> QED
      BY <2>1, <3>1, <3>2
  <2> QED
    BY <2>1, <2>2, <2>3, <2>4, <2>5
<1> QED
  BY <1>2, <1>3 DEF allow

\* The window of another client stays or is over.
LEMMA OtherWindows ==
  ASSUME TypeInv, NEW c \in Clients, allow(c), NEW j \in Clients \ {c}, clock' = clock
  PROVE  /\ (Live(j))' <=> Live(j)
         /\ Live(j) => counters'[j] = counters[j]
<1>1. counters \in [Known -> Row]
  BY DEF TypeInv
<1>2. CASE SameWindow(c)
  BY <1>1, <1>2 DEF SameWindow, Live, Known
<1>3. CASE NewWindow(c)
  <2>1. /\ \A i \in Known : Live(i) => i \in DOMAIN Room(c)
        /\ DOMAIN Room(c) \subseteq Known
    BY RoomMade
  <2>2. /\ DOMAIN counters' = DOMAIN Room(c) \cup {c}
        /\ \A i \in DOMAIN Room(c) \ {c} : counters'[i] = counters[i]
    BY <1>3 DEF NewWindow
  <2> QED
    BY <2>1, <2>2 DEF Live, Known
<1> QED
  BY <1>2, <1>3 DEF allow

\* Requests that pass.
LEMMA LimiterKeeps ==
  ASSUME IInv, NEW c \in Clients, RateLimit(c), clock' = clock
  PROVE  /\ Known' \subseteq Clients /\ IsFiniteSet(Known') /\ Cardinality(Known') <= MaxEntries
         /\ counters' \in [Known' -> Row] /\ RequestsFine'
         /\ watch' \in WatchState /\ watch'.since = watch.since /\ watch'.what = watch.what
         /\ watch'.of = watch.of
         /\ watch.what # "request" => watch'.count = watch.count
<1>1. allow(c)
  BY ClientSeen DEF RateLimit
<1>2. /\ watch \in WatchState /\ clock \in Nat /\ watch' = Observe("request", c, Window) /\ TypeInv
  BY Numbers DEF IInv, TypeInv, RateLimit
<1>3. /\ watch' \in WatchState /\ watch'.what = watch.what /\ watch'.since = watch.since
      /\ watch'.of = watch.of
      /\ watch'.count = IF watch.what = "request" /\ watch.of = c /\ clock < watch.since + Window
                        THEN watch.count + 1 ELSE watch.count
      /\ watch.since \in Nat /\ watch.count \in Nat
  BY <1>2, Observed, Numbers
<1>4. RequestsFine'
  <2> DEFINE w == watch.of
  <2>0. watch.what = "request" => w \in Clients
    BY <1>2 DEF TypeInv
  <2>1. CASE watch.what # "request"
    BY <1>3, <2>1 DEF RequestsFine
  <2>2. CASE watch.what = "request" /\ w \in Clients \ {c}
    <3> PICK k \in Clients \ {c} : watch.of = k
      BY <2>2
    <3>1. (Live(k)' <=> Live(k)) /\ (Live(k) => counters'[k] = counters[k])
      BY <1>1, <1>2, OtherWindows
    <3>2. /\ watch'.count = watch.count /\ watch'.of = k /\ watch'.since = watch.since
          /\ watch'.what = "request"
      BY <1>3, <2>2
    <3>3. RequestsFine
      BY DEF IInv
    <3> QED
      BY <2>2, <3>1, <3>2, <3>3, watch.of = k DEF RequestsFine, Live, Known
  <2>3. CASE watch.what = "request" /\ w = c /\ ~ clock < watch.since + Window
    BY <1>3, <2>3 DEF IInv, RequestsFine
  <2>4. CASE watch.what = "request" /\ w = c /\ clock < watch.since + Window
    <3>1. watch'.count = watch.count + 1
      BY <1>3, <2>4
    <3>2. /\ c \in Known'
          /\ IF Live(c) THEN /\ counters[c].count \in 1 .. Limit /\ counters[c].end \in Nat
                             /\ counters'[c].count = counters[c].count + 1
                             /\ counters'[c].end = counters[c].end
             ELSE counters'[c].count = 1 /\ counters'[c].end = clock + Window
          /\ counters'[c].count <= Limit
      <4>1. /\ c \in Known' /\ counters' \in [Known' -> Row]
            /\ IF Live(c) THEN /\ counters[c].count \in 1 .. Limit /\ counters[c].end \in Nat
                               /\ counters'[c].count = counters[c].count + 1
                               /\ counters'[c].end = counters[c].end
               ELSE counters'[c].count = 1 /\ counters'[c].end = clock + Window
        BY <1>1, <1>2, Allowed
      <4>2. counters'[c] \in Row
        BY <4>1
      <4> QED
        BY <4>1, <4>2, Numbers DEF Row
    <3>3. Live(c)'
      BY <1>2, <3>2, Numbers DEF Live
    <3>4. RequestsFine
      BY DEF IInv
    <3>5. /\ watch.count < 2 * Limit
          /\ IF Live(c) THEN /\ watch.count < Limit + counters[c].count
                             /\ counters[c].end < watch.since + Window => watch.count < counters[c].count
             ELSE watch.count < Limit
      BY <2>4, <3>4 DEF RequestsFine
    <3>6. /\ watch'.count < Limit + counters'[c].count
          /\ counters'[c].end < watch.since + Window => watch'.count < counters'[c].count
      <4>0. watch.since <= clock
        BY <1>2 DEF TypeInv
      <4>1. CASE Live(c)
        BY <1>3, <3>1, <3>2, <3>5, <4>1, Numbers
      <4>2. CASE ~ Live(c)
        BY <1>2, <1>3, <3>1, <3>2, <3>5, <4>0, <4>2, Numbers
      <4> QED
        BY <4>1, <4>2
    <3>7. watch'.count < 2 * Limit
      <4>1. watch.count \in Nat /\ counters'[c].count \in Int
        BY <1>3, <3>2, Numbers
      <4> QED
        BY <3>1, <3>2, <3>6, <4>1, Numbers
    <3> QED
      BY <1>3, <2>4, <3>3, <3>6, <3>7 DEF RequestsFine
  <2> QED
    BY <2>0, <2>1, <2>2, <2>3, <2>4
<1> QED
  BY <1>1, <1>2, <1>3, <1>4, Allowed

----------------------------------------------------------------------------
(* Steps of the requests. *)

\* Sets of verifying requests.
LEMMA VerifiersFinite ==
  ASSUME NEW S \in SUBSET Verifiers
  PROVE  /\ IsFiniteSet(S) /\ Cardinality(S) \in Nat /\ Cardinality(S) <= Cardinality(Verifiers)
BY GuardAssumption, FS_Subset, FS_CardinalityType

\* A step that writes no table and is not observed.
LEMMA QuietInvariant ==
  ASSUME IInv, UNCHANGED <<clock, counters, watch, verify, dl>>,
         NEW p \in Verifiers \cup Downloaders, NEW s \in States, req' = [req EXCEPT ![p] = s],
         p \in Verifiers /\ s \in {"compare", "wrong"} =>
           req[p] \in {"compare", "wrong"} \/ verify.lockedTil <= clock,
         grant' \in Nat, right' \in BOOLEAN, GrantFine'
  PROVE  IInv'
<1>1. /\ TypeInv /\ req \in [Verifiers \cup Downloaders -> States]
      /\ clock' = clock /\ counters' = counters /\ watch' = watch /\ verify' = verify /\ dl' = dl
  BY DEF IInv, TypeInv
<1>2. TypeInv'
  BY <1>1 DEF TypeInv, Known
<1>3. RequestsFine' /\ DownloadsFine'
  BY <1>1, NotObserved DEF IInv
<1>4. GuessesFine'
  <2> DEFINE until == watch.since + VerifyLockout
  <2>1. CASE clock < until /\ verify.lockedTil >= until
    <3>1. clock \in Int /\ verify.lockedTil \in Int /\ until \in Int /\ watch.count \in Int
      BY <1>1, Numbers DEF TypeInv, WatchState
    <3>2. ~ verify.lockedTil <= clock
      BY <2>1, <3>1
    <3>3. Flying' \in SUBSET Flying /\ Flying \in SUBSET Verifiers /\ Flying' \in SUBSET Verifiers
      BY <1>1, <3>2 DEF Flying
    <3>4. /\ Cardinality(Flying') <= Cardinality(Flying)
          /\ Cardinality(Flying) \in Nat /\ Cardinality(Flying') \in Nat
      BY <3>3, VerifiersFinite, FS_Subset
    <3>5. MaxGuesses \in Int /\ MaxGuesses' = MaxGuesses
      BY Numbers DEF MaxGuesses
    <3> QED
      BY <1>1, <2>1, <3>1, <3>4, <3>5 DEF IInv, GuessesFine
  <2>2. CASE ~ (clock < until /\ verify.lockedTil >= until)
    BY <1>1, <2>2 DEF IInv, GuessesFine, MaxGuesses
  <2> QED
    BY <2>1, <2>2
<1> QED
  BY <1>2, <1>3, <1>4 DEF IInv

\* Grants and right passwords stay.
LEMMA GrantKept ==
  ASSUME IInv, grant' = grant, right' \in {right, TRUE},
         \A p \in Verifiers : req'[p] \in {"right", "grant"} =>
           req[p] \in {"right", "grant"} \/ right'
  PROVE  GrantFine'
<1>1. GrantFine /\ right \in BOOLEAN
  BY DEF IInv, TypeInv
<1> QED
  BY <1>1 DEF GrantFine

\* The requests that only look.
LEMMA LookInvariant ==
  ASSUME IInv, NEW p,
         \/ p \in Verifiers /\ (VerifyAllowed(p) \/ ComparePassword(p) \/ issueAccessGrant(p))
         \/ p \in Downloaders /\ (DownloadRequest(p) \/ validateAccessGrant(p)
                                 \/ \E a \in Addresses : RefuseDownload(p, a))
  PROVE  IInv'
<1>1. /\ TypeInv /\ req \in [Verifiers \cup Downloaders -> States] /\ Verifiers \cap Downloaders = {}
      /\ clock \in Nat /\ verify.lockedTil \in Nat /\ grant \in Nat /\ right \in BOOLEAN
      /\ p \in Verifiers \cup Downloaders
  BY Numbers, GuardAssumption DEF IInv, TypeInv
<1>2. UNCHANGED <<clock, counters, watch, verify, dl>>
  BY DEF VerifyAllowed, ComparePassword, issueAccessGrant, DownloadRequest, validateAccessGrant,
         RefuseDownload
<1>3. ASSUME p \in Verifiers, VerifyAllowed(p)
      PROVE  IInv'
  <2>1. PICK s \in {"idle", "compare"} :
          req' = [req EXCEPT ![p] = s] /\ (s = "compare" => ~ clock < verify.lockedTil)
    BY <1>3 DEF VerifyAllowed, Go
  <2>2. grant' = grant /\ right' = right /\ s \in States
    BY <1>3 DEF VerifyAllowed, States
  <2>3. GrantFine'
    BY <1>1, <2>1, <2>2, GrantKept
  <2>4. s \in {"compare", "wrong"} => verify.lockedTil <= clock
    BY <1>1, <2>1
  <2>5. grant' \in Nat /\ right' \in BOOLEAN
    BY <1>1, <2>2
  <2> QED
    BY <1>1, <1>2, <2>1, <2>2, <2>3, <2>4, <2>5, QuietInvariant
<1>4. ASSUME p \in Verifiers, ComparePassword(p)
      PROVE  IInv'
  <2>1. PICK s \in {"idle", "wrong", "right"} :
          /\ req' = [req EXCEPT ![p] = s] /\ (s = "right" => right')
          /\ right' \in {right, TRUE}
    BY <1>4 DEF ComparePassword, Go
  <2>2. grant' = grant /\ req[p] = "compare" /\ s \in States
    BY <1>4 DEF ComparePassword, States
  <2>3. GrantFine'
    BY <1>1, <2>1, <2>2, GrantKept
  <2> QED
    BY <1>1, <1>2, <2>1, <2>2, <2>3, QuietInvariant
<1>5. ASSUME p \in Verifiers, issueAccessGrant(p)
      PROVE  IInv'
  <2>1. /\ req' = [req EXCEPT ![p] = "idle"] /\ req[p] = "grant" /\ right' = right
        /\ grant' = Min({clock + GrantTTL, Expires})
    BY <1>5 DEF issueAccessGrant, accessGrantExpiresAt, Go
  <2>2. grant' \in Nat /\ grant' <= Expires
    <3>1. clock + GrantTTL \in Nat /\ Expires \in Nat
      BY <1>1, Numbers
    <3>2. clock + GrantTTL \in Int /\ Expires \in Int
      BY <3>1
    <3>3. /\ Min({clock + GrantTTL, Expires}) \in {clock + GrantTTL, Expires}
          /\ Min({clock + GrantTTL, Expires}) <= Expires
      BY <3>2, MinOfTwo, Zenon
    <3> QED
      BY <2>1, <3>1, <3>3
  <2>3. right
    BY <1>5, <2>1 DEF IInv, GrantFine
  <2>4. GrantFine'
    BY <2>1, <2>2, <2>3 DEF GrantFine
  <2> QED
    BY <1>1, <1>2, <2>1, <2>2, <2>4, QuietInvariant DEF States
<1>6. ASSUME p \in Downloaders,
             \/ DownloadRequest(p) \/ validateAccessGrant(p)
             \/ \E a \in Addresses : RefuseDownload(p, a)
      PROVE  IInv'
  <2>1. PICK s \in {"idle", "validate", "download"} : req' = [req EXCEPT ![p] = s]
    BY <1>6 DEF DownloadRequest, validateAccessGrant, RefuseDownload, Go
  <2>2. grant' = grant /\ right' = right /\ p \notin Verifiers /\ s \in States
    BY <1>1, <1>6 DEF DownloadRequest, validateAccessGrant, RefuseDownload, States
  <2>3. GrantFine'
    BY <1>1, <2>1, <2>2, GrantKept
  <2> QED
    BY <1>1, <1>2, <2>1, <2>2, <2>3, QuietInvariant
<1> QED
  BY <1>3, <1>4, <1>5, <1>6

\* A request that passes the limiter.
LEMMA RequestInvariant ==
  ASSUME IInv, NEW p \in Verifiers, NEW c \in Clients, VerifyRequest(p, c)
  PROVE  IInv'
<1>1. /\ TypeInv /\ req \in [Verifiers \cup Downloaders -> States] /\ Verifiers \cap Downloaders = {}
  BY GuardAssumption DEF IInv, TypeInv
<1>2. /\ req[p] = "idle" /\ RateLimit(c) /\ req' = [req EXCEPT ![p] = "verify"]
      /\ clock' = clock /\ verify' = verify /\ dl' = dl /\ grant' = grant /\ right' = right
  BY DEF VerifyRequest, Go
<1>3. /\ Known' \subseteq Clients /\ IsFiniteSet(Known') /\ Cardinality(Known') <= MaxEntries
      /\ counters' \in [Known' -> Row] /\ RequestsFine'
      /\ watch' \in WatchState /\ watch'.since = watch.since /\ watch'.what = watch.what
      /\ watch'.of = watch.of
      /\ watch.what # "request" => watch'.count = watch.count
  BY <1>2, LimiterKeeps
<1>4. TypeInv'
  <2>1. req' \in [Verifiers \cup Downloaders -> States]
    BY <1>1, <1>2 DEF States
  <2> QED
    BY <1>1, <1>2, <1>3, <2>1 DEF TypeInv
<1>5. Flying' = Flying
  BY <1>1, <1>2 DEF Flying
<1>6. DownloadsFine' /\ GuessesFine'
  <2>1. watch.what \in {"guess", "download"} => watch'.count = watch.count
    BY <1>3
  <2> QED
    BY <1>2, <1>3, <1>5, <2>1 DEF IInv, DownloadsFine, GuessesFine, MaxGuesses
<1>7. GrantFine'
  BY <1>1, <1>2, GrantKept
<1> QED
  BY <1>3, <1>4, <1>6, <1>7 DEF IInv

\* A wrong password: the attempts are counted, and the guess observed.
LEMMA FailureInvariant ==
  ASSUME IInv, NEW p \in Verifiers, RegisterVerifyFailure(p)
  PROVE  IInv'
<1> DEFINE until == watch.since + VerifyLockout
           over == clock > verify.windowTil
           n == IF over THEN 1 ELSE verify.failures + 1
<1>1. /\ TypeInv /\ req \in [Verifiers \cup Downloaders -> States]
      /\ verify \in [failures : 0 .. VerifyMaxAttempts - 1, lockedTil : Nat, windowTil : Nat]
      /\ verify.failures \in 0 .. VerifyMaxAttempts - 1 /\ verify.lockedTil \in Nat
      /\ verify.windowTil \in Nat /\ clock \in Nat /\ watch \in WatchState /\ watch.since \in Nat
      /\ watch.since <= clock
  BY Numbers DEF IInv, TypeInv, WatchState
<1>2. /\ req[p] = "wrong" /\ req' = [req EXCEPT ![p] = "idle"]
      /\ verify' = IF Attempts.failures >= VerifyMaxAttempts THEN Locked ELSE Attempts
      /\ watch' = Observe("guess", Proxy, VerifyLockout)
      /\ UNCHANGED <<clock, counters, dl, grant, right>>
  BY DEF RegisterVerifyFailure, Go
<1>3. /\ watch' \in WatchState /\ watch'.what = watch.what /\ watch'.since = watch.since
      /\ watch'.of = watch.of
      /\ watch.what # "guess" \/ ~ clock < until => watch'.count = watch.count
      /\ watch'.count \in {watch.count, watch.count + 1}
      /\ watch.count \in Nat
  BY <1>1, <1>2, Observed, Numbers
<1>4. /\ verify' \in [failures : 0 .. VerifyMaxAttempts - 1, lockedTil : Nat, windowTil : Nat]
      /\ n >= VerifyMaxAttempts => /\ verify'.failures = 0
                                   /\ verify'.lockedTil = clock + VerifyLockout
      /\ n < VerifyMaxAttempts =>
           /\ verify'.failures = n /\ verify'.lockedTil = verify.lockedTil
           /\ verify'.windowTil = IF over THEN clock + VerifyLockout ELSE verify.windowTil
  <2>1. /\ Attempts.failures = n /\ Attempts.lockedTil = verify.lockedTil
        /\ Attempts.windowTil = IF over THEN clock + VerifyLockout ELSE verify.windowTil
        /\ n < VerifyMaxAttempts =>
             Attempts \in [failures : 0 .. VerifyMaxAttempts - 1, lockedTil : Nat, windowTil : Nat]
    <3>1. CASE over
      <4>1. Attempts = [verify EXCEPT !.failures = 1, !.windowTil = clock + VerifyLockout] /\ n = 1
        BY <3>1 DEF Attempts
      <4>2. clock + VerifyLockout \in Nat /\ (n < VerifyMaxAttempts => 1 \in 0 .. VerifyMaxAttempts - 1)
        BY <1>1, <4>1, Numbers
      <4>3. /\ Attempts.failures = 1 /\ Attempts.lockedTil = verify.lockedTil
            /\ Attempts.windowTil = clock + VerifyLockout
        BY <1>1, <4>1
      <4>4. n < VerifyMaxAttempts =>
              Attempts \in [failures : 0 .. VerifyMaxAttempts - 1, lockedTil : Nat, windowTil : Nat]
        BY <1>1, <4>1, <4>2
      <4> QED
        BY <3>1, <4>1, <4>3, <4>4
    <3>2. CASE ~ over
      <4>1. Attempts = [verify EXCEPT !.failures = @ + 1] /\ n = verify.failures + 1
        BY <3>2 DEF Attempts
      <4> QED
        BY <1>1, <3>2, <4>1, Numbers
    <3> QED
      BY <3>1, <3>2
  <2>2. /\ Locked.failures = 0 /\ Locked.lockedTil = clock + VerifyLockout
        /\ Locked \in [failures : 0 .. VerifyMaxAttempts - 1, lockedTil : Nat, windowTil : Nat]
    BY <1>1, Numbers DEF Locked
  <2>3. n \in Nat
    BY <1>1
  <2> HIDE DEF n
  <2> QED
    BY <1>2, <2>1, <2>2, <2>3, Numbers
<1>5. /\ Cardinality(Flying') = Cardinality(Flying) - 1
      /\ Cardinality(Flying) \in Nat /\ Cardinality(Flying) <= Cardinality(Verifiers)
      /\ Cardinality(Flying') \in Nat
  <2>1. /\ Flying' = Flying \ {p} /\ p \in Flying
        /\ Flying \in SUBSET Verifiers /\ Flying' \in SUBSET Verifiers
    BY <1>1, <1>2 DEF Flying
  <2> QED
    BY <2>1, VerifiersFinite, FS_RemoveElement
<1>6. TypeInv'
  <2>1. req' \in [Verifiers \cup Downloaders -> States]
    BY <1>1, <1>2 DEF States
  <2> QED
    BY <1>1, <1>2, <1>3, <1>4, <2>1 DEF TypeInv, Known
<1>7. RequestsFine' /\ DownloadsFine'
  <2>1. watch.what # "guess" => watch'.count = watch.count
    BY <1>3
  <2> QED
    BY <1>2, <1>3, <2>1, NotObserved DEF IInv, RequestsFine, DownloadsFine
<1>8. GuessesFine'
  <2>1. CASE watch.what # "guess"
    BY <1>3, <2>1 DEF GuessesFine
  <2>2. CASE watch.what = "guess" /\ ~ clock < until
    BY <1>2, <1>3, <2>2 DEF IInv, GuessesFine, MaxGuesses
  <2>3. CASE watch.what = "guess" /\ clock < until
    <3>1. GuessesFine /\ watch'.count <= watch.count + 1 /\ watch'.count \in Nat
      BY <1>3 DEF IInv
    <3>2. MaxGuesses' = MaxGuesses /\ MaxGuesses = 2 * VerifyMaxAttempts - 2 + Cardinality(Verifiers)
      BY DEF MaxGuesses
    <3>3. CASE verify.lockedTil >= until
      <4>1. watch.count + Cardinality(Flying) <= MaxGuesses
        BY <2>3, <3>1, <3>3 DEF GuessesFine
      <4>2. verify'.lockedTil >= until
        BY <1>1, <1>4, <3>3, Numbers
      <4>3. watch'.count + Cardinality(Flying') <= MaxGuesses /\ watch'.count <= MaxGuesses
        BY <1>3, <1>5, <3>1, <3>2, <4>1, Numbers
      <4> QED
        BY <1>2, <1>3, <3>2, <4>2, <4>3 DEF GuessesFine
    <3>4. CASE verify.lockedTil < until
      <4>1. IF over THEN watch.count < VerifyMaxAttempts
            ELSE /\ watch.count < VerifyMaxAttempts + verify.failures
                 /\ verify.windowTil < until => watch.count <= verify.failures
        BY <1>1, <2>3, <3>1, <3>4, Numbers DEF GuessesFine
      <4>2. watch'.count < VerifyMaxAttempts + n
        BY <1>1, <1>3, <3>1, <4>1, Numbers
      <4>3. CASE n >= VerifyMaxAttempts
        <5>1. n = VerifyMaxAttempts
          BY <1>1, <4>3, Numbers
        <5>2. watch'.count <= 2 * VerifyMaxAttempts - 1 /\ verify'.lockedTil >= until
          BY <1>1, <1>3, <1>4, <3>1, <4>2, <5>1, Numbers
        <5>3. watch'.count + Cardinality(Flying') <= MaxGuesses /\ watch'.count <= MaxGuesses
          BY <1>3, <1>5, <3>1, <3>2, <5>2, Numbers
        <5> QED
          BY <1>2, <1>3, <3>2, <5>2, <5>3 DEF GuessesFine
      <4>4. CASE n < VerifyMaxAttempts
        <5>1. /\ verify'.failures = n /\ verify'.lockedTil = verify.lockedTil
              /\ verify'.windowTil = IF over THEN clock + VerifyLockout ELSE verify.windowTil
          BY <1>4, <4>4
        <5>2. /\ verify'.windowTil < until => watch'.count <= n
              /\ watch'.count <= MaxGuesses /\ clock <= verify'.windowTil
          BY <1>1, <1>3, <3>1, <3>2, <4>1, <4>2, <4>4, <5>1, Numbers
        <5>3. ~ verify'.lockedTil >= until
          BY <1>1, <3>4, <5>1, Numbers
        <5> HIDE DEF n
        <5> QED
          BY <1>2, <1>3, <3>2, <4>2, <5>1, <5>2, <5>3 DEF GuessesFine
      <4> QED
        BY <1>1, <4>3, <4>4, Numbers
    <3> QED
      BY <1>1, <3>3, <3>4, Numbers
  <2> QED
    BY <2>1, <2>2, <2>3
<1>9. GrantFine'
  BY <1>1, <1>2, GrantKept
<1> QED
  BY <1>6, <1>7, <1>8, <1>9 DEF IInv

\* A right password: attempts and lock go, and who observed attempts stops.
LEMMA ResetInvariant ==
  ASSUME IInv, NEW p \in Verifiers, ResetVerify(p)
  PROVE  IInv'
<1>1. /\ TypeInv /\ req \in [Verifiers \cup Downloaders -> States]
  BY DEF IInv, TypeInv
<1>2. /\ req[p] = "right" /\ req' = [req EXCEPT ![p] = "grant"] /\ verify' = NoAttempts
      /\ watch' = IF watch.what = "guess" THEN Nothing ELSE watch
      /\ UNCHANGED <<clock, counters, dl, grant, right>>
  BY DEF ResetVerify, Go
<1>3. /\ watch' \in WatchState /\ watch'.since <= clock /\ watch'.what # "guess"
      /\ watch' = watch \/ watch'.what = "nothing"
  BY <1>1, <1>2, Numbers DEF TypeInv, WatchState, Nothing, Addresses
<1>4. TypeInv'
  <2>1. req' \in [Verifiers \cup Downloaders -> States]
    BY <1>1, <1>2 DEF States
  <2>2. NoAttempts \in [failures : 0 .. VerifyMaxAttempts - 1, lockedTil : Nat, windowTil : Nat]
    BY Numbers DEF NoAttempts
  <2> QED
    BY <1>1, <1>2, <1>3, <2>1, <2>2 DEF TypeInv, Known
<1>5. RequestsFine' /\ DownloadsFine' /\ GuessesFine'
  <2>1. CASE watch' = watch
    BY <1>2, <1>3, <2>1, NotObserved DEF IInv, GuessesFine
  <2>2. CASE watch' # watch
    BY <1>3, <2>2 DEF RequestsFine, DownloadsFine, GuessesFine
  <2> QED
    BY <2>1, <2>2
<1>6. GrantFine'
  BY <1>1, <1>2, GrantKept
<1> QED
  BY <1>4, <1>5, <1>6 DEF IInv

\* A client goes by the address of some client or of the proxy.
LEMMA Named ==
  ASSUME NEW c \in Clients
  PROVE  NamedBy(c) \subseteq Addresses
<1>1. ASSUME NEW own \in Begun
      PROVE  clientIP(c, own) \in Addresses /\ clientIP(Proxy, Append(own, c)) \in Addresses
  <2>1. c \in Addresses
    BY DEF Addresses
  <2>2. CASE own = <<>>
    <3>1. Append(own, c) # <<>> /\ Append(own, c)[1] = c
      BY <2>2
    <3> QED
      BY <2>1, <2>2, <3>1 DEF clientIP
  <2>3. ASSUME NEW a \in Addresses, own = <<a>>
        PROVE  clientIP(c, own) \in Addresses /\ clientIP(Proxy, Append(own, c)) \in Addresses
    <3>1. own # <<>> /\ own[1] = a /\ Append(own, c) # <<>> /\ Append(own, c)[1] = a
      BY <2>3
    <3> QED
      BY <3>1 DEF clientIP
  <2> QED
    BY <2>2, <2>3 DEF Begun
<1> QED
  BY <1>1 DEF NamedBy

\* A download URL: the window of the address counts it, and the observer of the address.
LEMMA DownloadInvariant ==
  ASSUME IInv, NEW p \in Downloaders, NEW a \in Addresses, AllowDownload(p, a)
  PROVE  IInv'
<1> DEFINE until == watch.since + DownloadWindow
           over == clock > dl[a].windowTil
           n == IF over THEN 1 ELSE dl[a].count + 1
<1>1. /\ TypeInv /\ req \in [Verifiers \cup Downloaders -> States] /\ p \notin Verifiers
      /\ dl \in [Addresses -> DlWindow] /\ dl[a] \in DlWindow
      /\ dl[a].count \in 0 .. DownloadLimit /\ dl[a].windowTil \in Nat
      /\ clock \in Nat /\ watch \in WatchState /\ watch.since \in Nat /\ watch.since <= clock
      /\ \A b \in Addresses : dl[b].count = 0 => dl[b].windowTil = 0
  BY Numbers, GuardAssumption DEF IInv, TypeInv, WatchState, DlWindow
<1>2. /\ req[p] = "download" /\ req' = [req EXCEPT ![p] = "idle"]
      /\ \/ over /\ dl' = [dl EXCEPT ![a] = NewDownloadWindow]
         \/ ~ over /\ dl[a].count < DownloadLimit /\ dl' = [dl EXCEPT ![a].count = @ + 1]
      /\ watch' = Observe("download", a, DownloadWindow)
      /\ UNCHANGED <<clock, counters, verify, grant, right>>
  BY <1>1 DEF AllowDownload, Go
<1>3. /\ watch' \in WatchState /\ watch'.what = watch.what /\ watch'.since = watch.since
      /\ watch'.of = watch.of
      /\ watch'.count = IF watch.what = "download" /\ watch.of = a /\ clock < until
                        THEN watch.count + 1 ELSE watch.count
      /\ watch.count \in Nat
  BY <1>1, <1>2, Observed, Numbers
<1>4. /\ dl' \in [Addresses -> DlWindow]
      /\ \A b \in Addresses \ {a} : dl'[b] = dl[b]
      /\ dl'[a].count = n /\ n \in 1 .. DownloadLimit
      /\ dl'[a].windowTil = IF over THEN clock + DownloadWindow ELSE dl[a].windowTil
  <2>1. PICK row : row = IF over THEN NewDownloadWindow ELSE [dl[a] EXCEPT !.count = @ + 1]
    OBVIOUS
  <2>2. /\ row \in DlWindow /\ row.count = n /\ n \in 1 .. DownloadLimit
        /\ row.windowTil = IF over THEN clock + DownloadWindow ELSE dl[a].windowTil
    BY <1>1, <1>2, <2>1, Numbers DEF NewDownloadWindow, DlWindow
  <2>3. dl' = [dl EXCEPT ![a] = row]
    BY <1>1, <1>2, <2>1
  <2> HIDE DEF n
  <2> QED
    BY <1>1, <2>2, <2>3
<1>5. TypeInv'
  <2>1. req' \in [Verifiers \cup Downloaders -> States]
    BY <1>1, <1>2 DEF States
  <2>2. \A b \in Addresses : dl'[b].count = 0 => dl'[b].windowTil = 0
    BY <1>1, <1>4
  <2> QED
    BY <1>1, <1>2, <1>3, <1>4, <2>1, <2>2 DEF TypeInv, Known
<1>6. RequestsFine' /\ GuessesFine'
  <2>1. watch.what # "download" => watch'.count = watch.count
    BY <1>3
  <2>2. Flying' = Flying
    BY <1>1, <1>2 DEF Flying
  <2> QED
    BY <1>2, <1>3, <2>1, <2>2, NotObserved DEF IInv, RequestsFine, GuessesFine, MaxGuesses
<1>7. DownloadsFine'
  <2>1. CASE watch.what # "download"
    BY <1>3, <2>1 DEF DownloadsFine
  <2>2. CASE watch.what = "download" /\ ~ clock < until
    BY <1>2, <1>3, <2>2 DEF IInv, DownloadsFine
  <2>3. CASE watch.what = "download" /\ watch.of # a
    <3>1. watch'.count = watch.count /\ dl'[watch.of] = dl[watch.of]
      BY <1>1, <1>3, <1>4, <2>3 DEF WatchState
    <3> QED
      BY <1>2, <1>3, <3>1 DEF IInv, DownloadsFine
  <2>4. CASE watch.what = "download" /\ watch.of = a /\ clock < until
    <3>1. watch'.count = watch.count + 1
      BY <1>3, <2>4
    <3>2. IF over THEN watch.count < DownloadLimit
          ELSE /\ watch.count < DownloadLimit + dl[a].count
               /\ dl[a].windowTil < until => watch.count < dl[a].count
      BY <1>1, <2>4, Numbers DEF IInv, DownloadsFine
    <3>3. /\ watch'.count < DownloadLimit + n /\ watch'.count < 2 * DownloadLimit
          /\ dl'[a].windowTil < until => watch'.count < n
      BY <1>1, <1>3, <1>4, <3>1, <3>2, Numbers
    <3>4. clock <= dl'[a].windowTil
      BY <1>1, <1>4, Numbers
    <3> HIDE DEF n
    <3> QED
      BY <1>2, <1>3, <1>4, <2>4, <3>3, <3>4 DEF DownloadsFine
  <2> QED
    BY <2>1, <2>2, <2>3, <2>4
<1>8. GrantFine'
  BY <1>1, <1>2, GrantKept
<1> QED
  BY <1>5, <1>6, <1>7, <1>8 DEF IInv

----------------------------------------------------------------------------
(* The environment. *)

\* A window that ends while the observer looks began before it: it was not all observed.
LEMMA TickInvariant ==
  ASSUME IInv, Tick
  PROVE  IInv'
<1>1. /\ TypeInv /\ clock \in Nat /\ watch.since \in Nat /\ watch.count \in Nat
      /\ watch.since <= clock
  BY Numbers DEF IInv, TypeInv, WatchState
<1>2. /\ clock < MaxClock /\ clock' = clock + 1
      /\ counters' = counters /\ watch' = watch /\ verify' = verify /\ dl' = dl /\ grant' = grant
      /\ right' = right /\ req' = req
  BY DEF Tick
<1>3. TypeInv'
  <2>1. clock' \in 1 .. MaxClock /\ watch.since <= clock'
    BY <1>1, <1>2, Numbers DEF TypeInv
  <2> QED
    BY <1>1, <1>2, <2>1 DEF TypeInv, Known
<1>4. RequestsFine'
  <2>0. watch.what = "request" => watch.of \in Clients
    BY <1>1 DEF TypeInv
  <2> SUFFICES ASSUME watch.what = "request", NEW k \in Clients, watch.of = k
               PROVE  /\ watch.count < 2 * Limit
                      /\ clock' < watch.since + Window =>
                           IF Live(k)'
                             THEN /\ watch.count < Limit + counters[k].count
                                  /\ counters[k].end < watch.since + Window =>
                                       watch.count < counters[k].count
                             ELSE watch.count < Limit
    BY <1>2, <2>0 DEF RequestsFine
  <2>1. RequestsFine
    BY DEF IInv
  <2>2. watch.count < 2 * Limit
    BY <2>1 DEF RequestsFine
  <2>3. ASSUME clock' < watch.since + Window
        PROVE  IF Live(k)'
                 THEN /\ watch.count < Limit + counters[k].count
                      /\ counters[k].end < watch.since + Window => watch.count < counters[k].count
                 ELSE watch.count < Limit
    <3>1. clock < watch.since + Window
      BY <1>1, <1>2, <2>3, Numbers
    <3>2. CASE Live(k)
      <4>1. /\ watch.count < Limit + counters[k].count
            /\ counters[k].end < watch.since + Window => watch.count < counters[k].count
        BY <2>1, <3>1, <3>2 DEF RequestsFine
      <4>2. counters[k].count \in 1 .. Limit /\ counters[k].end \in Nat /\ k \in Known
        BY <1>1, <3>2 DEF Live, TypeInv, Row
      <4>3. ~ Live(k)' => counters[k].end <= clock'
        BY <1>1, <1>2, <4>2, Numbers DEF Live, Known
      <4>4. ~ Live(k)' => watch.count < Limit
        BY <1>1, <1>2, <2>3, <4>1, <4>2, <4>3, Numbers
      <4> QED
        BY <4>1, <4>4
    <3>3. CASE ~ Live(k)
      <4>1. watch.count < Limit
        BY <2>1, <3>1, <3>3 DEF RequestsFine
      <4>2. k \in Known => counters[k].end \in Nat
        BY <1>1 DEF TypeInv, Row
      <4>3. ~ Live(k)'
        BY <1>1, <1>2, <3>3, <4>2 DEF Live, Known
      <4> QED
        BY <4>1, <4>3
    <3> QED
      BY <3>2, <3>3
  <2> QED
    BY <2>2, <2>3
<1>5. DownloadsFine'
  <2> DEFINE window == dl[watch.of]
  <2>1. window.count \in 0 .. DownloadLimit /\ window.windowTil \in Nat /\ DownloadsFine
    BY DEF IInv, TypeInv, WatchState, DlWindow
  <2> SUFFICES ASSUME watch.what = "download", clock' < watch.since + DownloadWindow
               PROVE  IF clock' <= window.windowTil
                        THEN /\ watch.count < DownloadLimit + window.count
                             /\ window.windowTil < watch.since + DownloadWindow =>
                                  watch.count < window.count
                        ELSE watch.count < DownloadLimit
    BY <1>2, <2>1 DEF DownloadsFine
  <2>2. IF clock <= window.windowTil
          THEN /\ watch.count < DownloadLimit + window.count
               /\ window.windowTil < watch.since + DownloadWindow => watch.count < window.count
          ELSE watch.count < DownloadLimit
    BY <1>1, <1>2, <2>1, Numbers DEF DownloadsFine
  <2> HIDE DEF window
  <2> QED
    BY <1>1, <1>2, <2>1, <2>2, Numbers
<1>6. GuessesFine'
  <2>1. /\ verify.failures \in 0 .. VerifyMaxAttempts - 1 /\ verify.windowTil \in Nat
        /\ verify.lockedTil \in Nat /\ GuessesFine
    BY DEF IInv, TypeInv
  <2>2. Flying' = Flying
    BY <1>2 DEF Flying
  <2> DEFINE until == watch.since + VerifyLockout
  <2>3. CASE ~ (watch.what = "guess" /\ clock' < until)
    BY <1>2, <2>1, <2>3 DEF GuessesFine, MaxGuesses
  <2>4. CASE watch.what = "guess" /\ clock' < until /\ verify.lockedTil >= until
    <3>1. clock < until
      BY <1>1, <1>2, <2>4, Numbers
    <3> QED
      BY <1>2, <2>1, <2>2, <2>4, <3>1 DEF GuessesFine, MaxGuesses
  <2>5. CASE watch.what = "guess" /\ clock' < until /\ ~ verify.lockedTil >= until
    <3>1. clock < until
      BY <1>1, <1>2, <2>5, Numbers
    <3>2. IF clock <= verify.windowTil
            THEN /\ watch.count < VerifyMaxAttempts + verify.failures
                 /\ verify.windowTil < until => watch.count <= verify.failures
            ELSE watch.count < VerifyMaxAttempts
      BY <2>1, <2>5, <3>1 DEF GuessesFine
    <3>3. IF clock' <= verify.windowTil
            THEN /\ watch.count < VerifyMaxAttempts + verify.failures
                 /\ verify.windowTil < until => watch.count <= verify.failures
            ELSE watch.count < VerifyMaxAttempts
      BY <1>1, <1>2, <2>1, <2>5, <3>2, Numbers
    <3>4. watch.count <= MaxGuesses
      BY <2>1, <2>5 DEF GuessesFine
    <3> QED
      BY <1>2, <2>5, <3>3, <3>4 DEF GuessesFine, MaxGuesses
  <2> QED
    BY <2>3, <2>4, <2>5
<1>7. GrantFine'
  BY <1>2, GrantKept
<1> QED
  BY <1>3, <1>4, <1>5, <1>6, <1>7 DEF IInv

\* A restart empties the tables; the observer stops.
LEMMA RestartInvariant ==
  ASSUME IInv, Restart
  PROVE  IInv'
<1>1. /\ TypeInv /\ req \in [Verifiers \cup Downloaders -> States]
  BY DEF IInv, TypeInv
<1>2. /\ counters' = <<>> /\ verify' = NoAttempts /\ watch' = Nothing
      /\ dl' = [a \in Addresses |-> NoWindow]
      /\ req' = [p \in Verifiers \cup Downloaders |-> "idle"]
      /\ clock' = clock /\ grant' = grant /\ right' = right
  BY <1>1 DEF Restart
<1>3. /\ Known' = {} /\ counters' \in [Known' -> Row]
      /\ IsFiniteSet(Known') /\ Cardinality(Known') <= MaxEntries
  <2>1. DOMAIN counters' = {} /\ counters' = [i \in {} |-> 0]
    BY <1>2
  <2>2. IsFiniteSet({}) /\ Cardinality({}) = 0
    BY FS_EmptySet
  <2> QED
    BY <2>1, <2>2, Numbers DEF Known
<1>4. /\ watch'.what = "nothing" /\ watch' \in WatchState /\ watch'.since = 0
  BY <1>2 DEF Nothing, WatchState, Addresses
<1>5. TypeInv'
  <2>1. req' \in [Verifiers \cup Downloaders -> States]
    BY <1>2 DEF States
  <2>2. NoAttempts \in [failures : 0 .. VerifyMaxAttempts - 1, lockedTil : Nat, windowTil : Nat]
    BY Numbers DEF NoAttempts
  <2>3. NoWindow \in DlWindow /\ NoWindow.windowTil = 0
    BY Numbers DEF NoWindow, DlWindow
  <2>4. watch'.since <= clock'
    BY <1>1, <1>2, <1>4, Numbers DEF TypeInv
  <2> QED
    BY <1>1, <1>2, <1>3, <1>4, <2>1, <2>2, <2>3, <2>4 DEF TypeInv
<1>6. RequestsFine' /\ DownloadsFine' /\ GuessesFine'
  BY <1>4 DEF RequestsFine, DownloadsFine, GuessesFine
<1>7. GrantFine'
  BY <1>2, GrantKept
<1> QED
  BY <1>5, <1>6, <1>7 DEF IInv

\* The observer begins.
LEMMA WatchInvariant ==
  ASSUME IInv, NEW what \in {"request", "guess", "download"}, NEW of \in Addresses,
         Watch(what, of), what = "request" => of \in Clients
  PROVE  IInv'
<1>1. TypeInv /\ clock \in Nat
  BY Numbers DEF IInv, TypeInv
<1>2. /\ watch' = [what |-> what, of |-> of, since |-> clock, count |-> 0]
      /\ clock' = clock /\ counters' = counters /\ verify' = verify /\ dl' = dl /\ grant' = grant
      /\ right' = right /\ req' = req
  BY DEF Watch, guard
<1>3. /\ watch'.what = what /\ watch'.of = of /\ watch'.since = clock /\ watch'.count = 0
      /\ watch' \in WatchState
  BY <1>1, <1>2 DEF WatchState
<1>4. TypeInv'
  BY <1>1, <1>2, <1>3 DEF TypeInv, Known
<1>5. RequestsFine'
  <2> SUFFICES ASSUME what = "request"
               PROVE  /\ 0 < 2 * Limit
                      /\ IF Live(of) THEN 0 < Limit + counters[of].count /\ 0 < counters[of].count
                         ELSE 0 < Limit
    BY <1>2, <1>3 DEF RequestsFine, Live, Known
  <2>1. Live(of) => counters[of].count \in 1 .. Limit
    BY <1>1 DEF Live, TypeInv, Row
  <2> QED
    BY <2>1, Numbers
<1>6. DownloadsFine'
  <2>1. clock <= dl[of].windowTil => dl[of].count > 0
    BY <1>1, Numbers DEF TypeInv, DlWindow
  <2>2. /\ dl[of].count \in Nat /\ 0 < 2 * DownloadLimit /\ 0 < DownloadLimit + dl[of].count
        /\ 0 < DownloadLimit
    BY <1>1, Numbers DEF TypeInv, DlWindow
  <2> QED
    BY <1>2, <1>3, <2>1, <2>2 DEF DownloadsFine
<1>7. GuessesFine'
  <2>1. verify.failures \in Nat /\ 0 <= verify.failures /\ 0 < VerifyMaxAttempts + verify.failures
        /\ 0 < VerifyMaxAttempts
    BY <1>1, Numbers DEF TypeInv
  <2>2. 0 <= MaxGuesses /\ Cardinality(Flying) <= MaxGuesses /\ Cardinality(Flying) \in Nat
    <3>1. Flying \in SUBSET Verifiers
      BY DEF Flying
    <3> QED
      BY <3>1, VerifiersFinite, Numbers DEF MaxGuesses
  <2>3. Flying' = Flying /\ MaxGuesses' = MaxGuesses /\ 0 + Cardinality(Flying) <= MaxGuesses
    BY <1>2, <2>2 DEF Flying, MaxGuesses
  <2> QED
    BY <1>2, <1>3, <2>1, <2>2, <2>3 DEF GuessesFine
<1>8. GrantFine'
  BY <1>2, GrantKept
<1> QED
  BY <1>4, <1>5, <1>6, <1>7, <1>8 DEF IInv

----------------------------------------------------------------------------
(* The invariant. *)

LEMMA InitInvariant == Init => IInv
<1> SUFFICES ASSUME Init PROVE IInv
  OBVIOUS
<1>1. /\ clock = 1 /\ counters = <<>> /\ watch = Nothing
      /\ verify = NoAttempts /\ dl = [a \in Addresses |-> NoWindow] /\ grant = 0 /\ right = FALSE
      /\ req = [p \in Verifiers \cup Downloaders |-> "idle"]
  BY DEF Init, LimiterInit
<1>2. watch.what = "nothing" /\ watch \in WatchState /\ watch.since = 0
  BY <1>1 DEF Nothing, WatchState, Addresses
<1>3. /\ Known = {} /\ counters \in [Known -> Row]
      /\ IsFiniteSet(Known) /\ Cardinality(Known) <= MaxEntries
  <2>1. DOMAIN counters = {} /\ counters = [i \in {} |-> 0]
    BY <1>1
  <2>2. IsFiniteSet({}) /\ Cardinality({}) = 0
    BY FS_EmptySet
  <2> QED
    BY <2>1, <2>2, Numbers DEF Known
<1>4. TypeInv
  <2>1. NoAttempts \in [failures : 0 .. VerifyMaxAttempts - 1, lockedTil : Nat, windowTil : Nat]
    BY Numbers DEF NoAttempts
  <2>2. NoWindow \in DlWindow /\ NoWindow.windowTil = 0
    BY Numbers DEF NoWindow, DlWindow
  <2>3. clock \in 1 .. MaxClock /\ watch.since <= clock
    BY <1>1, <1>2, Numbers
  <2>4. req \in [Verifiers \cup Downloaders -> States]
    BY <1>1 DEF States
  <2> QED
    BY <1>1, <1>2, <1>3, <2>1, <2>2, <2>3, <2>4 DEF TypeInv
<1>5. RequestsFine /\ DownloadsFine /\ GuessesFine
  BY <1>2 DEF RequestsFine, DownloadsFine, GuessesFine
<1>6. GrantFine
  BY <1>1, Numbers DEF GrantFine
<1> QED
  BY <1>4, <1>5, <1>6 DEF IInv

LEMMA StepInvariant == IInv /\ [Next]_vars => IInv'
<1> SUFFICES ASSUME IInv, [Next]_vars PROVE IInv'
  OBVIOUS
<1>1. ASSUME NEW p \in Verifiers, VerifyStep(p)
      PROVE  IInv'
  BY <1>1, RequestInvariant, LookInvariant, FailureInvariant, ResetInvariant DEF VerifyStep
<1>2. ASSUME NEW p \in Downloaders, DownloadStep(p)
      PROVE  IInv'
  <2>1. CASE \E c \in Clients : \E a \in NamedBy(c) : AllowDownload(p, a) \/ RefuseDownload(p, a)
    BY <2>1, Named, LookInvariant, DownloadInvariant
  <2> QED
    BY <1>2, <2>1, LookInvariant DEF DownloadStep
<1>3. CASE Tick \/ Restart
  BY <1>3, TickInvariant, RestartInvariant
<1>4. CASE \/ Watch("guess", Proxy)
           \/ \E c \in Clients : Watch("request", c)
           \/ \E a \in Addresses : Watch("download", a)
  BY <1>4, WatchInvariant DEF Addresses
<1>5. CASE UNCHANGED vars
  <2>1. TypeInv'
    BY <1>5 DEF IInv, TypeInv, vars, Known
  <2>2. RequestsFine' /\ DownloadsFine' /\ GuessesFine'
    BY <1>5, NotObserved DEF IInv, vars
  <2>3. GrantFine'
    BY <1>5, GrantKept DEF vars
  <2> QED
    BY <2>1, <2>2, <2>3 DEF IInv
<1> QED
  BY <1>1, <1>2, <1>3, <1>4, <1>5 DEF Next

\* The inductive invariant holds in every reachable state.
THEOREM Invariance == Spec => []IInv
BY InitInvariant, StepInvariant, PTL DEF Spec

----------------------------------------------------------------------------
(* The properties. *)

\* Types, and the bound of the limiter's table.
THEOREM TypeCorrect == Spec => []TypeOK
<1>1. IInv => TypeOK
  BY Numbers DEF IInv, TypeInv, TypeOK, Row, States, Addresses, DlWindow
<1> QED
  BY Invariance, <1>1, PTL

\* No client gets two full windows' requests through in a window's length, however small the
\* table is and whatever the client writes into the header.
THEOREM RequestsLimited == Spec => []RequestsBounded
<1>1. IInv => RequestsBounded
  BY DEF IInv, RequestsFine, RequestsBounded
<1> QED
  BY Invariance, <1>1, PTL

\* The wrong passwords in any time of a lockout's length are those of two windows, less one
\* each, and those that were under way: comparing outside the mutex adds no more than that.
THEOREM GuessesLimited == Spec => []GuessesBounded
<1>1. IInv => GuessesBounded
  BY DEF IInv, GuessesFine, GuessesBounded, MaxGuesses
<1> QED
  BY Invariance, <1>1, PTL

\* Download URLs in any time of a window's length, to whoever goes by one address, are fewer
\* than two windows'.
THEOREM DownloadsLimited == Spec => []DownloadsBounded
<1>1. IInv => DownloadsBounded
  BY DEF IInv, DownloadsFine, DownloadsBounded
<1> QED
  BY Invariance, <1>1, PTL

\* The password gate opens for a grant only before the access ends and after a right password.
THEOREM GrantsEnd == Spec => GrantWithinAccess
<1>1. ASSUME IInv, [Next]_vars, NEW p \in Downloaders, req[p] = "validate", req'[p] = "download"
      PROVE  clock < Expires /\ right
  <2>1. /\ req \in [Verifiers \cup Downloaders -> States] /\ Verifiers \cap Downloaders = {}
        /\ clock \in Nat /\ grant \in Nat
    BY <1>1, Numbers, GuardAssumption DEF IInv, TypeInv
  <2>2. ASSUME NEW q \in Verifiers, VerifyStep(q)
        PROVE  FALSE
    <3>1. q # p /\ \E s \in States : req' = [req EXCEPT ![q] = s]
      BY <2>1, <2>2 DEF VerifyStep, VerifyRequest, VerifyAllowed, ComparePassword,
                        RegisterVerifyFailure, ResetVerify, issueAccessGrant, Go, States
    <3> QED
      BY <1>1, <2>1, <3>1
  <2>3. ASSUME NEW q \in Downloaders, DownloadStep(q)
        PROVE  validateAccessGrant(p)
    BY <1>1, <2>1, <2>3 DEF DownloadStep, DownloadRequest, validateAccessGrant, AllowDownload,
                            RefuseDownload, Go
  <2>4. ~ Tick /\ ~ Restart /\ ~ UNCHANGED vars /\ \A what, of : ~ Watch(what, of)
    BY <1>1, <2>1 DEF Tick, Restart, vars, Watch, guard
  <2>5. validateAccessGrant(p)
    BY <1>1, <2>2, <2>3, <2>4 DEF Next
  <2>6. grant > clock
    BY <1>1, <2>1, <2>5 DEF validateAccessGrant, Go
  <2> QED
    BY <1>1, <2>1, <2>6, Numbers DEF IInv, GrantFine
<1>2. IInv /\ [Next]_vars =>
        [\A p \in Downloaders : req[p] = "validate" /\ req'[p] = "download" =>
           clock < Expires /\ right]_vars
  BY <1>1
<1> QED
  BY Invariance, <1>2, PTL DEF Spec, GrantWithinAccess
================================================================================
