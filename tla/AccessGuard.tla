----------------------------- MODULE AccessGuard -----------------------------
(***************************************************************************)
(* The password of a shipment: the limit of attempts, the grant of a right *)
(* password and the limit of download URLs, behind the request limiter.    *)
(*                                                                         *)
(* The guard is a table in the memory of the API with a mutex: each call   *)
(* is a step.  Between the calls a request reads rows and computes a hash, *)
(* and time passes.  A grant is signed and kept by the browser; it is not  *)
(* in the memory and survives a restart.                                   *)
(*                                                                         *)
(* Abstracted: one token, of one shipment, with one time at which both     *)
(* end; the signature; what else a download does (module ShipmentAccess),  *)
(* and the limiter in front of it, whose keys are those of another         *)
(* endpoint.                                                               *)
(***************************************************************************)
EXTENDS RateLimiter

CONSTANTS
  Verifiers,           \* POST /v1/access/{token}/verify at the same time
  Downloaders,         \* POST /v1/files/{id}/download-url at the same time
  VerifyMaxAttempts,
  VerifyLockout,
  DownloadLimit,
  DownloadWindow,
  GrantTTL,
  Expires              \* when the token and the shipment end

ASSUME GuardAssumption ==
  /\ IsFiniteSet(Verifiers) /\ Verifiers \cap Downloaders = {}
  /\ {VerifyMaxAttempts, VerifyLockout, DownloadLimit, DownloadWindow, GrantTTL, Expires}
       \subseteq Nat \ {0}

VARIABLES
  verify,     \* the attempts; 0 is the zero time, before the clock starts
  dl,         \* the download window of each address; NoWindow: not in the table
  grant,      \* end of the newest grant in the browser; 0: none
  right,      \* history: a right password was compared
  req         \* where every request is

guard == <<verify, dl, grant, right, req>>
vars  == <<clock, counters, watch, verify, dl, grant, right, req>>

NoAttempts == [failures |-> 0, lockedTil |-> 0, windowTil |-> 0]
NoWindow   == [count |-> 0, windowTil |-> 0]

Init ==
  /\ LimiterInit
  /\ verify = NoAttempts /\ dl = [a \in Addresses |-> NoWindow] /\ grant = 0 /\ right = FALSE
  /\ req = [p \in Verifiers \cup Downloaders |-> "idle"]

Go(p, pc) == req' = [req EXCEPT ![p] = pc]

----------------------------------------------------------------------------
(* VerifyAccess. *)

VerifyRequest(p, c) ==
  /\ p \in Verifiers /\ req[p] = "idle"
  /\ RateLimit(c) /\ Go(p, "verify")
  /\ UNCHANGED <<clock, verify, dl, grant, right>>

VerifyAllowed(p) ==
  /\ req[p] = "verify"
  /\ Go(p, IF clock < verify.lockedTil THEN "idle" ELSE "compare")
  /\ UNCHANGED <<clock, counters, watch, verify, dl, grant, right>>

resolveAccessState == clock <= Expires

\* A blank password is a wrong one.
ComparePassword(p) ==
  /\ req[p] = "compare"
  /\ IF resolveAccessState
       THEN \/ Go(p, "wrong") /\ UNCHANGED right
            \/ Go(p, "right") /\ right' = TRUE
       ELSE Go(p, "idle") /\ UNCHANGED right
  /\ UNCHANGED <<clock, counters, watch, verify, dl, grant>>

\* The attempts of a window that is over do not count any more.
Attempts ==
  IF clock > verify.windowTil
    THEN [verify EXCEPT !.failures = 1, !.windowTil = clock + VerifyLockout]
    ELSE [verify EXCEPT !.failures = @ + 1]

Locked == [failures |-> 0, lockedTil |-> clock + VerifyLockout, windowTil |-> clock + VerifyLockout]

\* One attempt too late.
RegisterLate(p) ==
  /\ req[p] = "wrong"
  /\ verify' = IF Attempts.failures > VerifyMaxAttempts THEN Locked ELSE Attempts
  /\ watch' = Observe("guess", Proxy, VerifyLockout)
  /\ Go(p, "idle")
  /\ UNCHANGED <<clock, counters, dl, grant, right>>

RegisterVerifyFailure(p) ==
  /\ req[p] = "wrong"
  /\ verify' = IF Attempts.failures >= VerifyMaxAttempts THEN Locked ELSE Attempts
  /\ watch' = Observe("guess", Proxy, VerifyLockout)
  /\ Go(p, "idle")
  /\ UNCHANGED <<clock, counters, dl, grant, right>>

\* A lock goes, too. The observer of attempts stops.
ResetVerify(p) ==
  /\ req[p] = "right"
  /\ verify' = NoAttempts
  /\ watch' = IF watch.what = "guess" THEN Nothing ELSE watch
  /\ Go(p, "grant")
  /\ UNCHANGED <<clock, counters, dl, grant, right>>

\* The end of the token is not looked at.
grantExpiresLate == clock + GrantTTL

accessGrantExpiresAt == Min({clock + GrantTTL, Expires})

issueAccessGrant(p) ==
  /\ req[p] = "grant"
  /\ grant' = accessGrantExpiresAt
  /\ Go(p, "idle")
  /\ UNCHANGED <<clock, counters, watch, verify, dl, right>>

----------------------------------------------------------------------------
(* The password and the window in GenerateDownloadURL. *)

DownloadRequest(p) ==
  /\ p \in Downloaders /\ req[p] = "idle" /\ resolveAccessState
  /\ Go(p, "validate")
  /\ UNCHANGED <<clock, counters, watch, verify, dl, grant, right>>

validateAccessGrant(p) ==
  /\ req[p] = "validate"
  /\ Go(p, IF grant > clock THEN "download" ELSE "idle")
  /\ UNCHANGED <<clock, counters, watch, verify, dl, grant, right>>

\* The address of the handlers, not the limiter's: whoever asks, the header is believed.
clientIP(peer, forwarded) == IF forwarded # <<>> THEN forwarded[1] ELSE peer

\* The addresses a request of client c may go by: its own only if it begins no header.
NamedBy(c) ==
  {clientIP(c, own) : own \in Begun} \cup {clientIP(Proxy, Append(own, c)) : own \in Begun}

NewDownloadWindow == [count |-> 1, windowTil |-> clock + DownloadWindow]

\* The count of the old window is forgotten when it is full.
AllowAfterFull(p, a) ==
  /\ req[p] = "download"
  /\ dl' = [dl EXCEPT ![a] = IF clock > dl[a].windowTil \/ dl[a].count >= DownloadLimit
                               THEN NewDownloadWindow ELSE [dl[a] EXCEPT !.count = @ + 1]]
  /\ watch' = Observe("download", a, DownloadWindow)
  /\ Go(p, "idle")
  /\ UNCHANGED <<clock, counters, verify, grant, right>>

AllowDownload(p, a) ==
  /\ req[p] = "download"
  /\ \/ clock > dl[a].windowTil /\ dl' = [dl EXCEPT ![a] = NewDownloadWindow]
     \/ /\ clock <= dl[a].windowTil /\ dl[a].count < DownloadLimit
        /\ dl' = [dl EXCEPT ![a].count = @ + 1]
  /\ watch' = Observe("download", a, DownloadWindow)
  /\ Go(p, "idle")
  /\ UNCHANGED <<clock, counters, verify, grant, right>>

RefuseDownload(p, a) ==
  /\ req[p] = "download" /\ clock <= dl[a].windowTil /\ dl[a].count >= DownloadLimit
  /\ Go(p, "idle")
  /\ UNCHANGED <<clock, counters, watch, verify, dl, grant, right>>

----------------------------------------------------------------------------
(* The environment. *)

Tick ==
  /\ clock < MaxClock /\ clock' = clock + 1
  /\ UNCHANGED <<counters, watch, verify, dl, grant, right, req>>

\* The API starts again: the tables are empty.
Restart ==
  /\ counters' = <<>> /\ verify' = NoAttempts /\ watch' = Nothing
  /\ dl' = [a \in Addresses |-> NoWindow]
  /\ req' = [p \in DOMAIN req |-> "idle"]
  /\ UNCHANGED <<clock, grant, right>>

Watch(what, of) ==
  /\ watch = Nothing
  /\ watch' = [what |-> what, of |-> of, since |-> clock, count |-> 0]
  /\ UNCHANGED <<clock, counters, guard>>

VerifyStep(p) ==
  \/ \E c \in Clients : VerifyRequest(p, c)
  \/ VerifyAllowed(p) \/ ComparePassword(p) \/ RegisterVerifyFailure(p) \/ ResetVerify(p)
  \/ issueAccessGrant(p)

DownloadStep(p) ==
  \/ DownloadRequest(p) \/ validateAccessGrant(p)
  \/ \E c \in Clients : \E a \in NamedBy(c) : AllowDownload(p, a) \/ RefuseDownload(p, a)

Next ==
  \/ \E p \in Verifiers : VerifyStep(p)
  \/ \E p \in Downloaders : DownloadStep(p)
  \/ Tick \/ Restart
  \/ Watch("guess", Proxy)
  \/ \E c \in Clients : Watch("request", c)
  \/ \E a \in Addresses : Watch("download", a)

Spec == Init /\ [][Next]_vars

----------------------------------------------------------------------------
(* Properties *)

\* Tables and times keep their types, and the table of the limiter its bound.
TypeOK ==
  /\ clock \in 1 .. MaxClock
  /\ Known \subseteq Addresses /\ Cardinality(Known) <= MaxEntries
  /\ \A k \in Known : counters[k].count \in 1 .. Limit /\ counters[k].end \in Nat
  /\ verify.failures \in Nat
  /\ verify.lockedTil \in Nat /\ verify.windowTil \in Nat
  /\ \A a \in Addresses : dl[a].count \in 0 .. DownloadLimit /\ dl[a].windowTil \in Nat
  /\ grant \in Nat /\ right \in BOOLEAN
  /\ req \in [Verifiers \cup Downloaders ->
       {"idle", "verify", "compare", "wrong", "right", "grant", "validate", "download"}]

\* As long as the API runs, no client gets more than two windows' requests less one through
\* in any time of a window's length, though windows are fixed, the table is too small for
\* all and the client may begin the header.
RequestsBounded == watch.what = "request" => watch.count < 2 * Limit

\* The password is compared between two calls of the guard: as long as nobody knows the
\* password and the API runs, in any time of a lockout's length there are at most the wrong
\* attempts of two windows, less one, and those that were under way with the last of them.
GuessesBounded ==
  watch.what = "guess" => watch.count <= 2 * VerifyMaxAttempts - 2 + Cardinality(Verifiers)

\* Any time of a window's length gives at most two windows' download URLs less one to the
\* requests that go by one address, be they of one client or of several.  It is no bound for
\* a client: one that begins the header goes by any address, and has a window for each.
DownloadsBounded == watch.what = "download" => watch.count < 2 * DownloadLimit

\* A grant ends with the access, so no password gate opens after it, for a download that was
\* slow either; and there was a right password before, in this life of the API or another.
GrantWithinAccess ==
  [][\A p \in Downloaders : req[p] = "validate" /\ req'[p] = "download" =>
       clock < Expires /\ right]_vars
=============================================================================
