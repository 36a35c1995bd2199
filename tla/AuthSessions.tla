---------------------------- MODULE AuthSessions ----------------------------
(***************************************************************************)
(* Accounts, login sessions, and who a request acts for.  Every request    *)
(* passes OptionalAuth, which turns the cookie it came with into a user or *)
(* lets it go on as nobody; logout passes RequireAuth too, which asks the  *)
(* database a second time.  The answer that sets or clears the cookie may  *)
(* overtake another one of the same browser, or be lost.                   *)
(*                                                                         *)
(* A statement is one step, and between the statements of a request others *)
(* log out, log in, register, or the session expires.  A statement may     *)
(* fail, which ends the request; in OptionalAuth it makes it anonymous.    *)
(* Of the requests that work for a user, the two of an upload are here,    *)
(* because the second must be made by whoever made the first.              *)
(*                                                                         *)
(* Abstracted: hashes of passwords and of tokens (equal when what they are *)
(* of is), the columns last_used_at, user_agent and ip_hash, which nothing *)
(* reads, and all an upload does besides (UploadFlow).                     *)
(***************************************************************************)
EXTENDS Integers

CONSTANTS
  Emails,      \* normalized addresses
  Passwords,
  Browsers,    \* cookie jars
  Requests,    \* concurrent handlers
  Tokens,      \* session tokens, drawn at random in the code
  Uploads,     \* ids of upload_sessions rows
  None,
  SessionTTL,
  MaxClock     \* bound of the model on the clock

ASSUME ConstantsAssumption ==
  /\ Browsers # {}
  /\ None \notin Emails \cup Passwords \cup Tokens
  /\ SessionTTL \in Nat /\ MaxClock \in Nat

VARIABLES
  now,
  user,      \* users: the password of the account with an address
  session,   \* sessions, by token
  jar,       \* the session cookie of a browser
  req,       \* local state of the handlers
  upload     \* owner_user_id of upload_sessions, and who completed it

vars == <<now, user, session, jar, req, upload>>

\* with is history: the password whoever opened the session had given.
SessionRow == [of : Emails \cup {None}, with : Passwords \cup {None}, expiresAt : Nat,
               revoked : BOOLEAN]
NoSession  == [of |-> None, with |-> None, expiresAt |-> 0, revoked |-> FALSE]

\* by is history: the cookie of the request that completed it.
UploadRow == [status : {"none", "uploading", "completed"}, owner : Emails \cup {None},
              by : Tokens \cup {None}]
NoUpload  == [status |-> "none", owner |-> None, by |-> None]

\* late is history: the session of the cookie had ended when the request arrived.
RequestState == [pc    : {"idle", "optional", "require", "work", "session", "answer"},
                 path  : {"register", "login", "logout", "upload", "complete"},
                 from  : Browsers,
                 tok   : Tokens \cup {None},
                 ident : Emails \cup {None},
                 email : Emails \cup {None}, pass : Passwords \cup {None},
                 late  : BOOLEAN]

Idle == [pc |-> "idle", path |-> "upload", from |-> CHOOSE b \in Browsers : TRUE,
         tok |-> None, ident |-> None, email |-> None, pass |-> None, late |-> FALSE]

Init ==
  /\ now = 0
  /\ user = [e \in Emails |-> None]
  /\ session = [k \in Tokens |-> NoSession]
  /\ jar = [b \in Browsers |-> None]
  /\ req = [h \in Requests |-> Idle]
  /\ upload = [u \in Uploads |-> NoUpload]

----------------------------------------------------------------------------
Ended(k) == session[k].revoked \/ session[k].expiresAt < now

\* What Me accepts.
Unexpired(k) == session[k].of # None /\ session[k].expiresAt >= now     \* revoked_at not looked at
Valid(k) == session[k].of # None /\ ~session[k].revoked /\ session[k].expiresAt >= now

\* A browser sends what it has; whether it drops a cookie past its Expires is its own affair.
Request(path, b, e, p) ==
  [pc |-> "optional", path |-> path, from |-> b, tok |-> jar[b], ident |-> None,
   email |-> e, pass |-> p, late |-> jar[b] # None /\ Ended(jar[b])]

Arrive(h) ==
  /\ req[h].pc = "idle"
  /\ \E b \in Browsers :
       \/ \E path \in {"register", "login"}, e \in Emails, p \in Passwords :
            req' = [req EXCEPT ![h] = Request(path, b, e, p)]
       \/ \E path \in {"logout", "upload", "complete"} :
            req' = [req EXCEPT ![h] = Request(path, b, None, None)]
  /\ UNCHANGED <<now, user, session, jar, upload>>

\* An error of the database makes the request anonymous, as no cookie does.
OptionalAuth(h) ==
  /\ req[h].pc = "optional"
  /\ \E e \in IF req[h].tok # None /\ Valid(req[h].tok)
              THEN {None, session[req[h].tok].of} ELSE {None} :
       req' = [req EXCEPT ![h].pc = IF req[h].path = "logout" THEN "require" ELSE "work",
                          ![h].ident = e]
  /\ UNCHANGED <<now, user, session, jar, upload>>

\* Asks again, and refuses what OptionalAuth may have accepted.
RequireAuth(h) ==
  /\ req[h].pc = "require"
  /\ req[h].tok # None /\ Valid(req[h].tok)
  /\ req' = [req EXCEPT ![h].pc = "work", ![h].ident = session[req[h].tok].of]
  /\ UNCHANGED <<now, user, session, jar, upload>>

\* A check refused, a statement failed, or the client went away.
Fail(h) ==
  /\ req[h].pc \in {"require", "work", "session"}
  /\ req' = [req EXCEPT ![h] = Idle]
  /\ UNCHANGED <<now, user, session, jar, upload>>

----------------------------------------------------------------------------
\* The row with this address exists: its password is not asked for.
RegisterOrEnter(h) ==
  /\ req[h].pc = "work" /\ req[h].path = "register"
  /\ user' = [user EXCEPT ![req[h].email] = IF @ = None THEN req[h].pass ELSE @]
  /\ req' = [req EXCEPT ![h].pc = "session"]
  /\ UNCHANGED <<now, session, jar, upload>>

\* Register: the unique index on email_normalized decides between two of them.
CreateUser(h) ==
  /\ req[h].pc = "work" /\ req[h].path = "register"
  /\ user[req[h].email] = None
  /\ user' = [user EXCEPT ![req[h].email] = req[h].pass]
  /\ req' = [req EXCEPT ![h].pc = "session"]
  /\ UNCHANGED <<now, session, jar, upload>>

\* Login: the account and its password, whoever the request came as.
CheckPassword(h) ==
  /\ req[h].pc = "work" /\ req[h].path = "login"
  /\ user[req[h].email] = req[h].pass
  /\ req' = [req EXCEPT ![h].pc = "session"]
  /\ UNCHANGED <<now, user, session, jar, upload>>

\* The last statement of both, outside a transaction with the one before; the answer
\* will carry the token.
CreateSession(h) ==
  \E k \in Tokens :
    /\ req[h].pc = "session"
    /\ session[k].of = None
    /\ session' = [session EXCEPT ![k] =
         [of |-> req[h].email, with |-> req[h].pass, expiresAt |-> now + SessionTTL,
          revoked |-> FALSE]]
    /\ req' = [req EXCEPT ![h].pc = "answer", ![h].tok = k]
    /\ UNCHANGED <<now, user, jar, upload>>

\* Logout: UPDATE ... WHERE revoked_at IS NULL; no row, no success.
RevokeSession(h) ==
  /\ req[h].pc = "work" /\ req[h].path = "logout"
  /\ ~session[req[h].tok].revoked
  /\ session' = [session EXCEPT ![req[h].tok].revoked = TRUE]
  /\ req' = [req EXCEPT ![h].pc = "answer"]
  /\ UNCHANGED <<now, user, jar, upload>>

\* The cookie is set or cleared when the answer arrives, whatever it is by then.
Answer(h) ==
  /\ req[h].pc = "answer"
  /\ jar' = [jar EXCEPT ![req[h].from] = IF req[h].path = "logout" THEN None ELSE req[h].tok]
  /\ req' = [req EXCEPT ![h] = Idle]
  /\ UNCHANGED <<now, user, session, upload>>

LoseAnswer(h) ==
  /\ req[h].pc = "answer"
  /\ req' = [req EXCEPT ![h] = Idle]
  /\ UNCHANGED <<now, user, session, jar, upload>>

----------------------------------------------------------------------------
\* CreateUploadSession, for the user the request came as, or for nobody.
CreateUploadSession(h, u) ==
  /\ req[h].pc = "work" /\ req[h].path = "upload"
  /\ upload[u].status = "none"
  /\ upload' = [upload EXCEPT ![u] = [NoUpload EXCEPT !.status = "uploading", !.owner = req[h].ident]]
  /\ req' = [req EXCEPT ![h] = Idle]
  /\ UNCHANGED <<now, user, session, jar>>

OwnerOrNobody(h, u) == req[h].ident \in {upload[u].owner, None}    \* without a user no check
SameOwner(h, u)     == req[h].ident = upload[u].owner

CompleteUploadSession(h, u) ==
  /\ req[h].pc = "work" /\ req[h].path = "complete"
  /\ upload[u].status = "uploading"
  /\ SameOwner(h, u)
  /\ upload' = [upload EXCEPT ![u].status = "completed", ![u].by = req[h].tok]
  /\ req' = [req EXCEPT ![h] = Idle]
  /\ UNCHANGED <<now, user, session, jar>>

Tick ==
  /\ now < MaxClock
  /\ now' = now + 1
  /\ UNCHANGED <<user, session, jar, req, upload>>

Next ==
  \/ \E h \in Requests :
       \/ Arrive(h)
       \/ OptionalAuth(h)
       \/ RequireAuth(h)
       \/ Fail(h)
       \/ CreateUser(h)
       \/ CheckPassword(h)
       \/ CreateSession(h)
       \/ RevokeSession(h)
       \/ Answer(h)
       \/ LoseAnswer(h)
       \/ \E u \in Uploads : CreateUploadSession(h, u) \/ CompleteUploadSession(h, u)
  \/ Tick

Spec == Init /\ [][Next]_vars

----------------------------------------------------------------------------
(* Properties *)

\* Rows, cookies and local states keep their types.
TypeOK ==
  /\ now \in Nat
  /\ user \in [Emails -> Passwords \cup {None}]
  /\ session \in [Tokens -> SessionRow]
  /\ jar \in [Browsers -> Tokens \cup {None}]
  /\ req \in [Requests -> RequestState]
  /\ upload \in [Uploads -> UploadRow]

\* A session belongs to an account whose password its opener gave: of two concurrent
\* registrations of one address the loser gets no session of the winner's account, and one
\* that dies between account and session leaves an account that only its password opens.
SessionsNeedPassword ==
  \A k \in Tokens : session[k].of # None => user[session[k].of] = session[k].with

\* A request that arrives after the logout of its cookie was carried out, or after its
\* session expired, acts for nobody, whatever its handler reads when.
LateActsForNobody ==
  \A h \in Requests : req[h].late => req[h].ident = None

\* An upload begun by a user is completed only by a request whose cookie was a session of
\* that user, although the cookie of the browser, and what OptionalAuth makes of it, may
\* change in between.
CompletedByItsOwner ==
  \A u \in Uploads :
    upload[u].status = "completed" /\ upload[u].owner # None =>
      upload[u].by # None /\ session[upload[u].by].of = upload[u].owner
=============================================================================
