------------------------- MODULE AuthSessionsProofs -------------------------
(***************************************************************************)
(* Proofs about AuthSessions, for any accounts, browsers, handlers and     *)
(* length of a session.  Rows of sessions are written once and only ever   *)
(* end, and accounts keep their password: what a handler has read of them  *)
(* therefore stays true until it answers, and the invariant says what each *)
(* handler knows.                                                          *)
(***************************************************************************)
EXTENDS AuthSessions, TLAPS

\* A session was opened with the password of its account.
SessionFine(k) ==
  session[k].of # None => session[k].with # None /\ user[session[k].of] = session[k].with

\* What a handler knows of the account, of its cookie, and of whom it acts for.
RequestFine(h) ==
  /\ req[h].tok # None => session[req[h].tok].of # None
  /\ req[h].pc # "idle" /\ req[h].path \in {"register", "login"} =>
       req[h].email # None /\ req[h].pass # None
  /\ req[h].pc = "session" =>
       req[h].path \in {"register", "login"} /\ user[req[h].email] = req[h].pass
  /\ req[h].pc = "work" /\ req[h].path = "logout" => req[h].tok # None
  /\ req[h].pc = "answer" => req[h].tok # None
  /\ req[h].late => req[h].ident = None
  /\ req[h].late /\ req[h].pc \in {"optional", "require"} =>
       req[h].tok # None /\ Ended(req[h].tok)
  /\ req[h].pc \in {"optional", "require", "work"} /\ req[h].ident # None =>
       req[h].tok # None /\ session[req[h].tok].of = req[h].ident

CookieFine(b) == jar[b] # None => session[jar[b]].of # None

IInv ==
  /\ TypeOK
  /\ \A k \in Tokens : SessionFine(k)
  /\ \A h \in Requests : RequestFine(h)
  /\ \A b \in Browsers : CookieFine(b)
  /\ CompletedByItsOwner

----------------------------------------------------------------------------
(* Types. *)

\* The local state of a handler at rest has its type.
LEMMA IdleType == Idle \in RequestState
<1>1. (CHOOSE b \in Browsers : TRUE) \in Browsers
  BY ConstantsAssumption
<1> QED
  BY <1>1 DEF Idle, RequestState

\* A step of a handler, by name.
HandlerStep(h) ==
  \/ Arrive(h) \/ OptionalAuth(h) \/ RequireAuth(h) \/ Fail(h)
  \/ CreateUser(h) \/ CheckPassword(h) \/ CreateSession(h) \/ RevokeSession(h)
  \/ Answer(h) \/ LoseAnswer(h)
  \/ \E u \in Uploads : CreateUploadSession(h, u) \/ CompleteUploadSession(h, u)

\* A step is a handler's, or the clock's.
LEMMA NextSplits ==
  ASSUME Next
  PROVE  (\E h \in Requests : HandlerStep(h)) \/ Tick
BY DEF Next, HandlerStep

\* The fields of a local state have their types.
LEMMA RequestFields ==
  ASSUME TypeOK, NEW h \in Requests
  PROVE  /\ req \in [Requests -> RequestState]
         /\ req[h] \in RequestState
         /\ req[h].tok \in Tokens \cup {None}
         /\ req[h].ident \in Emails \cup {None}
         /\ req[h].email \in Emails \cup {None}
         /\ req[h].pass \in Passwords \cup {None}
         /\ req[h].from \in Browsers
         /\ req[h].late \in BOOLEAN
         /\ req[h].pc \in {"idle", "optional", "require", "work", "session", "answer"}
         /\ req[h].path \in {"register", "login", "logout", "upload", "complete"}
BY DEF TypeOK, RequestState

\* The fields of a session have their types.
LEMMA SessionFields ==
  ASSUME TypeOK, NEW k \in Tokens
  PROVE  /\ session \in [Tokens -> SessionRow]
         /\ session[k] \in SessionRow
         /\ session[k].of \in Emails \cup {None}
         /\ session[k].with \in Passwords \cup {None}
         /\ session[k].expiresAt \in Nat
         /\ session[k].revoked \in BOOLEAN
BY DEF TypeOK, SessionRow

\* Local states keep their types.
LEMMA RequestTypes ==
  ASSUME TypeOK, NEW h \in Requests, HandlerStep(h)
  PROVE  req' \in [Requests -> RequestState]
<1> USE RequestFields, IdleType
<1>1. CASE Arrive(h)
  <2>1. ASSUME NEW path \in {"register", "login", "logout", "upload", "complete"},
               NEW b \in Browsers, NEW e \in Emails \cup {None}, NEW p \in Passwords \cup {None}
        PROVE  Request(path, b, e, p) \in RequestState
    <3>1. jar[b] \in Tokens \cup {None}
      BY DEF TypeOK
    <3>2. (jar[b] # None /\ Ended(jar[b])) \in BOOLEAN
      OBVIOUS
    <3> QED
      BY <3>1, <3>2 DEF Request, RequestState
  <2>2. \E s \in RequestState : req' = [req EXCEPT ![h] = s]
    <3>1. PICK b \in Browsers :
            \/ \E path \in {"register", "login"}, e \in Emails, p \in Passwords :
                 req' = [req EXCEPT ![h] = Request(path, b, e, p)]
            \/ \E path \in {"logout", "upload", "complete"} :
                 req' = [req EXCEPT ![h] = Request(path, b, None, None)]
      BY <1>1 DEF Arrive
    <3>2. CASE \E path \in {"register", "login"}, e \in Emails, p \in Passwords :
                 req' = [req EXCEPT ![h] = Request(path, b, e, p)]
      <4>1. PICK path \in {"register", "login"}, e \in Emails, p \in Passwords :
                 req' = [req EXCEPT ![h] = Request(path, b, e, p)]
        BY <3>2
      <4> QED
        BY <2>1, <4>1
    <3>3. CASE \E path \in {"logout", "upload", "complete"} :
                 req' = [req EXCEPT ![h] = Request(path, b, None, None)]
      BY <2>1, <3>3
    <3> QED
      BY <3>1, <3>2, <3>3
  <2> QED
    BY <2>2
<1>2. CASE OptionalAuth(h)
  <2>1. PICK e \in Emails \cup {None} :
          req' = [req EXCEPT ![h].pc = IF req[h].path = "logout" THEN "require" ELSE "work",
                             ![h].ident = e]
    <3>1. req[h].tok # None => session[req[h].tok].of \in Emails \cup {None}
      BY SessionFields
    <3> QED
      BY <1>2, <3>1 DEF OptionalAuth
  <2> QED
    BY <2>1 DEF RequestState
<1>3. CASE RequireAuth(h)
  <2>1. session[req[h].tok].of \in Emails \cup {None}
    BY <1>3, SessionFields DEF RequireAuth
  <2> QED
    BY <1>3, <2>1 DEF RequireAuth, RequestState
<1>4. CASE CreateSession(h)
  BY <1>4 DEF CreateSession, RequestState
<1>5. CASE \E pc \in {"session", "answer"} : req' = [req EXCEPT ![h].pc = pc]
  BY <1>5 DEF RequestState
<1>6. CASE req' = [req EXCEPT ![h] = Idle]
  BY <1>6
<1> QED
  BY <1>1, <1>2, <1>3, <1>4, <1>5, <1>6
     DEF HandlerStep, Fail, CreateUser, CheckPassword, RevokeSession, Answer, LoseAnswer,
         CreateUploadSession, CompleteUploadSession

\* The rows, the cookies and the uploads keep their types.
LEMMA RowTypes ==
  ASSUME TypeOK, NEW h \in Requests, HandlerStep(h),
         req[h].path \in {"register", "login"} /\ req[h].pc = "session" =>
           req[h].email # None /\ req[h].pass # None,
         req[h].path \in {"register", "login"} /\ req[h].pc = "work" => req[h].pass # None,
         req[h].pc = "session" => req[h].path \in {"register", "login"}
  PROVE  /\ user' \in [Emails -> Passwords \cup {None}]
         /\ session' \in [Tokens -> SessionRow]
         /\ jar' \in [Browsers -> Tokens \cup {None}]
         /\ upload' \in [Uploads -> UploadRow]
         /\ now' = now
<1>1. /\ now \in Nat /\ user \in [Emails -> Passwords \cup {None}]
      /\ session \in [Tokens -> SessionRow]
      /\ jar \in [Browsers -> Tokens \cup {None}] /\ upload \in [Uploads -> UploadRow]
      /\ SessionTTL \in Nat
  BY ConstantsAssumption DEF TypeOK
<1>2. now' = now
  BY DEF HandlerStep, Arrive, OptionalAuth, RequireAuth, Fail, CreateUser, CheckPassword,
         CreateSession, RevokeSession, Answer, LoseAnswer, CreateUploadSession, CompleteUploadSession
<1>3. user' \in [Emails -> Passwords \cup {None}]
  <2>1. CASE CreateUser(h)
    BY <1>1, <2>1, RequestFields DEF CreateUser
  <2>2. CASE user' = user
    BY <1>1, <2>2
  <2> QED
    BY <2>1, <2>2
       DEF HandlerStep, Arrive, OptionalAuth, RequireAuth, Fail, CheckPassword,
           CreateSession, RevokeSession, Answer, LoseAnswer, CreateUploadSession, CompleteUploadSession
<1>4. session' \in [Tokens -> SessionRow]
  <2>1. CASE CreateSession(h)
    <3>1. PICK k \in Tokens : session' = [session EXCEPT ![k] =
            [of |-> req[h].email, with |-> req[h].pass, expiresAt |-> now + SessionTTL,
             revoked |-> FALSE]]
      BY <2>1 DEF CreateSession
    <3>2. now + SessionTTL \in Nat
      BY <1>1
    <3> QED
      BY <1>1, <3>1, <3>2, RequestFields DEF SessionRow
  <2>2. CASE RevokeSession(h)
    BY <1>1, <2>2 DEF RevokeSession, SessionRow
  <2>3. CASE session' = session
    BY <1>1, <2>3
  <2> QED
    BY <2>1, <2>2, <2>3
       DEF HandlerStep, Arrive, OptionalAuth, RequireAuth, Fail, CreateUser, CheckPassword,
           Answer, LoseAnswer, CreateUploadSession, CompleteUploadSession
<1>5. jar' \in [Browsers -> Tokens \cup {None}]
  <2>1. CASE Answer(h)
    BY <1>1, <2>1, RequestFields DEF Answer
  <2>2. CASE jar' = jar
    BY <1>1, <2>2
  <2> QED
    BY <2>1, <2>2
       DEF HandlerStep, Arrive, OptionalAuth, RequireAuth, Fail, CreateUser, CheckPassword,
           CreateSession, RevokeSession, LoseAnswer, CreateUploadSession, CompleteUploadSession
<1>6. upload' \in [Uploads -> UploadRow]
  <2>1. CASE \E u \in Uploads : CreateUploadSession(h, u)
    <3>1. PICK u \in Uploads : upload' = [upload EXCEPT ![u] =
            [NoUpload EXCEPT !.status = "uploading", !.owner = req[h].ident]]
      BY <2>1 DEF CreateUploadSession
    <3> QED
      BY <1>1, <3>1, RequestFields DEF NoUpload, UploadRow
  <2>2. CASE \E u \in Uploads : CompleteUploadSession(h, u)
    <3>1. PICK u \in Uploads :
            upload' = [upload EXCEPT ![u].status = "completed", ![u].by = req[h].tok]
      BY <2>2 DEF CompleteUploadSession
    <3>2. upload[u] \in UploadRow /\ req[h].tok \in Tokens \cup {None}
      BY <1>1, RequestFields
    <3>3. [upload[u] EXCEPT !.status = "completed", !.by = req[h].tok] \in UploadRow
      BY <3>2 DEF UploadRow
    <3>4. upload' = [upload EXCEPT ![u] =
            [upload[u] EXCEPT !.status = "completed", !.by = req[h].tok]]
      BY <1>1, <3>1
    <3> QED
      BY <1>1, <3>3, <3>4
  <2>3. CASE upload' = upload
    BY <1>1, <2>3
  <2> QED
    BY <2>1, <2>2, <2>3
       DEF HandlerStep, Arrive, OptionalAuth, RequireAuth, Fail, CreateUser, CheckPassword,
           CreateSession, RevokeSession, Answer, LoseAnswer
<1> QED
  BY <1>2, <1>3, <1>4, <1>5, <1>6

----------------------------------------------------------------------------
(* What only grows. *)

\* A session once there keeps its account and the password it was opened with, and ends for
\* good; an account keeps its password.
Grows ==
  /\ \A k \in Tokens : session[k].of # None =>
       /\ session'[k].of = session[k].of /\ session'[k].with = session[k].with
       /\ session'[k].expiresAt = session[k].expiresAt
       /\ session[k].revoked => session'[k].revoked
  /\ \A e \in Emails : user[e] # None => user'[e] = user[e]
  /\ now \in Nat /\ now' \in Nat /\ now' >= now

\* No handler takes anything back.
LEMMA HandlersGrow ==
  ASSUME TypeOK, NEW h \in Requests, HandlerStep(h)
  PROVE  Grows
<1>1. now \in Nat /\ user \in [Emails -> Passwords \cup {None}] /\ session \in [Tokens -> SessionRow]
  BY DEF TypeOK
<1>2. now' = now
  BY DEF HandlerStep, Arrive, OptionalAuth, RequireAuth, Fail, CreateUser, CheckPassword,
         CreateSession, RevokeSession, Answer, LoseAnswer, CreateUploadSession, CompleteUploadSession
<1>3. ASSUME NEW e \in Emails, user[e] # None
      PROVE  user'[e] = user[e]
  BY <1>1, <1>3
     DEF HandlerStep, Arrive, OptionalAuth, RequireAuth, Fail, CreateUser, CheckPassword,
         CreateSession, RevokeSession, Answer, LoseAnswer, CreateUploadSession, CompleteUploadSession
<1>4. ASSUME NEW k \in Tokens, session[k].of # None
      PROVE  /\ session'[k].of = session[k].of /\ session'[k].with = session[k].with
             /\ session'[k].expiresAt = session[k].expiresAt
             /\ session[k].revoked => session'[k].revoked
  <2>1. CASE CreateSession(h)
    <3>1. PICK l \in Tokens : session[l].of = None /\ session' = [session EXCEPT ![l] =
            [of |-> req[h].email, with |-> req[h].pass, expiresAt |-> now + SessionTTL,
             revoked |-> FALSE]]
      BY <2>1 DEF CreateSession
    <3>2. k # l
      BY <1>4, <3>1
    <3> QED
      BY <1>1, <3>1, <3>2
  <2>2. CASE RevokeSession(h)
    <3>1. session' = [session EXCEPT ![req[h].tok].revoked = TRUE]
      BY <2>2 DEF RevokeSession
    <3>2. session[k] \in SessionRow
      BY <1>1
    <3>3. CASE k = req[h].tok
      <4>1. session'[k] = [session[k] EXCEPT !.revoked = TRUE]
        BY <1>1, <3>1, <3>3
      <4> QED
        BY <3>2, <4>1 DEF SessionRow
    <3>4. CASE k # req[h].tok
      BY <1>1, <3>1, <3>4
    <3> QED
      BY <3>3, <3>4
  <2>3. CASE session' = session
    BY <2>3
  <2> QED
    BY <2>1, <2>2, <2>3
       DEF HandlerStep, Arrive, OptionalAuth, RequireAuth, Fail, CreateUser, CheckPassword,
           Answer, LoseAnswer, CreateUploadSession, CompleteUploadSession
<1> QED
  BY <1>1, <1>2, <1>3, <1>4 DEF Grows

\* Nor does the clock.
LEMMA ClockGrows ==
  ASSUME TypeOK, Tick
  PROVE  Grows
BY DEF TypeOK, Tick, Grows

\* A session that has ended stays ended.
LEMMA EndedStays ==
  ASSUME TypeOK, Grows, NEW k \in Tokens, session[k].of # None, Ended(k)
  PROVE  Ended(k)'
<1>1. session[k].expiresAt \in Nat
  BY SessionFields
<1> QED
  BY <1>1 DEF Ended, Grows

\* What a handler knows stays true while it does nothing.
LEMMA RequestKept ==
  ASSUME TypeOK, Grows, NEW g \in Requests, req'[g] = req[g], RequestFine(g)
  PROVE  RequestFine(g)'
<1> USE RequestFields
<1>1. req[g].tok # None => req[g].tok \in Tokens /\ session[req[g].tok].of # None
  BY DEF RequestFine
<1>2. req[g].tok # None => session'[req[g].tok].of = session[req[g].tok].of
  BY <1>1 DEF Grows
<1>3. req[g].pc = "session" =>
        req[g].path \in {"register", "login"} /\ user'[req[g].email] = req[g].pass
  <2> SUFFICES ASSUME req[g].pc = "session"
               PROVE  req[g].path \in {"register", "login"} /\ user'[req[g].email] = req[g].pass
    OBVIOUS
  <2>1. /\ req[g].path \in {"register", "login"} /\ user[req[g].email] = req[g].pass
        /\ req[g].email # None /\ req[g].pass # None
    BY DEF RequestFine
  <2>2. req[g].email \in Emails
    BY <2>1
  <2> QED
    BY <2>1, <2>2 DEF Grows
<1>4. req[g].late /\ req[g].pc \in {"optional", "require"} => req[g].tok # None /\ Ended(req[g].tok)'
  <2> SUFFICES ASSUME req[g].late, req[g].pc \in {"optional", "require"}
               PROVE  req[g].tok # None /\ Ended(req[g].tok)'
    OBVIOUS
  <2>1. req[g].tok # None /\ Ended(req[g].tok)
    BY DEF RequestFine
  <2> DEFINE k == req[g].tok
  <2>2. k \in Tokens /\ session[k].of # None
    BY <1>1, <2>1
  <2>3. /\ session'[k].expiresAt = session[k].expiresAt
        /\ session[k].revoked => session'[k].revoked
        /\ now \in Nat /\ now' \in Nat /\ now' >= now
        /\ session[k].expiresAt \in Nat
    BY <2>2, SessionFields DEF Grows
  <2>4. session'[k].revoked \/ session'[k].expiresAt < now'
    BY <2>1, <2>3 DEF Ended
  <2> QED
    BY <2>1, <2>4 DEF Ended
<1> QED
  BY <1>1, <1>2, <1>3, <1>4 DEF RequestFine

\* Nor does a cookie lose its session, or a session its password.
LEMMA CookieKept ==
  ASSUME TypeOK, Grows, NEW b \in Browsers, jar'[b] = jar[b], CookieFine(b)
  PROVE  CookieFine(b)'
<1>1. jar[b] \in Tokens \cup {None}
  BY DEF TypeOK
<1> QED
  BY <1>1 DEF CookieFine, Grows

\* A session's account keeps the password the session was opened with.
LEMMA SessionKept ==
  ASSUME TypeOK, Grows, NEW k \in Tokens, session[k].of # None, SessionFine(k)
  PROVE  SessionFine(k)'
<1>1. session[k].of \in Emails /\ session[k].with # None /\ user[session[k].of] = session[k].with
  BY SessionFields DEF SessionFine
<1> QED
  BY <1>1 DEF SessionFine, Grows

----------------------------------------------------------------------------
(* What the handler that takes the step knows after it. *)

\* At rest a handler knows nothing.
LEMMA IdleFine ==
  ASSUME TypeOK, NEW h \in Requests, req' = [req EXCEPT ![h] = Idle]
  PROVE  RequestFine(h)'
<1>1. req'[h] = Idle
  BY RequestFields
<1> QED
  BY <1>1 DEF RequestFine, Idle

\* A request that arrives knows its cookie, and whether its session had ended.
LEMMA ArriveFine ==
  ASSUME TypeOK, NEW h \in Requests, Arrive(h), \A b \in Browsers : CookieFine(b)
  PROVE  RequestFine(h)'
<1>1. PICK b \in Browsers :
        \/ \E path \in {"register", "login"}, e \in Emails, p \in Passwords :
             req' = [req EXCEPT ![h] = Request(path, b, e, p)]
        \/ \E path \in {"logout", "upload", "complete"} :
             req' = [req EXCEPT ![h] = Request(path, b, None, None)]
  BY DEF Arrive
<1>2. /\ now' = now /\ user' = user /\ session' = session
      /\ req \in [Requests -> RequestState]
  BY DEF Arrive, TypeOK
<1>3. \E path \in {"register", "login", "logout", "upload", "complete"},
         e \in Emails \cup {None}, p \in Passwords \cup {None} :
        /\ req'[h] = Request(path, b, e, p)
        /\ path \in {"register", "login"} => e # None /\ p # None
  BY <1>1, <1>2, ConstantsAssumption
<1>4. PICK path \in {"register", "login", "logout", "upload", "complete"},
           e \in Emails \cup {None}, p \in Passwords \cup {None} :
        /\ req'[h] = Request(path, b, e, p)
        /\ path \in {"register", "login"} => e # None /\ p # None
  BY <1>3
<1>5. /\ req'[h].pc = "optional" /\ req'[h].path = path /\ req'[h].tok = jar[b]
      /\ req'[h].ident = None /\ req'[h].email = e /\ req'[h].pass = p
      /\ req'[h].late = (jar[b] # None /\ Ended(jar[b]))
  BY <1>4 DEF Request
<1>6. jar[b] # None => session[jar[b]].of # None
  BY DEF CookieFine
<1>7. Ended(jar[b]) => session'[jar[b]].revoked \/ session'[jar[b]].expiresAt < now'
  BY <1>2 DEF Ended
<1> QED
  BY <1>2, <1>4, <1>5, <1>6, <1>7 DEF RequestFine, Ended

\* OptionalAuth makes nobody of a cookie whose session had ended.
LEMMA OptionalAuthFine ==
  ASSUME TypeOK, NEW h \in Requests, OptionalAuth(h), RequestFine(h)
  PROVE  RequestFine(h)'
<1> USE RequestFields
<1>1. PICK e \in IF req[h].tok # None /\ Valid(req[h].tok)
                 THEN {None, session[req[h].tok].of} ELSE {None} :
        req' = [req EXCEPT ![h].pc = IF req[h].path = "logout" THEN "require" ELSE "work",
                           ![h].ident = e]
  BY DEF OptionalAuth
<1>2. /\ req[h].pc = "optional" /\ now' = now /\ user' = user /\ session' = session
  BY DEF OptionalAuth
<1>3. req'[h] = [req[h] EXCEPT !.pc = IF req[h].path = "logout" THEN "require" ELSE "work",
                               !.ident = e]
  BY <1>1
<1>4. /\ req'[h].pc = IF req[h].path = "logout" THEN "require" ELSE "work"
      /\ req'[h].ident = e /\ req'[h].path = req[h].path /\ req'[h].tok = req[h].tok
      /\ req'[h].email = req[h].email /\ req'[h].pass = req[h].pass
      /\ req'[h].late = req[h].late
  BY <1>3 DEF RequestState
<1>5. e # None => req[h].tok # None /\ Valid(req[h].tok) /\ e = session[req[h].tok].of
  BY <1>1
<1>6. req[h].late => req[h].tok # None /\ Ended(req[h].tok)
  BY <1>2 DEF RequestFine
<1>7. req[h].late => e = None
  <2>1. req[h].tok \in Tokens => session[req[h].tok].expiresAt \in Nat /\ now \in Nat
    BY SessionFields DEF TypeOK
  <2> QED
    BY <1>5, <1>6, <2>1 DEF Valid, Ended
<1>8. req[h].late => req[h].tok # None /\ Ended(req[h].tok)'
  BY <1>2, <1>4, <1>6 DEF Ended
<1> QED
  BY <1>2, <1>4, <1>5, <1>7, <1>8 DEF RequestFine

\* RequireAuth lets only a session through that has not ended.
LEMMA RequireAuthFine ==
  ASSUME TypeOK, NEW h \in Requests, RequireAuth(h), RequestFine(h)
  PROVE  RequestFine(h)'
<1> USE RequestFields
<1>1. /\ req[h].pc = "require" /\ req[h].tok # None /\ Valid(req[h].tok)
      /\ now' = now /\ user' = user /\ session' = session
      /\ req' = [req EXCEPT ![h].pc = "work", ![h].ident = session[req[h].tok].of]
  BY DEF RequireAuth
<1>2. /\ req'[h].pc = "work" /\ req'[h].ident = session[req[h].tok].of
      /\ req'[h].path = req[h].path /\ req'[h].tok = req[h].tok
      /\ req'[h].email = req[h].email /\ req'[h].pass = req[h].pass
      /\ req'[h].late = req[h].late
  BY <1>1 DEF RequestState
<1>3. ~req[h].late
  <2>1. session[req[h].tok].expiresAt \in Nat /\ now \in Nat
    BY <1>1, SessionFields DEF TypeOK
  <2>2. req[h].late => Ended(req[h].tok)
    BY <1>1 DEF RequestFine
  <2> QED
    BY <1>1, <2>1, <2>2 DEF Valid, Ended
<1> QED
  BY <1>1, <1>2, <1>3 DEF RequestFine

\* Register has given the password of the account it made.
LEMMA CreateUserFine ==
  ASSUME TypeOK, NEW h \in Requests, CreateUser(h), RequestFine(h)
  PROVE  RequestFine(h)'
<1> USE RequestFields
<1>1. /\ req[h].pc = "work" /\ req[h].path = "register"
      /\ user' = [user EXCEPT ![req[h].email] = req[h].pass]
      /\ req' = [req EXCEPT ![h].pc = "session"] /\ now' = now /\ session' = session
  BY DEF CreateUser
<1>2. /\ req'[h].pc = "session" /\ req'[h].ident = req[h].ident
      /\ req'[h].path = req[h].path /\ req'[h].tok = req[h].tok
      /\ req'[h].email = req[h].email /\ req'[h].pass = req[h].pass
      /\ req'[h].late = req[h].late
  BY <1>1 DEF RequestState
<1>3. user'[req[h].email] = req[h].pass
  BY <1>1 DEF RequestFine, TypeOK
<1> QED
  BY <1>1, <1>2, <1>3 DEF RequestFine

\* Login has given the password of the account it found.
LEMMA CheckPasswordFine ==
  ASSUME TypeOK, NEW h \in Requests, CheckPassword(h), RequestFine(h)
  PROVE  RequestFine(h)'
<1> USE RequestFields
<1>1. /\ req[h].pc = "work" /\ req[h].path = "login"
      /\ user[req[h].email] = req[h].pass /\ user' = user
      /\ req' = [req EXCEPT ![h].pc = "session"] /\ now' = now /\ session' = session
  BY DEF CheckPassword
<1>2. /\ req'[h].pc = "session" /\ req'[h].ident = req[h].ident
      /\ req'[h].path = req[h].path /\ req'[h].tok = req[h].tok
      /\ req'[h].email = req[h].email /\ req'[h].pass = req[h].pass
      /\ req'[h].late = req[h].late
  BY <1>1 DEF RequestState
<1> QED
  BY <1>1, <1>2 DEF RequestFine

\* The session that is opened is one of the account whose password was given.
LEMMA CreateSessionFine ==
  ASSUME TypeOK, NEW h \in Requests, CreateSession(h), RequestFine(h)
  PROVE  /\ RequestFine(h)'
         /\ \A k \in Tokens : session[k].of = None => SessionFine(k)'
<1> USE RequestFields
<1>1. PICK k \in Tokens :
        /\ session' = [session EXCEPT ![k] =
             [of |-> req[h].email, with |-> req[h].pass, expiresAt |-> now + SessionTTL,
              revoked |-> FALSE]]
        /\ req' = [req EXCEPT ![h].pc = "answer", ![h].tok = k]
  BY DEF CreateSession
<1>2. req[h].pc = "session" /\ user' = user /\ k # None
  BY ConstantsAssumption DEF CreateSession
<1>3. /\ req'[h].pc = "answer" /\ req'[h].ident = req[h].ident
      /\ req'[h].path = req[h].path /\ req'[h].tok = k
      /\ req'[h].email = req[h].email /\ req'[h].pass = req[h].pass
      /\ req'[h].late = req[h].late
  BY <1>1 DEF RequestState
<1>4. /\ req[h].path \in {"register", "login"} /\ user[req[h].email] = req[h].pass
      /\ req[h].email # None /\ req[h].pass # None
  BY <1>2 DEF RequestFine
<1>5. /\ session'[k].of = req[h].email /\ session'[k].with = req[h].pass
      /\ \A l \in Tokens : l # k => session'[l] = session[l]
  BY <1>1 DEF TypeOK
<1>6. RequestFine(h)'
  BY <1>2, <1>3, <1>4, <1>5 DEF RequestFine
<1>7. \A l \in Tokens : session[l].of = None => SessionFine(l)'
  BY <1>2, <1>4, <1>5 DEF SessionFine
<1> QED
  BY <1>6, <1>7

\* Logout still has its session.
LEMMA RevokeSessionFine ==
  ASSUME TypeOK, NEW h \in Requests, RevokeSession(h), RequestFine(h), Grows
  PROVE  RequestFine(h)'
<1> USE RequestFields
<1>1. /\ req[h].pc = "work" /\ req[h].path = "logout"
      /\ req' = [req EXCEPT ![h].pc = "answer"]
  BY DEF RevokeSession
<1>2. /\ req'[h].pc = "answer" /\ req'[h].ident = req[h].ident
      /\ req'[h].path = req[h].path /\ req'[h].tok = req[h].tok
      /\ req'[h].email = req[h].email /\ req'[h].pass = req[h].pass
      /\ req'[h].late = req[h].late
  BY <1>1 DEF RequestState
<1>3. req[h].tok \in Tokens /\ session[req[h].tok].of # None
  BY <1>1 DEF RequestFine
<1>4. session'[req[h].tok].of # None
  BY <1>3 DEF Grows
<1> QED
  BY <1>1, <1>2, <1>3, <1>4 DEF RequestFine

\* The handler that takes the step knows afterwards what it should.
LEMMA ActorFine ==
  ASSUME TypeOK, Grows, NEW h \in Requests, HandlerStep(h), RequestFine(h),
         \A b \in Browsers : CookieFine(b)
  PROVE  RequestFine(h)'
<1>1. CASE req' = [req EXCEPT ![h] = Idle]
  BY <1>1, IdleFine
<1>2. CASE Fail(h) \/ Answer(h) \/ LoseAnswer(h)
           \/ \E u \in Uploads : CreateUploadSession(h, u) \/ CompleteUploadSession(h, u)
  BY <1>1, <1>2 DEF Fail, Answer, LoseAnswer, CreateUploadSession, CompleteUploadSession
<1> QED
  BY <1>2, ArriveFine, OptionalAuthFine, RequireAuthFine, CreateUserFine, CheckPasswordFine,
     CreateSessionFine, RevokeSessionFine DEF HandlerStep

\* The others take no step.
LEMMA OthersWait ==
  ASSUME TypeOK, NEW h \in Requests, HandlerStep(h), NEW g \in Requests, g # h
  PROVE  req'[g] = req[g]
BY DEF TypeOK, HandlerStep, Arrive, OptionalAuth, RequireAuth, Fail, CreateUser, CheckPassword,
       CreateSession, RevokeSession, Answer, LoseAnswer, CreateUploadSession, CompleteUploadSession

\* Sessions are opened by CreateSession, with the password of their account.
LEMMA SessionsFine ==
  ASSUME TypeOK, Grows, NEW h \in Requests, HandlerStep(h), RequestFine(h),
         \A k \in Tokens : SessionFine(k), NEW k \in Tokens
  PROVE  SessionFine(k)'
<1>1. CASE session[k].of # None
  BY <1>1, SessionKept
<1>2. CASE session[k].of = None
  <2>1. CASE CreateSession(h)
    BY <1>2, <2>1, CreateSessionFine
  <2>2. CASE RevokeSession(h)
    <3>1. session'[k].of = None
      BY <1>2, <2>2, RequestFields, SessionFields DEF RevokeSession, SessionRow
    <3> QED
      BY <3>1 DEF SessionFine
  <2>3. CASE session' = session
    BY <1>2, <2>3 DEF SessionFine
  <2> QED
    BY <2>1, <2>2, <2>3
       DEF HandlerStep, Arrive, OptionalAuth, RequireAuth, Fail, CreateUser, CheckPassword,
           Answer, LoseAnswer, CreateUploadSession, CompleteUploadSession
<1> QED
  BY <1>1, <1>2

\* A cookie is set to the token of a session.
LEMMA CookiesFine ==
  ASSUME TypeOK, Grows, NEW h \in Requests, HandlerStep(h), RequestFine(h),
         \A b \in Browsers : CookieFine(b), NEW b \in Browsers
  PROVE  CookieFine(b)'
<1>1. CASE jar'[b] = jar[b]
  BY <1>1, CookieKept
<1>2. CASE jar'[b] # jar[b]
  <2>1. Answer(h)
    BY <1>2
       DEF HandlerStep, Arrive, OptionalAuth, RequireAuth, Fail, CreateUser, CheckPassword,
           CreateSession, RevokeSession, LoseAnswer, CreateUploadSession, CompleteUploadSession
  <2>2. /\ jar'[b] \in {None, req[h].tok}
        /\ session' = session /\ req[h].pc = "answer"
    BY <1>2, <2>1 DEF Answer, TypeOK
  <2>3. req[h].tok # None => session[req[h].tok].of # None
    BY DEF RequestFine
  <2> QED
    BY <2>2, <2>3 DEF CookieFine
<1> QED
  BY <1>1, <1>2

\* Who completes an upload of a user comes with a session of that user, and sessions do not
\* change hands.
LEMMA UploadsFine ==
  ASSUME TypeOK, Grows, NEW h \in Requests, HandlerStep(h), RequestFine(h), CompletedByItsOwner
  PROVE  CompletedByItsOwner'
<1> SUFFICES ASSUME NEW u \in Uploads,
                    upload'[u].status = "completed", upload'[u].owner # None
             PROVE  upload'[u].by # None /\ session'[upload'[u].by].of = upload'[u].owner
  BY DEF CompletedByItsOwner
<1>1. upload[u] \in UploadRow /\ upload \in [Uploads -> UploadRow]
  BY DEF TypeOK
<1>2. CASE upload'[u] = upload[u]
  <2>1. upload[u].by # None /\ session[upload[u].by].of = upload[u].owner
    BY <1>2 DEF CompletedByItsOwner
  <2>2. upload[u].by \in Tokens
    BY <1>1, <2>1 DEF UploadRow
  <2> QED
    BY <1>2, <2>1, <2>2 DEF Grows
<1>3. CASE \E v \in Uploads : CreateUploadSession(h, v)
  <2>1. PICK v \in Uploads : upload' = [upload EXCEPT ![v] =
          [NoUpload EXCEPT !.status = "uploading", !.owner = req[h].ident]]
    BY <1>3 DEF CreateUploadSession
  <2>2. v = u => upload'[u].status = "uploading"
    BY <1>1, <2>1 DEF NoUpload
  <2>3. upload'[u] = upload[u]
    BY <1>1, <2>1, <2>2
  <2> QED
    BY <1>2, <2>3
<1>4. CASE \E v \in Uploads : CompleteUploadSession(h, v)
  <2>1. PICK v \in Uploads : CompleteUploadSession(h, v)
    BY <1>4
  <2>2. /\ upload' = [upload EXCEPT ![v].status = "completed", ![v].by = req[h].tok]
        /\ req[h].pc = "work" /\ req[h].ident = upload[v].owner /\ session' = session
    BY <2>1 DEF CompleteUploadSession, SameOwner
  <2>3. CASE v = u
    <3>1. upload'[u].by = req[h].tok /\ upload'[u].owner = req[h].ident
      BY <1>1, <2>2, <2>3 DEF UploadRow
    <3>2. req[h].tok # None /\ session[req[h].tok].of = req[h].ident
      BY <2>2, <3>1 DEF RequestFine
    <3> QED
      BY <2>2, <3>1, <3>2
  <2>4. CASE v # u
    BY <1>1, <1>2, <2>2, <2>4
  <2> QED
    BY <2>3, <2>4
<1>5. CASE upload' = upload
  BY <1>2, <1>5
<1> QED
  BY <1>3, <1>4, <1>5
     DEF HandlerStep, Arrive, OptionalAuth, RequireAuth, Fail, CreateUser, CheckPassword,
         CreateSession, RevokeSession, Answer, LoseAnswer

----------------------------------------------------------------------------
(* The invariant. *)

\* The invariant holds when the process starts.
LEMMA InitInvariant ==
  ASSUME Init
  PROVE  IInv
<1>1. TypeOK
  <2>1. NoSession \in SessionRow
    BY DEF NoSession, SessionRow
  <2>2. NoUpload \in UploadRow
    BY DEF NoUpload, UploadRow
  <2> QED
    BY <2>1, <2>2, IdleType DEF Init, TypeOK
<1>2. \A k \in Tokens : SessionFine(k)
  BY DEF Init, SessionFine, NoSession
<1>3. \A h \in Requests : RequestFine(h)
  BY DEF Init, RequestFine, Idle
<1>4. \A b \in Browsers : CookieFine(b)
  BY DEF Init, CookieFine
<1>5. CompletedByItsOwner
  BY DEF Init, CompletedByItsOwner, NoUpload
<1> QED
  BY <1>1, <1>2, <1>3, <1>4, <1>5 DEF IInv

\* A handler's step keeps it.
LEMMA HandlerInvariant ==
  ASSUME IInv, NEW h \in Requests, HandlerStep(h)
  PROVE  IInv'
<1>1. /\ TypeOK /\ CompletedByItsOwner
      /\ \A k \in Tokens : SessionFine(k)
      /\ \A g \in Requests : RequestFine(g)
      /\ \A b \in Browsers : CookieFine(b)
  BY DEF IInv
<1>2. Grows
  BY <1>1, HandlersGrow
<1>3. TypeOK'
  <2>1. /\ req[h].path \in {"register", "login"} /\ req[h].pc = "session" =>
             req[h].email # None /\ req[h].pass # None
        /\ req[h].path \in {"register", "login"} /\ req[h].pc = "work" => req[h].pass # None
        /\ req[h].pc = "session" => req[h].path \in {"register", "login"}
    BY <1>1 DEF RequestFine
  <2>2. req' \in [Requests -> RequestState]
    BY <1>1, RequestTypes
  <2>3. /\ user' \in [Emails -> Passwords \cup {None}]
        /\ session' \in [Tokens -> SessionRow]
        /\ jar' \in [Browsers -> Tokens \cup {None}]
        /\ upload' \in [Uploads -> UploadRow]
        /\ now' = now
    BY <1>1, <2>1, RowTypes
  <2> QED
    BY <1>1, <2>2, <2>3 DEF TypeOK
<1>4. \A k \in Tokens : SessionFine(k)'
  BY <1>1, <1>2, SessionsFine
<1>5. \A g \in Requests : RequestFine(g)'
  <2> TAKE g \in Requests
  <2>1. CASE g = h
    BY <1>1, <1>2, <2>1, ActorFine
  <2>2. CASE g # h
    BY <1>1, <1>2, <2>2, OthersWait, RequestKept
  <2> QED
    BY <2>1, <2>2
<1>6. \A b \in Browsers : CookieFine(b)'
  BY <1>1, <1>2, CookiesFine
<1>7. CompletedByItsOwner'
  BY <1>1, <1>2, UploadsFine
<1> QED
  BY <1>3, <1>4, <1>5, <1>6, <1>7 DEF IInv

\* So does the clock.
LEMMA ClockInvariant ==
  ASSUME IInv, Tick
  PROVE  IInv'
<1>1. /\ TypeOK /\ CompletedByItsOwner
      /\ \A k \in Tokens : SessionFine(k)
      /\ \A g \in Requests : RequestFine(g)
      /\ \A b \in Browsers : CookieFine(b)
      /\ user' = user /\ session' = session /\ jar' = jar /\ req' = req /\ upload' = upload
  BY DEF IInv, Tick
<1>2. Grows
  BY <1>1, ClockGrows
<1>3. TypeOK'
  BY <1>1 DEF TypeOK, Tick
<1>4. \A g \in Requests : RequestFine(g)'
  BY <1>1, <1>2, RequestKept
<1>5. \A k \in Tokens : SessionFine(k)'
  BY <1>1 DEF SessionFine
<1>6. \A b \in Browsers : CookieFine(b)'
  BY <1>1 DEF CookieFine
<1>7. CompletedByItsOwner'
  BY <1>1 DEF CompletedByItsOwner
<1> QED
  BY <1>3, <1>4, <1>5, <1>6, <1>7 DEF IInv

\* A step that changes nothing keeps it.
LEMMA StutterInvariant ==
  ASSUME IInv, UNCHANGED vars
  PROVE  IInv'
BY DEF IInv, vars, TypeOK, SessionFine, RequestFine, CookieFine, CompletedByItsOwner, Ended

\* The invariant holds in every state of every behaviour.
THEOREM Invariance == Spec => []IInv
<1>1. Init => IInv
  BY InitInvariant
<1>2. IInv /\ [Next]_vars => IInv'
  BY NextSplits, HandlerInvariant, ClockInvariant, StutterInvariant
<1> QED
  BY <1>1, <1>2, PTL DEF Spec

\* Rows, cookies and local states keep their types.
THEOREM TypeCorrect == Spec => []TypeOK
<1>1. IInv => TypeOK
  BY DEF IInv
<1> QED
  BY <1>1, Invariance, PTL

\* A session belongs to an account whose password its opener gave.
THEOREM SessionsCorrect == Spec => []SessionsNeedPassword
<1>1. IInv => SessionsNeedPassword
  BY DEF IInv, SessionFine, SessionsNeedPassword
<1> QED
  BY <1>1, Invariance, PTL

\* A request whose cookie had ended when it arrived acts for nobody.
THEOREM LateCorrect == Spec => []LateActsForNobody
<1>1. IInv => LateActsForNobody
  BY DEF IInv, RequestFine, LateActsForNobody
<1> QED
  BY <1>1, Invariance, PTL

\* The upload of a user is completed by a session of that user.
THEOREM OwnersCorrect == Spec => []CompletedByItsOwner
<1>1. IInv => CompletedByItsOwner
  BY DEF IInv
<1> QED
  BY <1>1, Invariance, PTL

=============================================================================
