---------------------------- MODULE UploadFlowProofs ----------------------------
(***************************************************************************)
(* Proofs about UploadFlow, for any shipments, sessions, files, handlers   *)
(* and workers: types, that a file that may be downloaded has its object,  *)
(* that all answers for a session agree, and that a completed session      *)
(* names its file.  The argument follows a session: until it is there,     *)
(* only the handler that opened its upload knows it; its row is completed  *)
(* once, with the file; and an object goes only when a file with its key   *)
(* belongs to a shipment that is deleted, and stays so.                    *)
(***************************************************************************)
EXTENDS UploadFlow, TLAPS

Gone == {"deleted", "purged"}

SessionFine(u) ==
  /\ session[u].status = "none" => session[u].ship = None /\ upload[u] # "done"
  /\ session[u].status # "none" => upload[u] # "none"
  /\ session[u].status # "completed" => session[u].file = None /\ answers[u] = {}
  /\ session[u].ship # None => status[session[u].ship] \in Stored
  /\ session[u].status = "completed" /\ session[u].ship # None =>
       /\ session[u].file \in Files /\ file[session[u].file].status = "completed"
       /\ file[session[u].file].key = u /\ file[session[u].file].ship = session[u].ship

\* An object that is missing belonged to a file of a shipment that is gone.
ObjectFine(u) ==
  upload[u] = "done" =>
    \/ u \in object
    \/ \E f \in Files : /\ file[f].status # "none" /\ file[f].key = u
                        /\ status[file[f].ship] \in Gone

FileFine(f) ==
  /\ file[f].status # "none" => session[file[f].key].status = "completed"
  /\ file[f].status = "completed" =>
       /\ session[file[f].key].file = f /\ session[file[f].key].ship = file[f].ship
       /\ upload[file[f].key] = "done"
  /\ file[f].status = "purged" => session[file[f].key].ship = None

AnswersFine(u) ==
  /\ \A f, g \in answers[u] : f = g
  /\ session[u].file # None => answers[u] \subseteq {session[u].file}

\* Nobody else knows the upload yet.
CreatorFine(c) ==
  creator[c].pc = "opened" =>
    /\ session[creator[c].key].status = "none" /\ upload[creator[c].key] = "open"
    /\ \A d \in Creators : creator[d].pc = "opened" /\ creator[d].key = creator[c].key => d = c

\* What a handler has read of the session has not changed, or the shipment is purged.
CompleterFine(h) ==
  /\ completer[h].pc # "idle" => session[completer[h].key].status # "none"
  /\ completer[h].pc \in {"read", "stored"} =>
       IF session[completer[h].key].ship = None
         THEN status[completer[h].ship] = "purged"
         ELSE session[completer[h].key].ship = completer[h].ship
  /\ completer[h].pc = "stored" => upload[completer[h].key] = "done"

\* What a handler is about to answer is what the row and the other answers say.
AnswerFine(h) ==
  completer[h].pc = "committed" =>
    /\ session[completer[h].key].status = "completed"
    /\ session[completer[h].key].file \in {None, completer[h].file}
    /\ answers[completer[h].key] \subseteq {completer[h].file}
    /\ \A k \in Completers : completer[k].pc = "committed" /\ completer[k].key = completer[h].key
                               => completer[k].file = completer[h].file

WorkerFine(w) ==
  /\ worker[w].pc # "idle" => status[worker[w].ship] \in Gone
  /\ worker[w].pc = "deleting" =>
       \A u \in worker[w].keys :
         \E f \in Files : file[f].status # "none" /\ file[f].key = u /\ file[f].ship = worker[w].ship

IInv ==
  /\ TypeOK
  /\ \A u \in Sessions : SessionFine(u) /\ ObjectFine(u) /\ AnswersFine(u)
  /\ \A f \in Files : FileFine(f)
  /\ \A c \in Creators : CreatorFine(c)
  /\ \A h \in Completers : CompleterFine(h) /\ AnswerFine(h)
  /\ \A w \in Workers : WorkerFine(w)

\* What may become of the status of a shipment, but for the purge.
Moves ==
  \A s \in Shipments :
    /\ status[s] \in Stored => status'[s] \in Stored
    /\ status[s] = "deleted" => status'[s] = "deleted"
    /\ status[s] = "purged" => status'[s] = "purged"

----------------------------------------------------------------------------
(* Types. *)

\* The idle states, and the values of a row, are well typed.
LEMMA IdleTypes ==
  /\ IdleCreator \in CreatorState /\ IdleCompleter \in CompleterState
  /\ IdleFinalizer \in FinalizerState /\ IdleWorker \in WorkerState
  /\ IdleCreator.pc = "idle" /\ IdleCompleter.pc = "idle" /\ IdleWorker.pc = "idle"
  /\ Some(Shipments) \in Shipments /\ Some(Sessions) \in Sessions /\ Some(Files) \in Files
<1>1. Some(Shipments) \in Shipments /\ Some(Sessions) \in Sessions /\ Some(Files) \in Files
  BY ConstantsAssumption DEF Some
<1> QED
  BY <1>1 DEF IdleCreator, IdleCompleter, IdleFinalizer, IdleWorker,
              CreatorState, CompleterState, FinalizerState, WorkerState

\* The fields of rows.
LEMMA RowTypes ==
  ASSUME TypeOK
  PROVE  /\ status \in [Shipments -> Stored \cup {"none", "purged"}]
         /\ \A u \in Sessions :
              /\ session[u] \in SessionRow
              /\ session[u].status \in {"none", "uploading", "completed"}
              /\ session[u].ship \in Shipments \cup {None}
              /\ session[u].file \in Files \cup {None}
              /\ upload[u] \in {"none", "open", "done"}
              /\ answers[u] \subseteq Files
         /\ \A f \in Files :
              /\ file[f] \in FileRow /\ file[f].status \in {"none", "completed", "purged"}
              /\ file[f].key \in Sessions /\ file[f].ship \in Shipments
BY DEF TypeOK, SessionRow, FileRow

\* The fields of local states.
LEMMA LocalTypes ==
  ASSUME TypeOK
  PROVE  /\ \A c \in Creators :
              /\ creator[c] \in CreatorState /\ creator[c].key \in Sessions
              /\ creator[c].ship \in Shipments
         /\ \A h \in Completers :
              /\ completer[h] \in CompleterState /\ completer[h].key \in Sessions
              /\ completer[h].pc \in {"idle", "read", "stored", "committed"}
              /\ completer[h].ship \in Shipments /\ completer[h].file \in Files
         /\ \A w \in Workers :
              /\ worker[w] \in WorkerState /\ worker[w].ship \in Shipments
              /\ worker[w].pc \in {"idle", "list", "deleting"}
              /\ worker[w].keys \subseteq Sessions
BY DEF TypeOK, CreatorState, CompleterState, WorkerState

\* Opening a session keeps the types.
LEMMA CreateTypes ==
  ASSUME TypeOK, CreateStep
  PROVE  TypeOK'
<1>0. PICK c \in Creators : \/ \E s \in Shipments : CreateShipment(c, s) \/ ValidateExistingShipment(c, s)
                            \/ \E u \in Sessions : CreateMultipartUpload(c, u)
                            \/ InsertUploadSession(c) \/ AbandonCreate(c)
  BY DEF CreateStep
<1>1. ASSUME NEW s \in Shipments
      PROVE  [IdleCreator EXCEPT !.pc = "validated", !.ship = s] \in CreatorState
  BY IdleTypes DEF CreatorState
<1>2. ASSUME NEW s \in Shipments, CreateShipment(c, s) \/ ValidateExistingShipment(c, s)
      PROVE  TypeOK'
  <2>1. creator' \in [Creators -> CreatorState]
    BY <1>1, <1>2 DEF CreateShipment, ValidateExistingShipment, TypeOK
  <2>2. status' \in [Shipments -> Stored \cup {"none", "purged"}]
    BY <1>2 DEF CreateShipment, ValidateExistingShipment, TypeOK, Stored, Open
  <2>3. UNCHANGED <<due, session, upload, object, file, answers, completer, finalizer, worker>>
    BY <1>2 DEF CreateShipment, ValidateExistingShipment
  <2> QED
    BY <2>1, <2>2, <2>3 DEF TypeOK
<1>3. ASSUME NEW u \in Sessions, CreateMultipartUpload(c, u)
      PROVE  TypeOK'
  <2>1. creator' \in [Creators -> CreatorState]
    <3>1. creator' = [creator EXCEPT ![c] = [creator[c] EXCEPT !.pc = "opened", !.key = u]]
      BY <1>3 DEF CreateMultipartUpload
    <3>2. [creator[c] EXCEPT !.pc = "opened", !.key = u] \in CreatorState
      BY LocalTypes DEF CreatorState
    <3> QED
      BY <3>1, <3>2 DEF TypeOK
  <2>2. upload' \in [Sessions -> {"none", "open", "done"}]
    BY <1>3 DEF CreateMultipartUpload, TypeOK
  <2> QED
    BY <1>3, <2>1, <2>2 DEF CreateMultipartUpload, TypeOK
<1>4. CASE InsertUploadSession(c)
  <2>1. [status |-> "uploading", ship |-> creator[c].ship, file |-> None] \in SessionRow
    BY LocalTypes DEF SessionRow
  <2> QED
    BY <1>4, <2>1, IdleTypes DEF InsertUploadSession, TypeOK
<1>5. CASE AbandonCreate(c)
  BY <1>5, IdleTypes DEF AbandonCreate, TypeOK
<1> QED
  BY <1>0, <1>2, <1>3, <1>4, <1>5

\* So does completing one.
LEMMA CompleteTypes ==
  ASSUME TypeOK, CompleteStep
  PROVE  TypeOK'
<1>0. PICK h \in Completers : \/ \E u \in Sessions : ReplayComplete(h, u) \/ ReadSession(h, u)
                              \/ CompleteMultipartUpload(h)
                              \/ \E f \in Files : CreateFileAndMarkUploadCompleted(h, f)
                              \/ AnswerComplete(h) \/ AbandonComplete(h)
  BY DEF CompleteStep
<1> DEFINE u0 == completer[h].key
<1>1. u0 \in Sessions /\ completer[h].file \in Files /\ completer[h].ship \in Shipments
  BY LocalTypes
<1>2. ASSUME NEW u \in Sessions, ReplayComplete(h, u)
      PROVE  TypeOK'
  <2>1. session[u].file \in Files
    BY <1>2, RowTypes DEF ReplayComplete
  <2> QED
    BY <1>2, <2>1 DEF ReplayComplete, TypeOK
<1>3. ASSUME NEW u \in Sessions, ReadSession(h, u)
      PROVE  TypeOK'
  <2>1. session[u].ship \in Shipments
    BY <1>3, RowTypes DEF ReadSession
  <2>2. [IdleCompleter EXCEPT !.pc = "read", !.key = u, !.ship = session[u].ship] \in CompleterState
    BY <2>1, IdleTypes DEF CompleterState
  <2>3. completer' \in [Completers -> CompleterState]
    BY <1>3, <2>2 DEF ReadSession, TypeOK
  <2>4. UNCHANGED <<status, due, session, upload, object, file, answers, creator, finalizer, worker>>
    BY <1>3 DEF ReadSession
  <2> QED
    BY <2>3, <2>4 DEF TypeOK
<1>4. CASE CompleteMultipartUpload(h)
  <2>1. completer' \in [Completers -> CompleterState]
    <3>1. completer' = [completer EXCEPT ![h] = [completer[h] EXCEPT !.pc = "stored"]]
      BY <1>4 DEF CompleteMultipartUpload
    <3>2. [completer[h] EXCEPT !.pc = "stored"] \in CompleterState
      BY LocalTypes DEF CompleterState
    <3> QED
      BY <3>1, <3>2 DEF TypeOK
  <2>2. upload' \in [Sessions -> {"none", "open", "done"}] /\ object' \subseteq Sessions
    BY <1>1, <1>4 DEF CompleteMultipartUpload, TypeOK
  <2> QED
    BY <1>4, <2>1, <2>2 DEF CompleteMultipartUpload, TypeOK
<1>5. ASSUME NEW f \in Files, CreateFileAndMarkUploadCompleted(h, f)
      PROVE  TypeOK'
  <2>1. file' \in [Files -> FileRow]
    <3>1. [status |-> "completed", key |-> u0, ship |-> completer[h].ship] \in FileRow
      BY <1>1 DEF FileRow
    <3> QED
      BY <1>5, <3>1 DEF CreateFileAndMarkUploadCompleted, InsertFile, TypeOK
  <2>2. session' \in [Sessions -> SessionRow]
    <3>1. session' = [session EXCEPT ![u0].status = "completed", ![u0].file = f]
      BY <1>5 DEF CreateFileAndMarkUploadCompleted
    <3>2. session \in [Sessions -> SessionRow] /\ session[u0] \in SessionRow
      BY <1>1 DEF TypeOK
    <3> HIDE DEF u0
    <3> QED
      BY <3>1, <3>2 DEF SessionRow
  <2>3. completer' \in [Completers -> CompleterState]
    <3>1. completer[h] \in CompleterState
      BY LocalTypes
    <3>2. [completer[h] EXCEPT !.pc = "committed", !.file = f] \in CompleterState
      BY <3>1 DEF CompleterState
    <3>3. completer' = [completer EXCEPT ![h] = [completer[h] EXCEPT !.pc = "committed", !.file = f]]
      BY <1>5 DEF CreateFileAndMarkUploadCompleted
    <3> QED
      BY <3>2, <3>3 DEF TypeOK
  <2> QED
    BY <1>5, <2>1, <2>2, <2>3 DEF CreateFileAndMarkUploadCompleted, TypeOK
<1>6. CASE AnswerComplete(h)
  BY <1>1, <1>6, IdleTypes DEF AnswerComplete, TypeOK
<1>7. CASE AbandonComplete(h)
  BY <1>7, IdleTypes DEF AbandonComplete, TypeOK
<1> QED
  BY <1>0, <1>2, <1>3, <1>4, <1>5, <1>6, <1>7

\* So do the owner and the clock.
LEMMA OwnerTypes ==
  ASSUME TypeOK, OwnerStep
  PROVE  TypeOK'
<1>1. ASSUME NEW z \in Finalizers, NEW s \in Shipments, ReadFiles(z, s)
      PROVE  TypeOK'
  <2>1. PICK F \in SUBSET FilesOf(s) :
          finalizer' = [finalizer EXCEPT ![z] = [pc |-> "read", ship |-> s, files |-> F]]
    BY <1>1 DEF ReadFiles
  <2>2. [pc |-> "read", ship |-> s, files |-> F] \in FinalizerState
    BY DEF FinalizerState, FilesOf
  <2> QED
    BY <1>1, <2>1, <2>2 DEF ReadFiles, TypeOK
<1>2. ASSUME NEW z \in Finalizers, FinalizeShipment(z) \/ AbandonFinalize(z)
      PROVE  TypeOK'
  BY <1>2, IdleTypes DEF FinalizeShipment, AbandonFinalize, TypeOK, Stored, Shared
<1>3. ASSUME NEW s \in Shipments, DeleteShipment(s) \/ MarkShipmentExpired(s) \/ GracePassed(s)
      PROVE  TypeOK'
  BY <1>3 DEF DeleteShipment, MarkShipmentExpired, GracePassed, TypeOK, Stored
<1> QED
  BY <1>1, <1>2, <1>3 DEF OwnerStep

\* So does a cleanup run.
LEMMA CleanupTypes ==
  ASSUME TypeOK, CleanupStep
  PROVE  TypeOK'
<1>0. PICK w \in Workers : \/ \E s \in Shipments : ListDeletedShipments(w, s)
                           \/ GetFilesByShipmentID(w)
                           \/ \E u \in Sessions : DeleteObject(w, u)
                           \/ DeleteShipmentCascade(w) \/ AbandonCleanup(w)
  BY DEF CleanupStep
<1>1. ASSUME NEW s \in Shipments, ListDeletedShipments(w, s)
      PROVE  TypeOK'
  <2>1. [pc |-> "list", ship |-> s, keys |-> {}] \in WorkerState
    BY DEF WorkerState
  <2> QED
    BY <1>1, <2>1 DEF ListDeletedShipments, TypeOK
<1>2. CASE GetFilesByShipmentID(w)
  <2>1. {file[f].key : f \in FilesOf(worker[w].ship)} \subseteq Sessions
    BY RowTypes DEF FilesOf
  <2>2. worker' \in [Workers -> WorkerState]
    <3> DEFINE K == {file[f].key : f \in FilesOf(worker[w].ship)}
    <3>1. worker' = [worker EXCEPT ![w] = [worker[w] EXCEPT !.pc = "deleting", !.keys = K]]
      BY <1>2 DEF GetFilesByShipmentID
    <3>2. worker[w] \in WorkerState
      BY LocalTypes
    <3> HIDE DEF K
    <3>3. [worker[w] EXCEPT !.pc = "deleting", !.keys = K] \in WorkerState
      BY <2>1, <3>2 DEF WorkerState, K
    <3> QED
      BY <3>1, <3>3 DEF TypeOK
  <2> QED
    BY <1>2, <2>2 DEF GetFilesByShipmentID, TypeOK
<1>3. ASSUME NEW u \in Sessions, DeleteObject(w, u)
      PROVE  TypeOK'
  <2>1. worker' \in [Workers -> WorkerState]
    <3>1. worker' = [worker EXCEPT ![w] = [worker[w] EXCEPT !.keys = @ \ {u}]]
      BY <1>3 DEF DeleteObject
    <3>2. worker[w] \in WorkerState
      BY LocalTypes
    <3>3. [worker[w] EXCEPT !.keys = @ \ {u}] \in WorkerState
      BY <3>2 DEF WorkerState
    <3> QED
      BY <3>1, <3>3 DEF TypeOK
  <2>2. /\ object' \subseteq object
        /\ UNCHANGED <<status, due, session, upload, file, answers, creator, completer, finalizer>>
    BY <1>3 DEF DeleteObject
  <2> QED
    BY <2>1, <2>2 DEF TypeOK
<1>4. CASE DeleteShipmentCascade(w)
  <2>1. file' \in [Files -> FileRow]
    <3>1. ASSUME NEW f \in Files
          PROVE  [file[f] EXCEPT !.status = "purged"] \in FileRow
      BY RowTypes DEF FileRow
    <3> QED
      BY <1>4, <3>1 DEF DeleteShipmentCascade, TypeOK
  <2>2. session' \in [Sessions -> SessionRow]
    <3> DEFINE s         == worker[w].ship
               Cleared(u) == [session[u] EXCEPT !.ship = IF session[u].ship = s THEN None ELSE @,
                                                !.file = IF session[u].file \in FilesOf(s) THEN None ELSE @]
    <3>1. session' = [u \in Sessions |-> Cleared(u)]
      BY <1>4 DEF DeleteShipmentCascade
    <3>2. ASSUME NEW u \in Sessions
          PROVE  Cleared(u) \in SessionRow
      <4>1. session[u] \in SessionRow
        BY RowTypes
      <4> HIDE DEF s
      <4> QED
        BY <4>1 DEF SessionRow
    <3> HIDE DEF Cleared
    <3> QED
      BY <3>1, <3>2
  <2>3. status' \in [Shipments -> Stored \cup {"none", "purged"}]
    BY <1>4, LocalTypes DEF DeleteShipmentCascade, TypeOK
  <2> QED
    BY <1>4, <2>1, <2>2, <2>3, IdleTypes DEF DeleteShipmentCascade, TypeOK
<1>5. CASE AbandonCleanup(w)
  BY <1>5, IdleTypes DEF AbandonCleanup, TypeOK
<1> QED
  BY <1>0, <1>1, <1>2, <1>3, <1>4, <1>5

----------------------------------------------------------------------------
(* Steps that leave files, sessions and objects alone. *)

\* Rows and objects stay fine while statuses move.
LEMMA DataKept ==
  ASSUME IInv, Moves, UNCHANGED <<session, upload, object, file, answers>>
  PROVE  /\ \A u \in Sessions : SessionFine(u)' /\ ObjectFine(u)' /\ AnswersFine(u)'
         /\ \A f \in Files : FileFine(f)'
<1>1. /\ TypeOK /\ \A u \in Sessions : SessionFine(u) /\ ObjectFine(u) /\ AnswersFine(u)
      /\ \A f \in Files : FileFine(f)
  BY DEF IInv
<1>2. ASSUME NEW u \in Sessions
      PROVE  SessionFine(u)' /\ ObjectFine(u)' /\ AnswersFine(u)'
  <2>1. SessionFine(u)'
    BY <1>1, RowTypes DEF SessionFine, Moves
  <2>2. ObjectFine(u)'
    BY <1>1, RowTypes DEF ObjectFine, Moves, Gone
  <2>3. AnswersFine(u)'
    BY <1>1 DEF AnswersFine
  <2> QED
    BY <2>1, <2>2, <2>3
<1>3. ASSUME NEW f \in Files
      PROVE  FileFine(f)'
  BY <1>1 DEF FileFine
<1> QED
  BY <1>2, <1>3

\* Handlers that open a session, and do not move to or in "opened".
LEMMA CreatorKept ==
  ASSUME IInv, UNCHANGED <<session, upload>>,
         \A c \in Creators : creator'[c] = creator[c] \/ creator'[c].pc # "opened"
  PROVE  \A c \in Creators : CreatorFine(c)'
BY DEF IInv, CreatorFine

\* Nor when sessions that are not there stay so.
LEMMA CreatorStays ==
  ASSUME IInv, UNCHANGED <<upload, creator>>,
         \A u \in Sessions : session[u].status = "none" => session'[u].status = "none"
  PROVE  \A c \in Creators : CreatorFine(c)'
<1> TAKE c \in Creators
<1>1. CreatorFine(c) /\ creator[c].key \in Sessions
  BY LocalTypes DEF IInv
<1> QED
  BY <1>1 DEF CreatorFine

\* Handlers that complete one, and only give up.
LEMMA CompleterKept ==
  ASSUME IInv, Moves, UNCHANGED <<session, upload, answers>>,
         \A h \in Completers : completer'[h] = completer[h] \/ completer'[h].pc = "idle"
  PROVE  \A h \in Completers : CompleterFine(h)' /\ AnswerFine(h)'
<1> TAKE h \in Completers
<1>1. CompleterFine(h) /\ AnswerFine(h) /\ completer[h].ship \in Shipments
  BY LocalTypes DEF IInv
<1>2. CompleterFine(h)'
  BY <1>1 DEF CompleterFine, Moves
<1>3. AnswerFine(h)'
  BY <1>1 DEF AnswerFine
<1> QED
  BY <1>2, <1>3

\* Workers that are not at work, or at the same.
LEMMA WorkerKept ==
  ASSUME IInv, Moves, UNCHANGED file,
         \A w \in Workers : worker'[w] = worker[w] \/ WorkerFine(w)'
  PROVE  \A w \in Workers : WorkerFine(w)'
<1> TAKE w \in Workers
<1>1. WorkerFine(w) /\ worker[w].ship \in Shipments
  BY LocalTypes DEF IInv
<1> QED
  BY <1>1 DEF WorkerFine, Moves, Gone

\* So a quiet step keeps all of it.
LEMMA QuietInvariant ==
  ASSUME IInv, TypeOK', Moves, UNCHANGED <<session, upload, object, file, answers>>,
         \A c \in Creators : creator'[c] = creator[c] \/ creator'[c].pc # "opened",
         \A h \in Completers : completer'[h] = completer[h] \/ completer'[h].pc = "idle",
         \A w \in Workers : worker'[w] = worker[w] \/ WorkerFine(w)'
  PROVE  IInv'
<1>1. /\ \A u \in Sessions : SessionFine(u)' /\ ObjectFine(u)' /\ AnswersFine(u)'
      /\ \A f \in Files : FileFine(f)'
  BY DataKept
<1>2. \A c \in Creators : CreatorFine(c)'
  BY CreatorKept
<1>3. \A h \in Completers : CompleterFine(h)' /\ AnswerFine(h)'
  BY CompleterKept
<1>4. \A w \in Workers : WorkerFine(w)'
  BY WorkerKept
<1> QED
  BY <1>1, <1>2, <1>3, <1>4 DEF IInv

\* Nothing moves when no status changes.
LEMMA NoMove ==
  ASSUME UNCHANGED status
  PROVE  Moves
BY DEF Moves

----------------------------------------------------------------------------
(* Opening a session. *)

\* A new upload is known to its handler alone.
LEMMA UploadInvariant ==
  ASSUME IInv, TypeOK', NEW c \in Creators, NEW u \in Sessions, CreateMultipartUpload(c, u)
  PROVE  IInv'
<1>1. /\ TypeOK /\ upload[u] = "none" /\ upload' = [upload EXCEPT ![u] = "open"]
      /\ creator' = [creator EXCEPT ![c].pc = "opened", ![c].key = u]
      /\ UNCHANGED <<status, session, object, file, answers, completer, worker>>
  BY DEF IInv, CreateMultipartUpload
<1>2. /\ upload'[u] = "open" /\ \A v \in Sessions : v # u => upload'[v] = upload[v]
      /\ creator'[c].pc = "opened" /\ creator'[c].key = u
      /\ \A d \in Creators : d # c => creator'[d] = creator[d]
  BY <1>1 DEF TypeOK, CreatorState
<1>3. session[u].status = "none"
  BY <1>1 DEF IInv, SessionFine
<1>4. ASSUME NEW v \in Sessions
      PROVE  SessionFine(v)' /\ ObjectFine(v)' /\ AnswersFine(v)'
  <2>1. SessionFine(v) /\ ObjectFine(v) /\ AnswersFine(v)
    BY DEF IInv
  <2>2. SessionFine(v)'
    BY <1>1, <1>2, <2>1 DEF SessionFine
  <2>3. ObjectFine(v)'
    BY <1>1, <1>2, <2>1 DEF ObjectFine
  <2>4. AnswersFine(v)'
    BY <1>1, <2>1 DEF AnswersFine
  <2> QED
    BY <2>2, <2>3, <2>4
<1>5. ASSUME NEW f \in Files
      PROVE  FileFine(f)'
  BY <1>1, <1>2, RowTypes DEF IInv, FileFine
<1>6. ASSUME NEW d \in Creators
      PROVE  CreatorFine(d)'
  <2>1. \A e \in Creators : creator[e].pc = "opened" => creator[e].key # u
    BY <1>1 DEF IInv, CreatorFine
  <2>2. CASE d = c
    <3>1. \A e \in Creators : creator'[e].pc = "opened" /\ creator'[e].key = u => e = c
      BY <1>2, <2>1
    <3>2. session'[u].status = "none"
      BY <1>1, <1>3
    <3> QED
      BY <1>2, <2>2, <3>1, <3>2 DEF CreatorFine
  <2>3. CASE d # c
    <3>1. CreatorFine(d) /\ creator[d].key \in Sessions /\ creator'[d] = creator[d]
      BY <1>1, <1>2, <2>3, LocalTypes DEF IInv
    <3>2. ASSUME creator[d].pc = "opened"
          PROVE  /\ creator[d].key # u /\ upload'[creator[d].key] = "open"
                 /\ session'[creator[d].key].status = "none"
      BY <1>1, <1>2, <2>1, <3>1, <3>2 DEF CreatorFine
    <3>3. ASSUME creator[d].pc = "opened", NEW e \in Creators,
                 creator'[e].pc = "opened", creator'[e].key = creator[d].key
          PROVE  e = d
      BY <1>2, <3>1, <3>2, <3>3 DEF CreatorFine
    <3> QED
      BY <3>1, <3>2, <3>3 DEF CreatorFine
  <2> QED
    BY <2>2, <2>3
<1>7. ASSUME NEW h \in Completers
      PROVE  CompleterFine(h)' /\ AnswerFine(h)'
  <2>1. CompleterFine(h) /\ AnswerFine(h) /\ completer[h].key \in Sessions
    BY <1>1, LocalTypes DEF IInv
  <2>2. CompleterFine(h)'
    BY <1>1, <1>2, <2>1 DEF CompleterFine
  <2>3. AnswerFine(h)'
    BY <1>1, <2>1 DEF AnswerFine
  <2> QED
    BY <2>2, <2>3
<1>8. \A w \in Workers : WorkerFine(w)'
  BY <1>1, NoMove, WorkerKept
<1> QED
  BY <1>4, <1>5, <1>6, <1>7, <1>8 DEF IInv

\* The row of a session comes to one that nobody has seen.
LEMMA InsertInvariant ==
  ASSUME IInv, TypeOK', NEW c \in Creators, InsertUploadSession(c)
  PROVE  IInv'
<1> DEFINE u == creator[c].key
           s == creator[c].ship
<1>1. /\ TypeOK /\ creator[c].pc = "opened" /\ status[s] \in Stored
      /\ session' = [session EXCEPT ![u] = [status |-> "uploading", ship |-> s, file |-> None]]
      /\ creator' = [creator EXCEPT ![c] = IdleCreator]
      /\ UNCHANGED <<status, upload, object, file, answers, completer, worker>>
  BY DEF IInv, InsertUploadSession
<1>2. /\ u \in Sessions /\ s \in Shipments /\ s # None
      /\ session[u].status = "none" /\ upload[u] = "open"
      /\ \A d \in Creators : creator[d].pc = "opened" /\ creator[d].key = u => d = c
  BY <1>1, LocalTypes, ConstantsAssumption DEF IInv, CreatorFine
<1>3. /\ session'[u].status = "uploading" /\ session'[u].ship = s /\ session'[u].file = None
      /\ \A v \in Sessions : v # u => session'[v] = session[v]
      /\ creator'[c].pc = "idle" /\ \A d \in Creators : d # c => creator'[d] = creator[d]
  BY <1>1, <1>2, IdleTypes DEF TypeOK
<1> HIDE DEF u, s
<1>4. ASSUME NEW v \in Sessions
      PROVE  SessionFine(v)' /\ ObjectFine(v)' /\ AnswersFine(v)'
  <2>1. SessionFine(v) /\ ObjectFine(v) /\ AnswersFine(v)
    BY DEF IInv
  <2>2. SessionFine(v)'
    BY <1>1, <1>2, <1>3, <2>1 DEF SessionFine
  <2>3. ObjectFine(v)'
    BY <1>1, <2>1 DEF ObjectFine
  <2>4. AnswersFine(v)'
    BY <1>1, <1>3, <2>1 DEF AnswersFine
  <2> QED
    BY <2>2, <2>3, <2>4
<1>5. ASSUME NEW f \in Files
      PROVE  FileFine(f)'
  <2>1. file[f].status # "none" => file[f].key # u
    BY <1>2 DEF IInv, FileFine
  <2> QED
    BY <1>1, <1>3, <2>1, RowTypes DEF IInv, FileFine
<1>6. ASSUME NEW d \in Creators
      PROVE  CreatorFine(d)'
  BY <1>1, <1>2, <1>3, LocalTypes DEF IInv, CreatorFine
<1>7. ASSUME NEW h \in Completers
      PROVE  CompleterFine(h)' /\ AnswerFine(h)'
  <2>1. CompleterFine(h) /\ AnswerFine(h) /\ completer[h].key \in Sessions
    BY <1>1, LocalTypes DEF IInv
  <2>2. completer[h].pc # "idle" => completer[h].key # u
    BY <1>2, <2>1 DEF CompleterFine
  <2>3. CompleterFine(h)'
    BY <1>1, <1>3, <2>1, <2>2, LocalTypes DEF CompleterFine
  <2>4. AnswerFine(h)'
    BY <1>1, <1>3, <2>1, <2>2 DEF AnswerFine
  <2> QED
    BY <2>3, <2>4
<1>8. \A w \in Workers : WorkerFine(w)'
  BY <1>1, NoMove, WorkerKept
<1> QED
  BY <1>4, <1>5, <1>6, <1>7, <1>8 DEF IInv

----------------------------------------------------------------------------
(* Completing one. *)

\* An answer that says what the row, or the handler that wrote it, says.
LEMMA AnswerInvariant ==
  ASSUME IInv, TypeOK', NEW h \in Completers,
         (\E u \in Sessions : ReplayComplete(h, u)) \/ AnswerComplete(h)
  PROVE  IInv'
<1> DEFINE Says(u, f) ==
             /\ answers' = [answers EXCEPT ![u] = @ \cup {f}]
             /\ session[u].status = "completed" /\ session[u].file \in {None, f}
             /\ answers[u] \subseteq {f}
             /\ \A k \in Completers : completer[k].pc = "committed" /\ completer[k].key = u
                                        => completer[k].file = f
<1>0. \E u \in Sessions, f \in Files : Says(u, f)
  <2>1. ASSUME NEW u \in Sessions, ReplayComplete(h, u)
        PROVE  Says(u, session[u].file) /\ session[u].file \in Files
    <3>1. AnswersFine(u) /\ session[u].file \in Files /\ session[u].file # None
      BY <2>1, RowTypes DEF IInv, ReplayComplete
    <3>2. /\ answers' = [answers EXCEPT ![u] = @ \cup {session[u].file}]
          /\ session[u].status = "completed" /\ answers[u] \subseteq {session[u].file}
      BY <2>1, <3>1 DEF ReplayComplete, AnswersFine
    <3>3. \A k \in Completers : completer[k].pc = "committed" /\ completer[k].key = u
                                  => completer[k].file = session[u].file
      BY <3>1 DEF IInv, AnswerFine
    <3> QED
      BY <3>1, <3>2, <3>3
  <2>2. ASSUME AnswerComplete(h)
        PROVE  /\ Says(completer[h].key, completer[h].file)
               /\ completer[h].key \in Sessions /\ completer[h].file \in Files
    <3>1. completer[h].key \in Sessions /\ completer[h].file \in Files /\ AnswerFine(h)
      BY LocalTypes DEF IInv
    <3> QED
      BY <2>2, <3>1 DEF AnswerComplete, AnswerFine
  <2> HIDE DEF Says
  <2> QED
    BY <2>1, <2>2
<1>1. PICK u \in Sessions, f \in Files : Says(u, f)
  BY <1>0
<1>2. /\ UNCHANGED <<status, session, upload, object, file, creator, worker>>
      /\ \A k \in Completers : completer'[k] = completer[k] \/ completer'[k].pc = "idle"
  BY IdleTypes DEF ReplayComplete, AnswerComplete, IInv, TypeOK
<1>3. answers'[u] = answers[u] \cup {f} /\ \A v \in Sessions : v # u => answers'[v] = answers[v]
  BY <1>1 DEF IInv, TypeOK
<1>4. ASSUME NEW v \in Sessions
      PROVE  SessionFine(v)' /\ ObjectFine(v)' /\ AnswersFine(v)'
  <2>1. SessionFine(v) /\ ObjectFine(v) /\ AnswersFine(v)
    BY DEF IInv
  <2>2. SessionFine(v)'
    BY <1>1, <1>2, <1>3, <2>1 DEF SessionFine
  <2>3. ObjectFine(v)'
    BY <1>2, <2>1 DEF ObjectFine
  <2>4. AnswersFine(v)'
    <3>1. CASE v = u
      BY <1>1, <1>2, <1>3, <3>1 DEF AnswersFine
    <3>2. CASE v # u
      BY <1>2, <1>3, <2>1, <3>2 DEF AnswersFine
    <3> QED
      BY <3>1, <3>2
  <2> QED
    BY <2>2, <2>3, <2>4
<1>5. ASSUME NEW g \in Files
      PROVE  FileFine(g)'
  BY <1>2 DEF IInv, FileFine
<1>6. \A c \in Creators : CreatorFine(c)'
  BY <1>2, CreatorKept
<1>7. ASSUME NEW k \in Completers
      PROVE  CompleterFine(k)' /\ AnswerFine(k)'
  <2>1. CompleterFine(k) /\ AnswerFine(k) /\ completer[k].key \in Sessions
    BY LocalTypes DEF IInv
  <2>2. CompleterFine(k)'
    BY <1>2, <2>1 DEF CompleterFine
  <2>3. CASE completer'[k].pc = "idle"
    BY <2>2, <2>3 DEF AnswerFine
  <2>4. CASE completer'[k] = completer[k] /\ completer[k].pc = "committed"
    <3>1. answers'[completer[k].key] \subseteq {completer[k].file}
      BY <1>1, <1>3, <2>1, <2>4 DEF AnswerFine
    <3> QED
      BY <1>2, <2>1, <2>2, <2>4, <3>1 DEF AnswerFine
  <2>5. CASE completer'[k] = completer[k] /\ completer[k].pc # "committed"
    BY <2>2, <2>5 DEF AnswerFine
  <2> QED
    BY <1>2, <2>3, <2>4, <2>5
<1>8. \A w \in Workers : WorkerFine(w)'
  BY <1>2, NoMove, WorkerKept
<1> QED
  BY <1>4, <1>5, <1>6, <1>7, <1>8 DEF IInv

\* What is read is what the row says.
LEMMA ReadInvariant ==
  ASSUME IInv, TypeOK', NEW h \in Completers, NEW u \in Sessions, ReadSession(h, u)
  PROVE  IInv'
<1>1. /\ session[u].status = "uploading" /\ session[u].ship # None
      /\ completer' = [completer EXCEPT ![h] = [IdleCompleter EXCEPT
                         !.pc = "read", !.key = u, !.ship = session[u].ship]]
      /\ UNCHANGED <<status, session, upload, object, file, answers, creator, worker>>
  BY DEF ReadSession
<1>2. /\ completer'[h].pc = "read" /\ completer'[h].key = u /\ completer'[h].ship = session[u].ship
      /\ \A k \in Completers : k # h => completer'[k] = completer[k]
  BY <1>1, IdleTypes DEF IInv, TypeOK, CompleterState
<1>3. Moves
  BY <1>1, NoMove
<1>4. /\ \A v \in Sessions : SessionFine(v)' /\ ObjectFine(v)' /\ AnswersFine(v)'
      /\ \A f \in Files : FileFine(f)'
  BY <1>1, <1>3, DataKept
<1>5. ASSUME NEW k \in Completers
      PROVE  CompleterFine(k)' /\ AnswerFine(k)'
  <2>1. CASE k = h
    BY <1>1, <1>2, <2>1 DEF CompleterFine, AnswerFine
  <2>2. CASE k # h
    <3>1. CompleterFine(k) /\ AnswerFine(k)
      BY DEF IInv
    <3> QED
      BY <1>1, <1>2, <2>2, <3>1 DEF CompleterFine, AnswerFine
  <2> QED
    BY <2>1, <2>2
<1>6. (\A c \in Creators : CreatorFine(c)') /\ \A w \in Workers : WorkerFine(w)'
  BY <1>1, <1>3, CreatorKept, WorkerKept
<1> QED
  BY <1>4, <1>5, <1>6 DEF IInv

\* The object is there, or was.
LEMMA ObjectInvariant ==
  ASSUME IInv, TypeOK', NEW h \in Completers, CompleteMultipartUpload(h)
  PROVE  IInv'
<1> DEFINE u == completer[h].key
<1>1. /\ TypeOK /\ completer[h].pc = "read" /\ upload' = [upload EXCEPT ![u] = "done"]
      /\ upload[u] = "open" => object' = object \cup {u}
      /\ upload[u] # "open" => upload[u] = "done" /\ object' = object
      /\ completer' = [completer EXCEPT ![h].pc = "stored"]
      /\ UNCHANGED <<status, session, file, answers, creator, worker>>
  BY DEF IInv, CompleteMultipartUpload
<1>2. u \in Sessions /\ session[u].status # "none"
  BY <1>1, LocalTypes DEF IInv, CompleterFine
<1>3. /\ upload'[u] = "done" /\ \A v \in Sessions : v # u => upload'[v] = upload[v]
      /\ completer'[h].pc = "stored" /\ completer'[h].key = u
      /\ completer'[h].ship = completer[h].ship
      /\ \A k \in Completers : k # h => completer'[k] = completer[k]
  BY <1>1, <1>2 DEF TypeOK, CompleterState
<1> HIDE DEF u
<1>4. ASSUME NEW v \in Sessions
      PROVE  SessionFine(v)' /\ ObjectFine(v)' /\ AnswersFine(v)'
  <2>1. SessionFine(v) /\ ObjectFine(v) /\ AnswersFine(v)
    BY DEF IInv
  <2>2. SessionFine(v)'
    BY <1>1, <1>2, <1>3, <2>1 DEF SessionFine
  <2>3. ObjectFine(v)'
    BY <1>1, <1>3, <2>1 DEF ObjectFine
  <2>4. AnswersFine(v)'
    BY <1>1, <2>1 DEF AnswersFine
  <2> QED
    BY <2>2, <2>3, <2>4
<1>5. ASSUME NEW f \in Files
      PROVE  FileFine(f)'
  BY <1>1, <1>3, RowTypes DEF IInv, FileFine
<1>6. ASSUME NEW c \in Creators
      PROVE  CreatorFine(c)'
  BY <1>1, <1>2, <1>3, LocalTypes DEF IInv, CreatorFine
<1>7. ASSUME NEW k \in Completers
      PROVE  CompleterFine(k)' /\ AnswerFine(k)'
  <2>1. CompleterFine(k) /\ AnswerFine(k) /\ completer[k].key \in Sessions
    BY <1>1, LocalTypes DEF IInv
  <2>2. CASE k = h
    <3>1. completer[h].key = u
      BY DEF u
    <3>2. CompleterFine(k)'
      BY <1>1, <1>3, <2>1, <2>2, <3>1 DEF CompleterFine
    <3>3. AnswerFine(k)'
      BY <1>3, <2>2 DEF AnswerFine
    <3> QED
      BY <3>2, <3>3
  <2>3. CASE k # h
    <3>1. CompleterFine(k)'
      BY <1>1, <1>3, <2>1, <2>3 DEF CompleterFine
    <3>2. AnswerFine(k)'
      BY <1>1, <1>3, <2>1, <2>3 DEF AnswerFine
    <3> QED
      BY <3>1, <3>2
  <2> QED
    BY <2>2, <2>3
<1>8. \A w \in Workers : WorkerFine(w)'
  BY <1>1, NoMove, WorkerKept
<1> QED
  BY <1>4, <1>5, <1>6, <1>7, <1>8 DEF IInv

\* The file comes to a session that had none, of a shipment that is stored.
LEMMA FileInvariant ==
  ASSUME IInv, TypeOK', NEW h \in Completers, NEW f \in Files,
         CreateFileAndMarkUploadCompleted(h, f)
  PROVE  IInv'
<1> DEFINE u == completer[h].key
           s == completer[h].ship
<1>1. /\ TypeOK /\ completer[h].pc = "stored" /\ file[f].status = "none"
      /\ status[s] \in Stored /\ session[u].status # "completed"
      /\ file' = [file EXCEPT ![f] = [status |-> "completed", key |-> u, ship |-> s]]
      /\ session' = [session EXCEPT ![u].status = "completed", ![u].file = f]
      /\ completer' = [completer EXCEPT ![h].pc = "committed", ![h].file = f]
      /\ UNCHANGED <<status, upload, object, answers, creator, worker>>
  BY DEF IInv, CreateFileAndMarkUploadCompleted, FileAllowed, InsertFile
<1>2. /\ u \in Sessions /\ s \in Shipments /\ session[u].status # "none" /\ upload[u] = "done"
      /\ session[u].ship # None => session[u].ship = s
      /\ session[u].ship = None => status[s] = "purged"
  BY <1>1, LocalTypes DEF IInv, CompleterFine
<1>3. session[u].ship = s /\ s # None
  BY <1>1, <1>2, ConstantsAssumption DEF Stored, Open, Shared
<1>4. answers[u] = {} /\ session[u].file = None
  BY <1>1, <1>2 DEF IInv, SessionFine
<1>5. \A g \in Files : file[g].status # "none" => file[g].key # u /\ g # f
  BY <1>1 DEF IInv, FileFine
<1>6. \A k \in Completers : completer[k].pc = "committed" => completer[k].key # u
  BY <1>1 DEF IInv, AnswerFine
<1>7. /\ file'[f].status = "completed" /\ file'[f].key = u /\ file'[f].ship = s
      /\ \A g \in Files : g # f => file'[g] = file[g]
  BY <1>1 DEF TypeOK
<1>8. /\ session'[u].status = "completed" /\ session'[u].file = f /\ session'[u].ship = s
      /\ \A v \in Sessions : v # u => session'[v] = session[v]
  BY <1>1, <1>2, <1>3 DEF TypeOK, SessionRow
<1>9. /\ completer'[h].pc = "committed" /\ completer'[h].key = u /\ completer'[h].file = f
      /\ \A k \in Completers : k # h => completer'[k] = completer[k]
  BY <1>1 DEF TypeOK, CompleterState
<1> HIDE DEF u, s
<1>10. ASSUME NEW v \in Sessions
       PROVE  SessionFine(v)' /\ ObjectFine(v)' /\ AnswersFine(v)'
  <2>1. SessionFine(v) /\ ObjectFine(v) /\ AnswersFine(v)
    BY DEF IInv
  <2>2. SessionFine(v)'
    <3>1. CASE v = u
      BY <1>1, <1>2, <1>3, <1>7, <1>8, <2>1, <3>1 DEF SessionFine
    <3>2. CASE v # u
      <4>1. session'[v] = session[v]
        BY <1>8, <3>2
      <4>2. session[v].file \in Files /\ file[session[v].file].status = "completed"
              => file'[session[v].file] = file[session[v].file]
        BY <1>5, <1>7
      <4> QED
        BY <1>1, <2>1, <4>1, <4>2 DEF SessionFine
    <3> QED
      BY <3>1, <3>2
  <2>3. ObjectFine(v)'
    <3>1. ASSUME NEW g \in Files, file[g].status # "none"
          PROVE  file'[g] = file[g]
      BY <1>5, <1>7, <3>1
    <3> QED
      BY <1>1, <2>1, <3>1 DEF ObjectFine
  <2>4. AnswersFine(v)'
    BY <1>1, <1>4, <1>8, <2>1 DEF AnswersFine
  <2> QED
    BY <2>2, <2>3, <2>4
<1>11. ASSUME NEW g \in Files
       PROVE  FileFine(g)'
  <2>1. CASE g = f
    BY <1>1, <1>2, <1>7, <1>8, <2>1 DEF FileFine
  <2>2. CASE g # f
    <3>1. FileFine(g) /\ file'[g] = file[g] /\ file[g].key \in Sessions
      BY <1>1, <1>7, <2>2, RowTypes DEF IInv
    <3>2. file[g].status # "none" => session'[file[g].key] = session[file[g].key]
      BY <1>5, <1>8, <3>1
    <3>3. file[g].status \in {"none", "completed", "purged"}
      BY <1>1, RowTypes
    <3> QED
      BY <1>1, <3>1, <3>2, <3>3 DEF FileFine
  <2> QED
    BY <2>1, <2>2
<1>12. \A c \in Creators : CreatorFine(c)'
  BY <1>1, <1>2, <1>8, CreatorStays
<1>13. ASSUME NEW k \in Completers
       PROVE  CompleterFine(k)' /\ AnswerFine(k)'
  <2>1. CompleterFine(k) /\ AnswerFine(k) /\ completer[k].key \in Sessions
    BY <1>1, LocalTypes DEF IInv
  <2>2. CASE k = h
    <3>1. CompleterFine(k)'
      BY <1>8, <1>9, <2>2 DEF CompleterFine
    <3>2. AnswerFine(k)'
      <4>1. session'[u].status = "completed" /\ session'[u].file = f /\ answers'[u] = {}
        BY <1>1, <1>4, <1>8
      <4>2. \A j \in Completers :
              completer'[j].pc = "committed" /\ completer'[j].key = u => completer'[j].file = f
        BY <1>6, <1>9
      <4> QED
        BY <1>9, <2>2, <4>1, <4>2 DEF AnswerFine
    <3> QED
      BY <3>1, <3>2
  <2>3. CASE k # h
    <3>1. session'[completer[k].key].ship = session[completer[k].key].ship
      BY <1>3, <1>8, <2>1
    <3>2. CompleterFine(k)'
      <4>1. session[completer[k].key].status # "none" => session'[completer[k].key].status # "none"
        BY <1>8, <2>1
      <4>2. completer'[k] = completer[k]
        BY <1>9, <2>3
      <4> QED
        BY <1>1, <2>1, <3>1, <4>1, <4>2 DEF CompleterFine
    <3>3. AnswerFine(k)'
      <4> SUFFICES ASSUME completer[k].pc = "committed" PROVE AnswerFine(k)'
        BY <1>9, <2>3 DEF AnswerFine
      <4>1. completer[k].key # u /\ session'[completer[k].key] = session[completer[k].key]
        BY <1>6, <1>8, <2>1
      <4>2. \A j \in Completers :
              completer'[j].pc = "committed" /\ completer'[j].key = completer[k].key
                => completer'[j].file = completer[k].file
        BY <1>9, <2>1, <4>1 DEF AnswerFine
      <4> QED
        <5>1. answers' = answers /\ completer'[k] = completer[k]
          BY <1>1, <1>9, <2>3
        <5> QED
          BY <2>1, <4>1, <4>2, <5>1 DEF AnswerFine
    <3> QED
      BY <3>2, <3>3
  <2> QED
    BY <2>2, <2>3
<1>14. ASSUME NEW w \in Workers
       PROVE  WorkerFine(w)'
  <2>1. ASSUME NEW g \in Files, file[g].status # "none"
        PROVE  file'[g] = file[g]
    BY <1>5, <1>7, <2>1
  <2> QED
    BY <1>1, <2>1 DEF IInv, WorkerFine
<1> QED
  BY <1>10, <1>11, <1>12, <1>13, <1>14 DEF IInv

----------------------------------------------------------------------------
(* The purge. *)

\* Only an object of a shipment that is gone goes.
LEMMA DeleteInvariant ==
  ASSUME IInv, TypeOK', NEW w \in Workers, NEW u \in Sessions, DeleteObject(w, u)
  PROVE  IInv'
<1>1. /\ TypeOK /\ worker[w].pc = "deleting" /\ u \in worker[w].keys /\ object' = object \ {u}
      /\ worker' = [worker EXCEPT ![w].keys = @ \ {u}]
      /\ UNCHANGED <<status, session, upload, file, answers, creator, completer>>
  BY DEF IInv, DeleteObject
<1>2. /\ worker'[w].pc = "deleting" /\ worker'[w].ship = worker[w].ship
      /\ worker'[w].keys = worker[w].keys \ {u}
      /\ \A v \in Workers : v # w => worker'[v] = worker[v]
  BY <1>1 DEF TypeOK, WorkerState
<1>3. \E f \in Files : file[f].status # "none" /\ file[f].key = u /\ status[file[f].ship] \in Gone
  BY <1>1 DEF IInv, WorkerFine
<1>4. ASSUME NEW v \in Sessions
      PROVE  SessionFine(v)' /\ ObjectFine(v)' /\ AnswersFine(v)'
  <2>1. SessionFine(v) /\ ObjectFine(v) /\ AnswersFine(v)
    BY DEF IInv
  <2>2. SessionFine(v)' /\ AnswersFine(v)'
    BY <1>1, <2>1 DEF SessionFine, AnswersFine
  <2>3. ObjectFine(v)'
    BY <1>1, <1>3, <2>1 DEF ObjectFine
  <2> QED
    BY <2>2, <2>3
<1>5. ASSUME NEW f \in Files
      PROVE  FileFine(f)'
  BY <1>1 DEF IInv, FileFine
<1>6. Moves
  BY <1>1, NoMove
<1>7. (\A c \in Creators : CreatorFine(c)') /\ \A h \in Completers : CompleterFine(h)' /\ AnswerFine(h)'
  BY <1>1, <1>6, CreatorKept, CompleterKept
<1>8. WorkerFine(w)'
  BY <1>1, <1>2 DEF IInv, WorkerFine
<1>9. \A v \in Workers : WorkerFine(v)'
  BY <1>1, <1>2, <1>6, <1>8, WorkerKept
<1> QED
  BY <1>4, <1>5, <1>7, <1>9 DEF IInv

\* The cascade takes the files of a shipment, and its sessions lose their references.
LEMMA CascadeInvariant ==
  ASSUME IInv, TypeOK', NEW w \in Workers, DeleteShipmentCascade(w)
  PROVE  IInv'
<1> DEFINE s == worker[w].ship
<1>1. /\ TypeOK /\ worker[w].pc = "deleting"
      /\ status' = [status EXCEPT ![s] = "purged"]
      /\ file' = [f \in Files |-> IF f \in FilesOf(s) THEN [file[f] EXCEPT !.status = "purged"]
                                                      ELSE file[f]]
      /\ session' = [u \in Sessions |->
                       [session[u] EXCEPT
                          !.ship = IF session[u].ship = s THEN None ELSE @,
                          !.file = IF session[u].file \in FilesOf(s) THEN None ELSE @]]
      /\ worker' = [worker EXCEPT ![w] = IdleWorker]
      /\ UNCHANGED <<upload, object, answers, creator, completer>>
  BY DEF IInv, DeleteShipmentCascade
<1>2. s \in Shipments /\ s # None /\ status[s] \in Gone
  BY <1>1, LocalTypes, ConstantsAssumption DEF IInv, WorkerFine
<1>3. status'[s] = "purged" /\ \A t \in Shipments : t # s => status'[t] = status[t]
  BY <1>1, <1>2 DEF TypeOK
<1>4. ASSUME NEW f \in Files
      PROVE  /\ file'[f].key = file[f].key /\ file'[f].ship = file[f].ship
             /\ file'[f].status = IF file[f].status = "completed" /\ file[f].ship = s
                                    THEN "purged" ELSE file[f].status
  <2>1. file[f] \in FileRow /\ file'[f] = IF f \in FilesOf(s) THEN [file[f] EXCEPT !.status = "purged"]
                                                              ELSE file[f]
    BY <1>1, RowTypes
  <2>2. f \in FilesOf(s) <=> file[f].status = "completed" /\ file[f].ship = s
    BY DEF FilesOf
  <2> QED
    BY <2>1, <2>2 DEF FileRow
<1>5. ASSUME NEW u \in Sessions
      PROVE  /\ session'[u].status = session[u].status
             /\ session'[u].ship = IF session[u].ship = s THEN None ELSE session[u].ship
             /\ session'[u].file = IF session[u].file \in FilesOf(s) THEN None ELSE session[u].file
  <2>1. session[u] \in SessionRow
    BY <1>1, RowTypes
  <2>2. session'[u] = [session[u] EXCEPT
                         !.ship = IF session[u].ship = s THEN None ELSE @,
                         !.file = IF session[u].file \in FilesOf(s) THEN None ELSE @]
    BY <1>1
  <2> HIDE DEF s
  <2> QED
    BY <2>1, <2>2 DEF SessionRow
<1>6. worker'[w].pc = "idle" /\ \A v \in Workers : v # w => worker'[v] = worker[v]
  BY <1>1, IdleTypes DEF TypeOK
<1>7. \A f \in Files : f \in FilesOf(s) <=> file[f].status = "completed" /\ file[f].ship = s
  BY DEF FilesOf
<1>8. None \notin FilesOf(s)
  BY ConstantsAssumption DEF FilesOf
<1>9. \A t \in Shipments : status[t] \in Gone => status'[t] \in Gone
  BY <1>3 DEF Gone
<1> HIDE DEF s
<1>10. ASSUME NEW u \in Sessions
       PROVE  SessionFine(u)' /\ ObjectFine(u)' /\ AnswersFine(u)'
  <2>1. SessionFine(u) /\ ObjectFine(u) /\ AnswersFine(u) /\ session[u].ship \in Shipments \cup {None}
    BY <1>1, RowTypes DEF IInv
  <2>2. SessionFine(u)'
    <3>1. session'[u].ship # None =>
            /\ session[u].ship # None /\ session[u].ship # s /\ session'[u].ship = session[u].ship
            /\ status'[session[u].ship] = status[session[u].ship]
      BY <1>3, <1>5, <2>1
    <3>2. session[u].status = "completed" /\ session'[u].ship # None =>
            /\ session'[u].file \in Files /\ file'[session'[u].file].status = "completed"
            /\ file'[session'[u].file].key = u /\ file'[session'[u].file].ship = session[u].ship
      BY <1>4, <1>5, <1>7, <2>1, <3>1 DEF SessionFine
    <3>3. session[u].file = None => session'[u].file = None
      BY <1>5
    <3> QED
      BY <1>1, <1>2, <1>5, <2>1, <3>1, <3>2, <3>3 DEF SessionFine
  <2>3. ObjectFine(u)'
    <3>1. ASSUME NEW f \in Files, file[f].status # "none", file[f].key = u, status[file[f].ship] \in Gone
          PROVE  file'[f].status # "none" /\ file'[f].key = u /\ status'[file'[f].ship] \in Gone
      <4>1. file[f].ship \in Shipments
        BY <1>1, RowTypes
      <4>2. file'[f].status # "none" /\ file'[f].key = u /\ file'[f].ship = file[f].ship
        BY <1>4, <3>1
      <4> QED
        BY <1>9, <3>1, <4>1, <4>2
    <3> QED
      BY <1>1, <2>1, <3>1 DEF ObjectFine
  <2>4. AnswersFine(u)'
    BY <1>1, <1>5, <2>1 DEF AnswersFine
  <2> QED
    BY <2>2, <2>3, <2>4
<1>11. ASSUME NEW f \in Files
       PROVE  FileFine(f)'
  <2>1. FileFine(f) /\ file[f].key \in Sessions
    BY <1>1, RowTypes DEF IInv
  <2>2. file'[f].status # "none" => session'[file'[f].key].status = "completed"
    BY <1>4, <1>5, <2>1 DEF FileFine
  <2>3. CASE file[f].status = "completed" /\ file[f].ship = s
    BY <1>4, <1>5, <2>1, <2>2, <2>3 DEF FileFine
  <2>4. CASE file[f].status = "completed" /\ file[f].ship # s
    <3>1. file'[f].status = "completed" /\ f \notin FilesOf(s)
      BY <1>4, <1>7, <2>4
    <3>2. session'[file[f].key].file = f /\ session'[file[f].key].ship = file[f].ship
      BY <1>5, <2>1, <2>4, <3>1 DEF FileFine
    <3> QED
      BY <1>1, <1>4, <2>1, <2>2, <2>4, <3>1, <3>2 DEF FileFine
  <2>5. CASE file[f].status # "completed"
    BY <1>2, <1>4, <1>5, <2>1, <2>2, <2>5 DEF FileFine
  <2> QED
    BY <2>3, <2>4, <2>5
<1>12. \A c \in Creators : CreatorFine(c)'
  BY <1>1, <1>5, CreatorStays
<1>13. ASSUME NEW h \in Completers
       PROVE  CompleterFine(h)' /\ AnswerFine(h)'
  <2>1. /\ CompleterFine(h) /\ AnswerFine(h)
        /\ completer[h].key \in Sessions /\ completer[h].ship \in Shipments
    BY <1>1, LocalTypes DEF IInv
  <2> DEFINE u == completer[h].key
             t == completer[h].ship
  <2>2. CompleterFine(h)'
    <3>1. completer'[h] = completer[h] /\ upload' = upload
      BY <1>1
    <3>2. session[u].status # "none" => session'[u].status # "none"
      BY <1>5, <2>1
    <3>3. CASE session[u].ship = s
      <4>1. session'[u].ship = None /\ s # None
        BY <1>2, <1>5, <2>1, <3>3
      <4>2. completer[h].pc \in {"read", "stored"} => t = s
        BY <2>1, <3>3, <4>1 DEF CompleterFine
      <4> QED
        BY <1>3, <2>1, <3>1, <3>2, <4>1, <4>2 DEF CompleterFine
    <3>4. CASE session[u].ship # s
      <4>1. session'[u].ship = session[u].ship
        BY <1>5, <2>1, <3>4
      <4>2. status[t] = "purged" => status'[t] = "purged"
        BY <1>3, <2>1
      <4> QED
        BY <2>1, <3>1, <3>2, <4>1, <4>2 DEF CompleterFine
    <3> QED
      BY <3>3, <3>4
  <2>3. AnswerFine(h)'
    <3>1. session[u].status = "completed" => session'[u].status = "completed"
      BY <1>5, <2>1
    <3>2. session[u].file \in {None, completer[h].file} => session'[u].file \in {None, completer[h].file}
      BY <1>5, <2>1
    <3>3. completer' = completer /\ answers' = answers
      BY <1>1
    <3> QED
      BY <2>1, <3>1, <3>2, <3>3 DEF AnswerFine
  <2> QED
    BY <2>2, <2>3
<1>14. ASSUME NEW v \in Workers
       PROVE  WorkerFine(v)'
  <2>1. CASE v = w
    BY <1>6, <2>1 DEF WorkerFine
  <2>2. CASE v # w
    <3>1. WorkerFine(v) /\ worker'[v] = worker[v] /\ worker[v].ship \in Shipments
      BY <1>1, <1>6, <2>2, LocalTypes DEF IInv
    <3>2. ASSUME NEW f \in Files, file[f].status # "none"
          PROVE  file'[f].status # "none" /\ file'[f].key = file[f].key /\ file'[f].ship = file[f].ship
      BY <1>4, <3>2
    <3> QED
      BY <1>9, <3>1, <3>2 DEF WorkerFine
  <2> QED
    BY <2>1, <2>2
<1> QED
  BY <1>10, <1>11, <1>12, <1>13, <1>14 DEF IInv

----------------------------------------------------------------------------
(* Every step. *)

\* Steps of the handlers that open a session.
LEMMA CreateInvariant ==
  ASSUME IInv, TypeOK', CreateStep
  PROVE  IInv'
<1>1. PICK c \in Creators : \/ \E s \in Shipments : CreateShipment(c, s) \/ ValidateExistingShipment(c, s)
                            \/ \E u \in Sessions : CreateMultipartUpload(c, u)
                            \/ InsertUploadSession(c) \/ AbandonCreate(c)
  BY DEF CreateStep
<1>2. TypeOK
  BY DEF IInv
<1>3. ASSUME NEW s \in Shipments, CreateShipment(c, s) \/ ValidateExistingShipment(c, s)
      PROVE  IInv'
  <2>1. Moves
    BY <1>2, <1>3 DEF CreateShipment, ValidateExistingShipment, Moves, TypeOK, Stored, Open, Shared
  <2>2. \A d \in Creators : creator'[d] = creator[d] \/ creator'[d].pc # "opened"
    <3>1. [IdleCreator EXCEPT !.pc = "validated", !.ship = s].pc = "validated"
      BY IdleTypes DEF CreatorState
    <3> QED
      BY <1>2, <1>3, <3>1 DEF CreateShipment, ValidateExistingShipment, TypeOK
  <2> QED
    BY <1>3, <2>1, <2>2, QuietInvariant DEF CreateShipment, ValidateExistingShipment
<1>4. CASE AbandonCreate(c)
  <2>1. \A d \in Creators : creator'[d] = creator[d] \/ creator'[d].pc # "opened"
    BY <1>2, <1>4, IdleTypes DEF AbandonCreate, TypeOK
  <2>2. Moves
    BY <1>4, NoMove DEF AbandonCreate
  <2> QED
    BY <1>4, <2>1, <2>2, QuietInvariant DEF AbandonCreate
<1> QED
  BY <1>1, <1>3, <1>4, UploadInvariant, InsertInvariant

\* Steps of the handlers that complete one.
LEMMA CompleteInvariant ==
  ASSUME IInv, TypeOK', CompleteStep
  PROVE  IInv'
<1>1. PICK h \in Completers : \/ \E u \in Sessions : ReplayComplete(h, u) \/ ReadSession(h, u)
                              \/ CompleteMultipartUpload(h)
                              \/ \E f \in Files : CreateFileAndMarkUploadCompleted(h, f)
                              \/ AnswerComplete(h) \/ AbandonComplete(h)
  BY DEF CompleteStep
<1>2. CASE AbandonComplete(h)
  <2>1. \A k \in Completers : completer'[k] = completer[k] \/ completer'[k].pc = "idle"
    BY <1>2, IdleTypes DEF AbandonComplete, IInv, TypeOK
  <2>2. Moves
    BY <1>2, NoMove DEF AbandonComplete
  <2> QED
    BY <1>2, <2>1, <2>2, QuietInvariant DEF AbandonComplete
<1> QED
  BY <1>1, <1>2, AnswerInvariant, ReadInvariant, ObjectInvariant, FileInvariant

\* Steps of the owner and of the clock.
LEMMA OwnerInvariant ==
  ASSUME IInv, TypeOK', OwnerStep
  PROVE  IInv'
<1>1. TypeOK
  BY DEF IInv
<1>2. UNCHANGED <<session, upload, object, file, answers, creator, completer, worker>>
  BY DEF OwnerStep, ReadFiles, FinalizeShipment, AbandonFinalize, DeleteShipment,
         MarkShipmentExpired, GracePassed
<1>3. Moves
  <2>1. ASSUME NEW z \in Finalizers, NEW s \in Shipments, ReadFiles(z, s)
        PROVE  Moves
    BY <2>1, NoMove DEF ReadFiles
  <2>2. ASSUME NEW z \in Finalizers, FinalizeShipment(z)
        PROVE  Moves
    BY <1>1, <2>2 DEF FinalizeShipment, ExpectedStatus, Moves, TypeOK, Stored, Open, Shared
  <2>3. ASSUME NEW z \in Finalizers, AbandonFinalize(z)
        PROVE  Moves
    BY <2>3, NoMove DEF AbandonFinalize
  <2>4. ASSUME NEW s \in Shipments, DeleteShipment(s) \/ MarkShipmentExpired(s)
        PROVE  Moves
    BY <1>1, <2>4 DEF DeleteShipment, MarkShipmentExpired, Moves, TypeOK, Stored, Open, Shared
  <2>5. ASSUME NEW s \in Shipments, GracePassed(s)
        PROVE  Moves
    BY <2>5, NoMove DEF GracePassed
  <2> QED
    BY <2>1, <2>2, <2>3, <2>4, <2>5 DEF OwnerStep
<1> QED
  BY <1>2, <1>3, QuietInvariant

\* Steps of the cleanup workers.
LEMMA CleanupInvariant ==
  ASSUME IInv, TypeOK', CleanupStep
  PROVE  IInv'
<1>1. TypeOK
  BY DEF IInv
<1>2. PICK w \in Workers : \/ \E s \in Shipments : ListDeletedShipments(w, s)
                           \/ GetFilesByShipmentID(w)
                           \/ \E u \in Sessions : DeleteObject(w, u)
                           \/ DeleteShipmentCascade(w) \/ AbandonCleanup(w)
  BY DEF CleanupStep
<1>3. ASSUME NEW s \in Shipments, ListDeletedShipments(w, s)
      PROVE  IInv'
  <2>1. \A v \in Workers : v # w => worker'[v] = worker[v]
    BY <1>1, <1>3 DEF ListDeletedShipments, TypeOK
  <2>2. WorkerFine(w)'
    <3>1. worker'[w] = [pc |-> "list", ship |-> s, keys |-> {}]
      BY <1>1, <1>3 DEF ListDeletedShipments, TypeOK
    <3>2. status'[s] \in Gone
      BY <1>3 DEF ListDeletedShipments, Gone
    <3> QED
      BY <3>1, <3>2 DEF WorkerFine
  <2>3. Moves
    BY <1>3, NoMove DEF ListDeletedShipments
  <2> QED
    BY <1>3, <2>1, <2>2, <2>3, QuietInvariant DEF ListDeletedShipments
<1>4. CASE GetFilesByShipmentID(w)
  <2>1. /\ worker'[w].pc = "deleting" /\ worker'[w].ship = worker[w].ship
        /\ worker'[w].keys = {file[f].key : f \in FilesOf(worker[w].ship)}
        /\ \A v \in Workers : v # w => worker'[v] = worker[v]
    BY <1>1, <1>4 DEF GetFilesByShipmentID, TypeOK, WorkerState
  <2>2. WorkerFine(w)'
    <3>1. status[worker[w].ship] \in Gone /\ status' = status /\ file' = file
      BY <1>4 DEF GetFilesByShipmentID, IInv, WorkerFine
    <3>2. ASSUME NEW u \in worker'[w].keys
          PROVE  \E f \in Files : file[f].status # "none" /\ file[f].key = u
                                  /\ file[f].ship = worker[w].ship
      BY <2>1, <3>2 DEF FilesOf
    <3> QED
      BY <2>1, <3>1, <3>2 DEF WorkerFine
  <2>3. Moves
    BY <1>4, NoMove DEF GetFilesByShipmentID
  <2> QED
    BY <1>4, <2>1, <2>2, <2>3, QuietInvariant DEF GetFilesByShipmentID
<1>5. CASE AbandonCleanup(w)
  <2>1. worker'[w].pc = "idle" /\ \A v \in Workers : v # w => worker'[v] = worker[v]
    BY <1>1, <1>5, IdleTypes DEF AbandonCleanup, TypeOK
  <2>2. WorkerFine(w)'
    BY <2>1 DEF WorkerFine
  <2>3. Moves
    BY <1>5, NoMove DEF AbandonCleanup
  <2> QED
    BY <1>5, <2>1, <2>2, <2>3, QuietInvariant DEF AbandonCleanup
<1> QED
  BY <1>2, <1>3, <1>4, <1>5, DeleteInvariant, CascadeInvariant

\* Nothing is there at the start.
LEMMA InitInvariant ==
  Init => IInv
<1> SUFFICES ASSUME Init PROVE IInv
  OBVIOUS
<1>1. /\ \A u \in Sessions : /\ session[u] = [status |-> "none", ship |-> None, file |-> None]
                             /\ upload[u] = "none" /\ answers[u] = {}
      /\ \A f \in Files : file[f].status = "none"
      /\ \A c \in Creators : creator[c] = IdleCreator
      /\ \A h \in Completers : completer[h] = IdleCompleter
      /\ \A w \in Workers : worker[w] = IdleWorker
  BY DEF Init
<1>2. TypeOK
  <2>1. [status |-> "none", ship |-> None, file |-> None] \in SessionRow
    BY DEF SessionRow
  <2>2. [status |-> "none", key |-> Some(Sessions), ship |-> Some(Shipments)] \in FileRow
    BY IdleTypes DEF FileRow
  <2> QED
    BY <2>1, <2>2, IdleTypes DEF Init, TypeOK
<1>3. \A u \in Sessions : SessionFine(u) /\ ObjectFine(u) /\ AnswersFine(u)
  BY <1>1 DEF SessionFine, ObjectFine, AnswersFine
<1>4. \A f \in Files : FileFine(f)
  BY <1>1 DEF FileFine
<1>5. /\ \A c \in Creators : CreatorFine(c)
      /\ \A h \in Completers : CompleterFine(h) /\ AnswerFine(h)
      /\ \A w \in Workers : WorkerFine(w)
  BY <1>1, IdleTypes DEF CreatorFine, CompleterFine, AnswerFine, WorkerFine
<1> QED
  BY <1>2, <1>3, <1>4, <1>5 DEF IInv

\* A step that changes nothing changes no part of the invariant.
LEMMA StutterInvariant ==
  ASSUME IInv, UNCHANGED vars
  PROVE  IInv'
<1>1. TypeOK'
  BY DEF IInv, TypeOK, vars
<1>2. Moves
  BY NoMove DEF vars
<1> QED
  BY <1>1, <1>2, QuietInvariant DEF vars

----------------------------------------------------------------------------
(* Theorems *)

\* In every behaviour, for any constants.
THEOREM Invariance == Spec => []IInv
<1>1. IInv /\ [Next]_vars => IInv'
  <2> SUFFICES ASSUME IInv, [Next]_vars PROVE IInv'
    OBVIOUS
  <2>1. TypeOK
    BY DEF IInv
  <2> QED
    BY <2>1, CreateTypes, CompleteTypes, OwnerTypes, CleanupTypes, CreateInvariant,
       CompleteInvariant, OwnerInvariant, CleanupInvariant, StutterInvariant DEF Next
<1> QED
  BY InitInvariant, <1>1, PTL DEF Spec

\* Rows, S3 and local states keep their types.
THEOREM TypeCorrect == Spec => []TypeOK
<1>1. IInv => TypeOK
  BY DEF IInv
<1> QED
  BY Invariance, <1>1, PTL

\* A file that may be downloaded has its object.
THEOREM FilesCorrect == Spec => []FileHasObject
<1>1. IInv => FileHasObject
  <2> SUFFICES ASSUME IInv, NEW f \in Files, file[f].status = "completed",
                      status[file[f].ship] \in Open \cup Shared \cup {"expired"},
                      file[f].key \notin object
               PROVE  FALSE
    BY DEF FileHasObject
  <2>1. /\ file[f].key \in Sessions /\ upload[file[f].key] = "done" /\ file[f].ship # None
        /\ session[file[f].key].file = f /\ session[file[f].key].ship = file[f].ship
    BY RowTypes, ConstantsAssumption DEF IInv, FileFine
  <2>2. PICK g \in Files : /\ file[g].status # "none" /\ file[g].key = file[f].key
                           /\ status[file[g].ship] \in Gone
    BY <2>1 DEF IInv, ObjectFine
  <2>3. file[g].status = "completed"
    BY <2>1, <2>2, RowTypes DEF IInv, FileFine
  <2>4. g = f
    BY <2>1, <2>2, <2>3 DEF IInv, FileFine
  <2> QED
    BY <2>2, <2>4 DEF Gone, Open, Shared
<1> QED
  BY Invariance, <1>1, PTL

\* All answers for a session name one file.
THEOREM AnswersCorrect == Spec => []AnswersAgree
<1>1. IInv => AnswersAgree
  BY DEF IInv, AnswersFine, AnswersAgree
<1> QED
  BY Invariance, <1>1, PTL

\* A completed session of a stored shipment names its file.
THEOREM SessionsCorrect == Spec => []CompletedNamesFile
<1>1. IInv => CompletedNamesFile
  <2> SUFFICES ASSUME IInv, NEW u \in Sessions, session[u].status = "completed", session[u].ship # None
               PROVE  /\ session[u].file \in FilesOf(session[u].ship)
                      /\ file[session[u].file].key = u
    BY DEF CompletedNamesFile
  <2> QED
    BY DEF IInv, SessionFine, FilesOf
<1> QED
  BY Invariance, <1>1, PTL
=============================================================================
