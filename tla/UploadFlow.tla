----------------------------- MODULE UploadFlow -----------------------------
(***************************************************************************)
(* Upload sessions, multipart uploads, objects and file rows, against the  *)
(* finalize of their shipment and its physical purge.                      *)
(*                                                                         *)
(* PostgreSQL and S3 are two systems without a common transaction.  A      *)
(* session is opened by three calls (row of the shipment, multipart upload,*)
(* row of the session), completed by three (session row, S3, transaction), *)
(* and a shipment is purged by one call per object between a list of its   *)
(* files and the cascade.  Each call is one step; a handler or a worker    *)
(* may stop after any of them.                                             *)
(*                                                                         *)
(* Abstracted: names, sizes, checksums, parts and presigned URLs (a client *)
(* that completes has put the parts), owners, time (GracePassed stands for *)
(* a day after the delete; expires_at of a session is stored and read by   *)
(* nothing).  Every session has its own storage key, a fresh uuid, so the  *)
(* key is named by its session.                                            *)
(***************************************************************************)
EXTENDS Integers, FiniteSets

CONSTANTS
  Shipments,   \* ids of shipment rows
  Sessions,    \* ids of upload_sessions rows, and their storage keys
  Files,       \* ids of file rows
  Creators,    \* concurrent POST /v1/uploads handlers
  Completers,  \* concurrent POST /v1/uploads/{id}/complete handlers
  Finalizers,  \* concurrent POST /v1/shipments handlers
  Workers,     \* cleanup worker processes
  None         \* SQL NULL

ASSUME ConstantsAssumption ==
  /\ Shipments # {} /\ Sessions # {} /\ Files # {}
  /\ None \notin Shipments \cup Files

VARIABLES
  status,    \* status of each shipment row
  due,       \* deleted shipments whose grace period is over
  session,   \* rows of upload_sessions
  upload,    \* S3: the multipart upload of each session
  object,    \* S3: the keys that hold an object
  file,      \* rows of files
  answers,   \* history: file ids that completes of a session have returned
  creator, completer, finalizer, worker      \* local states

vars == <<status, due, session, upload, object, file, answers,
          creator, completer, finalizer, worker>>

----------------------------------------------------------------------------
Open   == {"uploading"}               \* draft and ready are never written
Shared == {"sent"}                    \* and accessed, which differs for downloads only
Stored == Open \cup Shared \cup {"expired", "deleted"}

SessionRow == [status : {"none", "uploading", "completed"},
               ship : Shipments \cup {None}, file : Files \cup {None}]
FileRow    == [status : {"none", "completed", "purged"}, key : Sessions, ship : Shipments]

CreatorState   == [pc : {"idle", "validated", "opened"}, ship : Shipments, key : Sessions]
CompleterState == [pc : {"idle", "read", "stored", "committed"}, key : Sessions,
                   ship : Shipments, file : Files]
FinalizerState == [pc : {"idle", "read"}, ship : Shipments, files : SUBSET Files]
WorkerState    == [pc : {"idle", "list", "deleting"}, ship : Shipments, keys : SUBSET Sessions]

Some(S) == CHOOSE x \in S : TRUE
IdleCreator   == [pc |-> "idle", ship |-> Some(Shipments), key |-> Some(Sessions)]
IdleCompleter == [pc |-> "idle", key |-> Some(Sessions), ship |-> Some(Shipments), file |-> Some(Files)]
IdleFinalizer == [pc |-> "idle", ship |-> Some(Shipments), files |-> {}]
IdleWorker    == [pc |-> "idle", ship |-> Some(Shipments), keys |-> {}]

FilesOf(s) == {f \in Files : file[f].status = "completed" /\ file[f].ship = s}

Init ==
  /\ status = [s \in Shipments |-> "none"]
  /\ due = {}
  /\ session = [u \in Sessions |-> [status |-> "none", ship |-> None, file |-> None]]
  /\ upload = [u \in Sessions |-> "none"]
  /\ object = {}
  /\ file = [f \in Files |-> [status |-> "none", key |-> Some(Sessions), ship |-> Some(Shipments)]]
  /\ answers = [u \in Sessions |-> {}]
  /\ creator = [c \in Creators |-> IdleCreator]
  /\ completer = [h \in Completers |-> IdleCompleter]
  /\ finalizer = [z \in Finalizers |-> IdleFinalizer]
  /\ worker = [w \in Workers |-> IdleWorker]

----------------------------------------------------------------------------
(* CreateUploadSession. *)

\* Without a shipment id: insert a shipment of its own.
CreateShipment(c, s) ==
  /\ creator[c].pc = "idle"
  /\ status[s] = "none"
  /\ status' = [status EXCEPT ![s] = "uploading"]
  /\ creator' = [creator EXCEPT ![c] = [IdleCreator EXCEPT !.pc = "validated", !.ship = s]]
  /\ UNCHANGED <<due, session, upload, object, file, answers, completer, finalizer, worker>>

\* With one: it must still take files, at the time of this read.
ValidateExistingShipment(c, s) ==
  /\ creator[c].pc = "idle"
  /\ status[s] \in Open
  /\ creator' = [creator EXCEPT ![c] = [IdleCreator EXCEPT !.pc = "validated", !.ship = s]]
  /\ UNCHANGED <<status, due, session, upload, object, file, answers, completer, finalizer, worker>>

CreateMultipartUpload(c, u) ==
  /\ creator[c].pc = "validated"
  /\ upload[u] = "none"
  /\ upload' = [upload EXCEPT ![u] = "open"]
  /\ creator' = [creator EXCEPT ![c].pc = "opened", ![c].key = u]
  /\ UNCHANGED <<status, due, session, object, file, answers, completer, finalizer, worker>>

\* The foreign key needs the shipment row; presigning the parts changes nothing.
InsertUploadSession(c) ==
  /\ creator[c].pc = "opened"
  /\ status[creator[c].ship] \in Stored
  /\ session' = [session EXCEPT ![creator[c].key] =
                   [status |-> "uploading", ship |-> creator[c].ship, file |-> None]]
  /\ creator' = [creator EXCEPT ![c] = IdleCreator]
  /\ UNCHANGED <<status, due, upload, object, file, answers, completer, finalizer, worker>>

AbandonCreate(c) ==
  /\ creator[c].pc # "idle"
  /\ creator' = [creator EXCEPT ![c] = IdleCreator]
  /\ UNCHANGED <<status, due, session, upload, object, file, answers, completer, finalizer, worker>>

----------------------------------------------------------------------------
(* CompleteUploadSession. *)

\* A completed session answers with the file it names; a session whose shipment
\* was purged names neither and is refused.
ReplayComplete(h, u) ==
  /\ completer[h].pc = "idle"
  /\ session[u].status = "completed"
  /\ session[u].file # None /\ session[u].ship # None
  /\ answers' = [answers EXCEPT ![u] = @ \cup {session[u].file}]
  /\ UNCHANGED <<status, due, session, upload, object, file, creator, completer, finalizer, worker>>

\* Without the check for a session whose shipment was purged.
ReadAnySession(h, u) ==
  /\ completer[h].pc = "idle"
  /\ session[u].status = "uploading"
  /\ completer' = [completer EXCEPT ![h] = [IdleCompleter EXCEPT
                     !.pc = "read", !.key = u, !.ship = session[u].ship]]
  /\ UNCHANGED <<status, due, session, upload, object, file, answers, creator, finalizer, worker>>

ReadSession(h, u) ==
  /\ completer[h].pc = "idle"
  /\ session[u].status = "uploading"
  /\ session[u].ship # None
  /\ completer' = [completer EXCEPT ![h] = [IdleCompleter EXCEPT
                     !.pc = "read", !.key = u, !.ship = session[u].ship]]
  /\ UNCHANGED <<status, due, session, upload, object, file, answers, creator, finalizer, worker>>

\* S3 turns the parts into the object once; of an upload already completed it may
\* report success again, or an error (AbandonComplete), and makes no new object.
CompleteMultipartUpload(h) ==
  LET u == completer[h].key IN
  /\ completer[h].pc = "read"
  /\ upload[u] \in {"open", "done"}
  /\ upload' = [upload EXCEPT ![u] = "done"]
  /\ object' = IF upload[u] = "open" THEN object \cup {u} ELSE object
  /\ completer' = [completer EXCEPT ![h].pc = "stored"]
  /\ UNCHANGED <<status, due, session, file, answers, creator, finalizer, worker>>

\* What the transaction demands: the foreign key to the shipment, UNIQUE of
\* files.storage_key, and an UPDATE of the session that finds it not completed.
ShipmentThere(h) == status[completer[h].ship] \in Stored      \* the foreign key alone
FileAllowed(h) ==
  /\ status[completer[h].ship] \in Stored
  /\ \A f \in Files : ~(file[f].status = "completed" /\ file[f].key = completer[h].key)
  /\ session[completer[h].key].status # "completed"

InsertFile(h, f) ==
  [file EXCEPT ![f] = [status |-> "completed", key |-> completer[h].key, ship |-> completer[h].ship]]

\* The UPDATE of the session committed on its own, the insert of the file failed.
MarkSessionOnly(h, f) ==
  /\ completer[h].pc = "stored"
  /\ file[f].status = "none"
  /\ FileAllowed(h)
  /\ session' = [session EXCEPT ![completer[h].key].status = "completed", ![completer[h].key].file = f]
  /\ completer' = [completer EXCEPT ![h].pc = "committed", ![h].file = f]
  /\ UNCHANGED <<status, due, upload, object, file, answers, creator, finalizer, worker>>

CreateFileAndMarkUploadCompleted(h, f) ==
  /\ completer[h].pc = "stored"
  /\ file[f].status = "none"
  /\ FileAllowed(h)
  /\ file' = InsertFile(h, f)
  /\ session' = [session EXCEPT ![completer[h].key].status = "completed", ![completer[h].key].file = f]
  /\ completer' = [completer EXCEPT ![h].pc = "committed", ![h].file = f]
  /\ UNCHANGED <<status, due, upload, object, answers, creator, finalizer, worker>>

AnswerComplete(h) ==
  /\ completer[h].pc = "committed"
  /\ answers' = [answers EXCEPT ![completer[h].key] = @ \cup {completer[h].file}]
  /\ completer' = [completer EXCEPT ![h] = IdleCompleter]
  /\ UNCHANGED <<status, due, session, upload, object, file, creator, finalizer, worker>>

\* A call failed, the transaction was refused, or the answer was lost.
AbandonComplete(h) ==
  /\ completer[h].pc # "idle"
  /\ completer' = [completer EXCEPT ![h] = IdleCompleter]
  /\ UNCHANGED <<status, due, session, upload, object, file, answers, creator, finalizer, worker>>

----------------------------------------------------------------------------
(* CreateShipment (finalize) and delete. *)

\* validateAndNormalize reads the files with the status of their shipment.
ReadFiles(z, s) ==
  /\ finalizer[z].pc = "idle"
  /\ status[s] \in Open
  /\ \E F \in (SUBSET FilesOf(s)) \ {{}} :
       finalizer' = [finalizer EXCEPT ![z] = [pc |-> "read", ship |-> s, files |-> F]]
  /\ UNCHANGED <<status, due, session, upload, object, file, answers, creator, completer, worker>>

AnyStatus(st)      == st \in Stored      \* without ExpectedStatuses
ExpectedStatus(st) == st \in Open

\* Under the lock of the row: the status again, and every file must be updated,
\* which the trigger of migration 11 allows only for files of this shipment.
FinalizeShipment(z) ==
  LET s == finalizer[z].ship IN
  /\ finalizer[z].pc = "read"
  /\ ExpectedStatus(status[s])
  /\ finalizer[z].files \subseteq FilesOf(s)
  /\ status' = [status EXCEPT ![s] = "sent"]
  /\ finalizer' = [finalizer EXCEPT ![z] = IdleFinalizer]
  /\ UNCHANGED <<due, session, upload, object, file, answers, creator, completer, worker>>

AbandonFinalize(z) ==
  /\ finalizer[z].pc # "idle"
  /\ finalizer' = [finalizer EXCEPT ![z] = IdleFinalizer]
  /\ UNCHANGED <<status, due, session, upload, object, file, answers, creator, completer, worker>>

DeleteShipment(s) ==
  /\ status[s] \in Open \cup Shared \cup {"expired"}
  /\ status' = [status EXCEPT ![s] = "deleted"]
  /\ UNCHANGED <<due, session, upload, object, file, answers, creator, completer, finalizer, worker>>

\* The cleanup worker; when, is the subject of ShipmentAccess.
MarkShipmentExpired(s) ==
  /\ status[s] \in Open \cup Shared
  /\ status' = [status EXCEPT ![s] = "expired"]
  /\ UNCHANGED <<due, session, upload, object, file, answers, creator, completer, finalizer, worker>>

GracePassed(s) ==
  /\ status[s] = "deleted"
  /\ due' = due \cup {s}
  /\ UNCHANGED <<status, session, upload, object, file, answers, creator, completer, finalizer, worker>>

----------------------------------------------------------------------------
(* cleanupShipment of the cleanup worker. *)

ListDeletedShipments(w, s) ==
  /\ worker[w].pc = "idle"
  /\ status[s] = "deleted" /\ s \in due
  /\ worker' = [worker EXCEPT ![w] = [pc |-> "list", ship |-> s, keys |-> {}]]
  /\ UNCHANGED <<status, due, session, upload, object, file, answers, creator, completer, finalizer>>

GetFilesByShipmentID(w) ==
  /\ worker[w].pc = "list"
  /\ worker' = [worker EXCEPT ![w].pc = "deleting",
                              ![w].keys = {file[f].key : f \in FilesOf(worker[w].ship)}]
  /\ UNCHANGED <<status, due, session, upload, object, file, answers, creator, completer, finalizer>>

DeleteObject(w, u) ==
  /\ worker[w].pc = "deleting"
  /\ u \in worker[w].keys
  /\ object' = object \ {u}
  /\ worker' = [worker EXCEPT ![w].keys = @ \ {u}]
  /\ UNCHANGED <<status, due, session, upload, file, answers, creator, completer, finalizer>>

\* Rows of the shipment and its files go; sessions stay, with both references NULL.
DeleteShipmentCascade(w) ==
  LET s == worker[w].ship IN
  /\ worker[w].pc = "deleting"
  /\ worker[w].keys = {}
  /\ status' = [status EXCEPT ![s] = "purged"]
  /\ file' = [f \in Files |-> IF f \in FilesOf(s) THEN [file[f] EXCEPT !.status = "purged"]
                                                  ELSE file[f]]
  /\ session' = [u \in Sessions |->
                   [session[u] EXCEPT
                      !.ship = IF session[u].ship = s THEN None ELSE @,
                      !.file = IF session[u].file \in FilesOf(s) THEN None ELSE @]]
  /\ worker' = [worker EXCEPT ![w] = IdleWorker]
  /\ UNCHANGED <<due, upload, object, answers, creator, completer, finalizer>>

\* An object could not be deleted after its retries, a query failed, or a restart.
AbandonCleanup(w) ==
  /\ worker[w].pc # "idle"
  /\ worker' = [worker EXCEPT ![w] = IdleWorker]
  /\ UNCHANGED <<status, due, session, upload, object, file, answers, creator, completer, finalizer>>

----------------------------------------------------------------------------
CreateStep ==
  \E c \in Creators :
    \/ \E s \in Shipments : CreateShipment(c, s) \/ ValidateExistingShipment(c, s)
    \/ \E u \in Sessions : CreateMultipartUpload(c, u)
    \/ InsertUploadSession(c)
    \/ AbandonCreate(c)

CompleteStep ==
  \E h \in Completers :
    \/ \E u \in Sessions : ReplayComplete(h, u) \/ ReadSession(h, u)
    \/ CompleteMultipartUpload(h)
    \/ \E f \in Files : CreateFileAndMarkUploadCompleted(h, f)
    \/ AnswerComplete(h)
    \/ AbandonComplete(h)

OwnerStep ==
  \/ \E z \in Finalizers : (\E s \in Shipments : ReadFiles(z, s)) \/ FinalizeShipment(z) \/ AbandonFinalize(z)
  \/ \E s \in Shipments : DeleteShipment(s) \/ MarkShipmentExpired(s) \/ GracePassed(s)

CleanupStep ==
  \E w \in Workers :
    \/ \E s \in Shipments : ListDeletedShipments(w, s)
    \/ GetFilesByShipmentID(w)
    \/ \E u \in Sessions : DeleteObject(w, u)
    \/ DeleteShipmentCascade(w)
    \/ AbandonCleanup(w)

Next == CreateStep \/ CompleteStep \/ OwnerStep \/ CleanupStep

Spec == Init /\ [][Next]_vars

----------------------------------------------------------------------------
(* Properties. *)

\* Rows respect their columns, and local states are well formed.
TypeOK ==
  /\ status \in [Shipments -> Stored \cup {"none", "purged"}]
  /\ due \subseteq Shipments
  /\ session \in [Sessions -> SessionRow]
  /\ upload \in [Sessions -> {"none", "open", "done"}]
  /\ object \subseteq Sessions
  /\ file \in [Files -> FileRow]
  /\ answers \in [Sessions -> SUBSET Files]
  /\ creator \in [Creators -> CreatorState]
  /\ completer \in [Completers -> CompleterState]
  /\ finalizer \in [Finalizers -> FinalizerState]
  /\ worker \in [Workers -> WorkerState]

\* Every file of a shipment that is not deleted has its object in S3: neither a
\* complete that raced another one, nor a purge that raced a finalize, leaves a
\* file row whose download would fail.
FileHasObject ==
  \A f \in Files :
    file[f].status = "completed" /\ status[file[f].ship] \in Open \cup Shared \cup {"expired"}
      => file[f].key \in object

\* However often and concurrently a client repeats a complete, whatever answers get
\* lost, all answers for one session name the same file.
AnswersAgree ==
  \A u \in Sessions : \A f, g \in answers[u] : f = g

\* The 409 upload_session_completed_without_file is never seen while the shipment is
\* stored: a completed session that has its shipment names a file row of it.
CompletedNamesFile ==
  \A u \in Sessions :
    session[u].status = "completed" /\ session[u].ship # None =>
      /\ session[u].file \in FilesOf(session[u].ship)
      /\ file[session[u].file].key = u
=============================================================================
