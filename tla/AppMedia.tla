------------------------------ MODULE AppMedia ------------------------------
(***************************************************************************)
(* The files of an application in the portal: its QR code and its video    *)
(* (file-upload-routes.ts).  A file lives in the upload directory and the  *)
(* row of app_downloads points to it; nothing joins the two in a           *)
(* transaction, so every statement and every unlink is a step of its own.  *)
(* The row is one application: an id is not used again once deleted.       *)
(* Names are uuids, so every upload stores a file of its own.              *)
(***************************************************************************)
EXTENDS Naturals

CONSTANTS
  Uploaders,   \* requests on files that may be in progress
  Slots,       \* "qr", "video": the columns of the row
  MaxRequests, \* bound: requests ever made
  MediaFaults  \* what may fail: "refused", "ackLost" statements, "unlink"

ASSUME MediaAssumption ==
  /\ Slots # {} /\ MaxRequests \in Nat
  /\ MediaFaults \subseteq {"refused", "ackLost", "unlink"}

VARIABLES
  app,      \* the row: "exists", or "gone" for good
  path,     \* path[s]: its file of slot s, 0 for NULL
  files,    \* files on disk
  requests, \* requests so far; the file of an upload has its number
  mpc, slot, mine, old, \* per request: next step, slot, its own file, the path it read
  broken    \* history: slots on which a request did not end with success

fileVars == <<app, path, files, mpc, slot, mine, old, broken>>
mediaVars == <<fileVars, requests>>

MediaInit ==
  /\ app = "exists" /\ path = [s \in Slots |-> 0]
  /\ files = {} /\ requests = 0
  /\ mpc = [a \in Uploaders |-> "idle"] /\ slot = [a \in Uploaders |-> CHOOSE s \in Slots : TRUE]
  /\ mine = [a \in Uploaders |-> 0] /\ old = [a \in Uploaders |-> 0]
  /\ broken = {}

MGoTo(a, s) == mpc' = [mpc EXCEPT ![a] = s]

DbFault == MediaFaults \cap {"refused", "ackLost"} # {}

\* UPDATE app_downloads SET path = f WHERE id = ...
SetPath(s, f) == path' = IF app = "exists" THEN [path EXCEPT ![s] = f] ELSE path

\* The request is answered.
Done(a) ==
  /\ MGoTo(a, "idle")
  /\ mine' = [mine EXCEPT ![a] = 0] /\ old' = [old EXCEPT ![a] = 0]

\* ... with status 500.
Break(a) == Done(a) /\ broken' = broken \cup {slot[a]}
-----------------------------------------------------------------------------
(* POST /upload/:slot/:id - multer has stored the file before the handler runs. *)
UploadArrive(a, s) ==
  /\ mpc[a] = "idle" /\ requests < MaxRequests
  /\ requests' = requests + 1 /\ files' = files \cup {requests + 1}
  /\ mine' = [mine EXCEPT ![a] = requests + 1]
  /\ slot' = [slot EXCEPT ![a] = s]
  /\ MGoTo(a, "uSelect")
  /\ UNCHANGED <<app, path, old, broken>>

UploadSelect(a) ==
  /\ mpc[a] = "uSelect" /\ app = "exists"
  /\ old' = [old EXCEPT ![a] = path[slot[a]]]
  /\ MGoTo(a, IF path[slot[a]] # 0 THEN "uUnlink" ELSE "uUpdate")
  /\ UNCHANGED <<app, path, files, requests, slot, mine, broken>>

\* No such application: the file goes away again, 404.
UploadNoApp(a) ==
  /\ mpc[a] = "uSelect" /\ app = "gone"
  /\ files' = files \ {mine[a]}
  /\ Done(a)
  /\ UNCHANGED <<app, path, requests, slot, broken>>

\* The file it replaces is deleted before the row points to the new one.
UploadUnlink(a) ==
  /\ mpc[a] = "uUnlink"
  /\ files' = files \ {old[a]}
  /\ MGoTo(a, "uUpdate")
  /\ UNCHANGED <<app, path, requests, slot, mine, old, broken>>

UploadUpdate(a) ==
  /\ mpc[a] = "uUpdate"
  /\ SetPath(slot[a], mine[a])
  /\ MGoTo(a, "uMeta")
  /\ UNCHANGED <<app, files, requests, slot, mine, old, broken>>

\* INSERT INTO uploaded_files, then the answer.
UploadMeta(a) ==
  /\ mpc[a] = "uMeta"
  /\ Done(a)
  /\ UNCHANGED <<app, path, files, requests, slot, broken>>

\* A statement or an unlink of the handler throws; an update whose
\* acknowledgement is lost has been made.
UploadFault(a) ==
  /\ \/ mpc[a] \in {"uSelect", "uUpdate", "uMeta"} /\ DbFault
     \/ mpc[a] = "uUnlink" /\ "unlink" \in MediaFaults
     \/ mpc[a] = "uSelect" /\ app = "gone" /\ "unlink" \in MediaFaults
  /\ \/ UNCHANGED path
     \/ mpc[a] = "uUpdate" /\ "ackLost" \in MediaFaults /\ SetPath(slot[a], mine[a])
  /\ MGoTo(a, "uCatch")
  /\ UNCHANGED <<app, files, requests, slot, mine, old, broken>>

\* The catch block deletes the new file, even if the row points to it by now.
UploadCatch(a) ==
  /\ mpc[a] = "uCatch"
  /\ \/ files' = files \ {mine[a]}
     \/ "unlink" \in MediaFaults /\ UNCHANGED files
  /\ Break(a)
  /\ UNCHANGED <<app, path, requests, slot>>
-----------------------------------------------------------------------------
(* DELETE /upload/:slot/:id *)
RemoveArrive(a, s) ==
  /\ mpc[a] = "idle" /\ requests < MaxRequests
  /\ requests' = requests + 1
  /\ slot' = [slot EXCEPT ![a] = s]
  /\ MGoTo(a, "rSelect")
  /\ UNCHANGED <<app, path, files, mine, old, broken>>

RemoveSelect(a) ==
  /\ mpc[a] = "rSelect" /\ app = "exists"
  /\ old' = [old EXCEPT ![a] = path[slot[a]]]
  /\ MGoTo(a, IF path[slot[a]] # 0 THEN "rUnlink" ELSE "rUpdate")
  /\ UNCHANGED <<app, path, files, requests, slot, mine, broken>>

\* 404
RemoveNoApp(a) ==
  /\ mpc[a] = "rSelect" /\ app = "gone"
  /\ Done(a)
  /\ UNCHANGED <<app, path, files, requests, slot, broken>>

RemoveUnlink(a) ==
  /\ mpc[a] = "rUnlink"
  /\ files' = files \ {old[a]}
  /\ MGoTo(a, "rUpdate")
  /\ UNCHANGED <<app, path, requests, slot, mine, old, broken>>

\* Mutant: only the public link is cleared, the path stays.
RemoveUpdate_LinkOnly(a) ==
  /\ mpc[a] = "rUpdate"
  /\ Done(a)
  /\ UNCHANGED <<app, path, files, requests, slot, broken>>

RemoveUpdate(a) ==
  /\ mpc[a] = "rUpdate"
  /\ SetPath(slot[a], 0)
  /\ Done(a)
  /\ UNCHANGED <<app, files, requests, slot, broken>>

RemoveFault(a) ==
  /\ \/ mpc[a] \in {"rSelect", "rUpdate"} /\ DbFault
     \/ mpc[a] = "rUnlink" /\ "unlink" \in MediaFaults
  /\ \/ UNCHANGED path
     \/ mpc[a] = "rUpdate" /\ "ackLost" \in MediaFaults /\ SetPath(slot[a], 0)
  /\ Break(a)
  /\ UNCHANGED <<app, files, requests, slot>>
-----------------------------------------------------------------------------
\* DELETE /app-downloads/:id removes the row, not its files.
DeleteApp ==
  /\ app = "exists"
  /\ app' = "gone" /\ path' = [s \in Slots |-> 0]
  /\ UNCHANGED <<files, requests, mpc, slot, mine, old, broken>>

\* The process is restarted: requests in progress are gone.
MediaRestart ==
  /\ mpc' = [a \in Uploaders |-> "idle"]
  /\ mine' = [a \in Uploaders |-> 0] /\ old' = [a \in Uploaders |-> 0]
  /\ broken' = broken \cup {slot[a] : a \in {b \in Uploaders : mpc[b] # "idle"}}
  /\ UNCHANGED <<app, path, files, requests, slot>>

MediaStep(a) ==
  \/ \E s \in Slots : UploadArrive(a, s) \/ RemoveArrive(a, s)
  \/ UploadSelect(a) \/ UploadNoApp(a) \/ UploadUnlink(a) \/ UploadUpdate(a) \/ UploadMeta(a)
  \/ UploadFault(a) \/ UploadCatch(a)
  \/ RemoveSelect(a) \/ RemoveNoApp(a) \/ RemoveUnlink(a) \/ RemoveUpdate(a) \/ RemoveFault(a)

MediaNext == (\E a \in Uploaders : MediaStep(a)) \/ DeleteApp \/ MediaRestart

MediaSpec == MediaInit /\ [][MediaNext]_mediaVars
-----------------------------------------------------------------------------
MediaPCs ==
  {"idle", "uSelect", "uUnlink", "uUpdate", "uMeta", "uCatch", "rSelect", "rUnlink", "rUpdate"}

MediaTypeOK ==
  /\ app \in {"exists", "gone"} /\ path \in [Slots -> Nat]
  /\ files \subseteq Nat /\ requests \in Nat
  /\ mpc \in [Uploaders -> MediaPCs] /\ slot \in [Uploaders -> Slots]
  /\ mine \in [Uploaders -> Nat] /\ old \in [Uploaders -> Nat]
  /\ broken \subseteq Slots

(* The row points to a file that exists, unless a request for that file    *)
(* failed, or the one that deleted it is still going to write the row -    *)
(* however uploads and removals of the same slot interleave.               *)
NoDanglingPath ==
  \A s \in Slots :
    \/ path[s] = 0 \/ path[s] \in files \/ s \in broken
    \/ \E a \in Uploaders :
         slot[a] = s /\ old[a] = path[s] /\ mpc[a] \in {"uUpdate", "rUpdate", "uCatch"}
=============================================================================
