--------------------------- MODULE PortalContent ---------------------------
(***************************************************************************)
(* The unified portal document (portal-content-unified-routes.ts), the     *)
(* tables it mirrors, the in-memory cache of the published document and    *)
(* the public endpoint that serves it (portal-resources-routes.ts).        *)
(* Nothing runs in a transaction: every statement is a step, and so is     *)
(* what the handler does after it.  A fault of a statement is "refused",   *)
(* or "ackLost": made, and yet the handler ends with 500.                  *)
(*                                                                         *)
(* A draft is the id of a saved text; the drafts of Mirroring have empty   *)
(* lists, and their publication takes the announcements and the            *)
(* applications as they are then.                                          *)
(***************************************************************************)
EXTENDS AppMedia

CONSTANTS
  Editors, Viewers, \* requests of administrators, of the public, in progress
  Drafts, Mirroring,
  MaxEdits,         \* bound: changes of the announcements
  DbFaults

ASSUME PortalAssumption ==
  /\ Drafts # {} /\ "none" \notin Drafts /\ Mirroring \subseteq Drafts
  /\ MaxEdits \in Nat
  /\ DbFaults \subseteq {"refused", "ackLost"}

Own == {}  \* nothing mirrored: the lists are the draft's own
None == [draft |-> "none", ann |-> Own, apps |-> Own]
NoDoc == [draft |-> "none", draftV |-> 0, pub |-> None, pubV |-> 0, status |-> "none", diff |-> {}]

VARIABLES
  doc,       \* the row of portal_content_documents
  ann,       \* announcements: number of edits made, as a version of the list
  cache,     \* unifiedPortalContentCache: what it serves, None if empty
  pc,        \* per request: next step
  text,      \* per editor: the draft it saves
  snap,      \* per request: the row it has read
  built,     \* per editor: the document it is about to publish
  before,    \* history: what was published before the last publication
  overtaken, \* history, per request: the kinds of writes others made since it read the row
  stale      \* history: of status, diff and cache, those last set by an overtaken request,
             \* and the cache also after a publication that was made but answered with 500

docVars == <<doc, ann, cache>>
docHistory == <<before, overtaken, stale>>
portalVars == <<docVars, pc, text, snap, built, docHistory>>
vars == <<portalVars, mediaVars>>

Requests == Editors \cup Viewers

Init ==
  /\ MediaInit
  /\ doc = NoDoc /\ ann = 1 /\ cache = None
  /\ pc = [a \in Requests |-> "idle"] /\ text = [a \in Editors |-> "none"]
  /\ snap = [a \in Requests |-> NoDoc] /\ built = [a \in Editors |-> None]
  /\ before = None /\ overtaken = [a \in Requests |-> {}] /\ stale = {}

GoTo(a, s) == pc' = [pc EXCEPT ![a] = s]

\* The list of applications as a publication sees it, files included.
Apps == {<<app, path>>}

End(a) ==
  /\ GoTo(a, "idle")
  /\ snap' = [snap EXCEPT ![a] = NoDoc]
  /\ IF a \in Editors
       THEN text' = [text EXCEPT ![a] = "none"] /\ built' = [built EXCEPT ![a] = None]
       ELSE UNCHANGED <<text, built>>

Rest(a) == End(a) /\ overtaken' = [overtaken EXCEPT ![a] = {}]

\* Requests that go by a row they have read, or are going to cache what they wrote.
Reading == {b \in Requests : pc[b] \in {"sWrite", "pAnn", "pApps", "pWrite", "pCache", "vFill"}}

\* Request a writes the row: the others that have read it are overtaken.
Overtake(a, kind) ==
  overtaken' = [b \in Requests |-> IF b \in Reading \ {a} THEN overtaken[b] \cup {kind} ELSE {}]

\* What was set on a reading that is outdated, and what was not.
Mark(what, outdated) == IF outdated THEN stale \cup what ELSE stale \ what
-----------------------------------------------------------------------------
(* PUT /draft *)
SaveArrive(a, d) ==
  /\ pc[a] = "idle" /\ requests < MaxRequests
  /\ requests' = requests + 1
  /\ text' = [text EXCEPT ![a] = d]
  /\ GoTo(a, "sRead")
  /\ UNCHANGED <<docVars, snap, built, docHistory>>

SaveRead(a) ==
  /\ pc[a] = "sRead"
  /\ snap' = [snap EXCEPT ![a] = doc]
  /\ GoTo(a, "sWrite")
  /\ UNCHANGED <<docVars, text, built, docHistory, requests>>

\* Mutant: the version is counted on in the insert.
SaveInsert_Two(a, r) ==
  /\ pc[a] = "sWrite" /\ snap[a] = NoDoc /\ doc = NoDoc /\ r # "refused"
  /\ doc' = [NoDoc EXCEPT !.draft = text[a], !.draftV = 2, !.status = "draft"]

\* The first save inserts the row; doc_key is unique.
SaveInsert(a, r) ==
  /\ pc[a] = "sWrite" /\ snap[a] = NoDoc /\ doc = NoDoc /\ r # "refused"
  /\ doc' = [NoDoc EXCEPT !.draft = text[a], !.draftV = 1, !.status = "draft"]

\* Mutant: saving leaves the status as it is.
SaveUpdate_KeepsStatus(a, r) ==
  /\ pc[a] = "sWrite" /\ snap[a] # NoDoc /\ r # "refused"
  /\ doc' = [doc EXCEPT !.draft = text[a], !.draftV = snap[a].draftV + 1]

SaveUpdate(a, r) ==
  /\ pc[a] = "sWrite" /\ snap[a] # NoDoc /\ r # "refused"
  /\ doc' = [doc EXCEPT !.draft = text[a], !.draftV = snap[a].draftV + 1,
                        !.status = IF snap[a].pubV > 0 THEN "dirty" ELSE "draft"]

SaveWrite(a) ==
  /\ \E r \in {"ok"} \cup DbFaults :
       /\ SaveInsert(a, r) \/ SaveUpdate(a, r)
       /\ IF r = "ok" THEN GoTo(a, "sCache") /\ UNCHANGED <<text, snap, built>> ELSE End(a)
  /\ Overtake(a, "save")
  /\ stale' = Mark({"status"}, "publish" \in overtaken[a])
  /\ UNCHANGED <<ann, cache, requests, before>>

\* invalidateUnifiedPublishedCache
SaveDone(a) ==
  /\ pc[a] = "sCache"
  /\ cache' = None
  /\ stale' = stale \ {"cache"}
  /\ Rest(a)
  /\ UNCHANGED <<doc, ann, before, requests>>
-----------------------------------------------------------------------------
(* POST /publish *)
PublishArrive(a) ==
  /\ pc[a] = "idle" /\ requests < MaxRequests
  /\ requests' = requests + 1
  /\ GoTo(a, "pRead")
  /\ UNCHANGED <<docVars, text, snap, built, docHistory>>

PublishRead(a) ==
  /\ pc[a] = "pRead" /\ doc # NoDoc
  /\ snap' = [snap EXCEPT ![a] = doc]
  /\ built' = [built EXCEPT ![a] = [draft |-> doc.draft, ann |-> Own, apps |-> Own]]
  /\ GoTo(a, IF doc.draft \in Mirroring THEN "pAnn" ELSE "pWrite")
  /\ UNCHANGED <<docVars, text, docHistory, requests>>

\* There is no draft: 400.
PublishNothing(a) ==
  /\ pc[a] = "pRead" /\ doc = NoDoc
  /\ Rest(a)
  /\ UNCHANGED <<docVars, before, stale, requests>>

MirrorAnnouncements(a) ==
  /\ pc[a] = "pAnn"
  /\ built' = [built EXCEPT ![a].ann = {ann}]
  /\ GoTo(a, "pApps")
  /\ UNCHANGED <<docVars, text, snap, docHistory, requests>>

MirrorDownloads(a) ==
  /\ pc[a] = "pApps"
  /\ built' = [built EXCEPT ![a].apps = Apps]
  /\ GoTo(a, "pWrite")
  /\ UNCHANGED <<docVars, text, snap, docHistory, requests>>

\* The keys that changed; none of the first publication (null).
Diff(prev, next) == IF prev = None THEN {} ELSE {k \in DOMAIN next : prev[k] # next[k]}

\* Mutant: the diff is computed before the lists are mirrored.
PublishWrite_EarlyDiff(a) ==
  /\ pc[a] = "pWrite"
  /\ doc' = [doc EXCEPT !.pub = built[a], !.pubV = snap[a].pubV + 1, !.status = "published",
                        !.diff = Diff(snap[a].pub, [None EXCEPT !.draft = snap[a].draft])]
  /\ before' = doc.pub
  /\ Overtake(a, "publish")
  /\ GoTo(a, "pCache")
  /\ UNCHANGED <<ann, cache, text, snap, built, requests, stale>>

\* The row and what it tells of itself; an answer that is lost leaves the cache as it is.
Publish(a, r) ==
  /\ doc' = [doc EXCEPT !.pub = built[a], !.pubV = snap[a].pubV + 1, !.status = "published",
                        !.diff = Diff(snap[a].pub, built[a])]
  /\ before' = doc.pub
  /\ Overtake(a, "publish")
  /\ stale' = (Mark({"status"}, "save" \in overtaken[a]) \ {"diff"})
               \cup {w \in {"diff"} : "publish" \in overtaken[a]}
               \cup {w \in {"cache"} : r = "ackLost"}

PublishWrite(a) ==
  /\ pc[a] = "pWrite"
  /\ \/ "refused" \in DbFaults /\ Rest(a) /\ UNCHANGED <<doc, before, stale>>
     \/ Publish(a, "ok") /\ GoTo(a, "pCache") /\ UNCHANGED <<text, snap, built>>
     \/ "ackLost" \in DbFaults /\ Publish(a, "ackLost") /\ End(a)
  /\ UNCHANGED <<ann, cache, requests>>

\* Mutant: the cache is not told.
PublishDone_NoCache(a) ==
  /\ pc[a] = "pCache"
  /\ Rest(a)
  /\ UNCHANGED <<docVars, before, stale, requests>>

\* setUnifiedPublishedCache
PublishDone(a) ==
  /\ pc[a] = "pCache"
  /\ cache' = built[a]
  /\ stale' = Mark({"cache"}, "publish" \in overtaken[a])
  /\ Rest(a)
  /\ UNCHANGED <<doc, ann, before, requests>>
-----------------------------------------------------------------------------
(* GET /:publicId/resources; with a document in the cache it reads nothing,*)
(* and without one to serve it falls back to the two tables.               *)
ViewRead(a) ==
  /\ pc[a] = "idle" /\ cache = None /\ doc.pub # None
  /\ snap' = [snap EXCEPT ![a] = doc]
  /\ GoTo(a, "vFill")
  /\ UNCHANGED <<docVars, text, built, docHistory, requests>>

ViewFill(a) ==
  /\ pc[a] = "vFill"
  /\ cache' = snap[a].pub
  /\ stale' = Mark({"cache"}, "publish" \in overtaken[a])
  /\ Rest(a)
  /\ UNCHANGED <<doc, ann, before, requests>>
-----------------------------------------------------------------------------
\* Announcements are created, changed and deleted; the unified cache stays.
EditAnnouncements ==
  /\ ann < MaxEdits
  /\ ann' = ann + 1
  /\ UNCHANGED <<doc, cache, pc, text, snap, built, docHistory, requests>>

\* A select fails: the editor's request ends with 500.
SelectFault(a) ==
  /\ DbFaults # {} /\ pc[a] \in {"sRead", "pRead", "pAnn", "pApps"}
  /\ Rest(a)
  /\ UNCHANGED <<docVars, before, stale, requests>>

\* The write of a save fails without effect, or finds the row inserted meanwhile.
SaveFault(a) ==
  /\ pc[a] = "sWrite"
  /\ "refused" \in DbFaults \/ (snap[a] = NoDoc /\ doc # NoDoc)
  /\ Rest(a)
  /\ UNCHANGED <<docVars, before, stale, requests>>

\* The process is restarted: requests and the cache are gone.
Restart ==
  /\ cache' = None
  /\ pc' = [a \in Requests |-> "idle"] /\ text' = [a \in Editors |-> "none"]
  /\ snap' = [a \in Requests |-> NoDoc] /\ built' = [a \in Editors |-> None]
  /\ overtaken' = [a \in Requests |-> {}] /\ stale' = stale \ {"cache"}
  /\ UNCHANGED <<doc, ann, before, requests>>

EditorStep(a) ==
  \/ \E d \in Drafts : SaveArrive(a, d)
  \/ SaveRead(a) \/ SaveWrite(a) \/ SaveFault(a) \/ SaveDone(a)
  \/ PublishArrive(a) \/ PublishRead(a) \/ PublishNothing(a)
  \/ MirrorAnnouncements(a) \/ MirrorDownloads(a) \/ PublishWrite(a) \/ PublishDone(a)
  \/ SelectFault(a)

PortalStep ==
  \/ \E a \in Editors : EditorStep(a)
  \/ \E a \in Viewers : ViewRead(a) \/ ViewFill(a)
  \/ EditAnnouncements

Next ==
  \/ PortalStep /\ UNCHANGED fileVars
  \/ ((\E a \in Uploaders : MediaStep(a)) \/ DeleteApp) /\ UNCHANGED portalVars
  \/ Restart /\ MediaRestart

Spec == Init /\ [][Next]_vars
-----------------------------------------------------------------------------
PCs == {"idle", "sRead", "sWrite", "sCache", "pRead", "pAnn", "pApps", "pWrite", "pCache", "vFill"}

TypeOK ==
  /\ MediaTypeOK
  /\ doc.status \in {"none", "draft", "dirty", "published"}
  /\ doc.draftV + doc.pubV \in 0..requests
  /\ pc \in [Requests -> PCs]

(* What the status says of draft and publication, whatever saves and       *)
(* publications overlap: it says 'published' only if the draft is the      *)
(* published text, and that nothing was published only if nothing was,     *)
(* unless it was last set by a publication that a save overtook or by a    *)
(* save that a publication overtook.  Nothing else makes it wrong, and     *)
(* the next write that is not overtaken puts it right.                     *)
StatusTellsDraft ==
  /\ doc.pub = None => doc.status \in {"none", "draft"}
  /\ "status" \notin stale =>
       /\ doc.status = "published" => doc.pub.draft = doc.draft
       /\ doc.status \in {"none", "draft"} => doc.pub = None

(* What the public portal serves from memory is the published document, or *)
(* the last publication is just about to put it there, unless the request  *)
(* that filled the memory (a miss or a publication) had itself been        *)
(* overtaken by a publication, or a publication was made and answered with *)
(* 500.  The next save, fill or restart puts that right as well.           *)
CacheCurrent ==
  \/ cache \in {None, doc.pub} \/ "cache" \in stale
  \/ \E a \in Editors : pc[a] = "pCache" /\ "publish" \notin overtaken[a]

(* The diff of the last publication tells what it changed, unless another  *)
(* publication was made after it had read the row: a save in between does  *)
(* no harm.                                                                *)
DiffExact == "diff" \notin stale => doc.diff = Diff(before, doc.pub)
=============================================================================
