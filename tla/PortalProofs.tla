---------------------------- MODULE PortalProofs ----------------------------
(***************************************************************************)
(* Proofs about the portal for any number of requests, drafts and slots.   *)
(***************************************************************************)
EXTENDS PortalContent, FiniteSetTheorems, TLAPS

-----------------------------------------------------------------------------
(* The files.  The file of a running upload is known to nobody else until  *)
(* its update, and a file belongs to one slot.                             *)

MediaBounds ==
  /\ \A s \in Slots : path[s] <= requests
  /\ \A a \in Uploaders : mine[a] <= requests /\ old[a] <= requests
  /\ \A a \in Uploaders : mpc[a] = "idle" => mine[a] = 0 /\ old[a] = 0
  /\ app = "gone" => \A s \in Slots : path[s] = 0

OwnFile ==
  /\ \A a, b \in Uploaders : mine[a] # 0 /\ mine[a] = mine[b] => a = b
  /\ \A a \in Uploaders : mpc[a] \in {"uSelect", "uUnlink", "uUpdate"} =>
       /\ mine[a] # 0 /\ mine[a] \in files
       /\ \A s \in Slots : path[s] # mine[a]
       /\ \A b \in Uploaders : old[b] # mine[a]

OneSlot ==
  /\ \A s, t \in Slots : path[s] # 0 /\ path[s] = path[t] => s = t
  /\ \A a \in Uploaders : \A s \in Slots :
       path[s] # 0 /\ path[s] \in {mine[a], old[a]} => s = slot[a]

MediaInv == MediaTypeOK /\ MediaBounds /\ OwnFile /\ OneSlot /\ NoDanglingPath

(* The initial states satisfy the invariant of the files. *)
LEMMA MediaInitInv == MediaInit => MediaInv
<1>1. (CHOOSE s \in Slots : TRUE) \in Slots
  BY MediaAssumption
<1> QED
  BY <1>1, MediaAssumption DEF MediaInit, MediaInv, MediaTypeOK, MediaPCs, MediaBounds, OwnFile,
     OneSlot, NoDanglingPath

(* Every step on a file keeps it. *)
LEMMA MediaStepInv ==
  ASSUME MediaInv, NEW a \in Uploaders, MediaStep(a)
  PROVE  MediaInv'
<1> USE MediaAssumption
    DEF MediaInv, MediaTypeOK, MediaPCs, MediaBounds, OwnFile, OneSlot, NoDanglingPath, MGoTo, Done,
        Break, SetPath
<1>1. ASSUME NEW s \in Slots, UploadArrive(a, s) PROVE MediaInv'
  <2>1. MediaTypeOK'
    BY <1>1 DEF UploadArrive
  <2>2. MediaBounds'
    BY <1>1 DEF UploadArrive
  <2>3. OwnFile'
    BY <1>1 DEF UploadArrive
  <2>4. OneSlot'
    BY <1>1 DEF UploadArrive
  <2>5. NoDanglingPath'
    BY <1>1 DEF UploadArrive
  <2> QED
    BY <2>1, <2>2, <2>3, <2>4, <2>5
<1>2. ASSUME NEW s \in Slots, RemoveArrive(a, s) PROVE MediaInv'
  <2>1. MediaTypeOK'
    BY <1>2 DEF RemoveArrive
  <2>2. MediaBounds'
    BY <1>2 DEF RemoveArrive
  <2>3. OwnFile'
    BY <1>2 DEF RemoveArrive
  <2>4. OneSlot'
    BY <1>2 DEF RemoveArrive
  <2>5. NoDanglingPath'
    BY <1>2 DEF RemoveArrive
  <2> QED
    BY <2>1, <2>2, <2>3, <2>4, <2>5
<1>3. CASE UploadSelect(a)
  BY <1>3 DEF UploadSelect
<1>4. CASE UploadNoApp(a)
  <2>1. MediaTypeOK'
    BY <1>4 DEF UploadNoApp
  <2>2. MediaBounds'
    BY <1>4 DEF UploadNoApp
  <2>3. OwnFile'
    BY <1>4 DEF UploadNoApp
  <2>4. OneSlot'
    BY <1>4 DEF UploadNoApp
  <2>5. NoDanglingPath'
    BY <1>4 DEF UploadNoApp
  <2> QED
    BY <2>1, <2>2, <2>3, <2>4, <2>5
<1>5. CASE UploadUnlink(a)
  <2>1. MediaTypeOK'
    BY <1>5 DEF UploadUnlink
  <2>2. MediaBounds'
    BY <1>5 DEF UploadUnlink
  <2>3. OwnFile'
    BY <1>5 DEF UploadUnlink
  <2>4. OneSlot'
    BY <1>5 DEF UploadUnlink
  <2>5. NoDanglingPath'
    BY <1>5 DEF UploadUnlink
  <2> QED
    BY <2>1, <2>2, <2>3, <2>4, <2>5
<1>6. CASE UploadUpdate(a)
  BY <1>6 DEF UploadUpdate
<1>7. CASE UploadMeta(a)
  BY <1>7 DEF UploadMeta
<1>8. CASE UploadFault(a)
  BY <1>8 DEF UploadFault
<1>9. CASE UploadCatch(a)
  <2>1. MediaTypeOK'
    <3>1. files' \subseteq Nat
      BY <1>9 DEF UploadCatch
    <3>2. broken' \subseteq Slots
      BY <1>9 DEF UploadCatch
    <3> QED
      BY <1>9, <3>1, <3>2 DEF UploadCatch
  <2>2. MediaBounds'
    BY <1>9 DEF UploadCatch
  <2>3. OwnFile'
    BY <1>9 DEF UploadCatch
  <2>4. OneSlot'
    BY <1>9 DEF UploadCatch
  <2>5. NoDanglingPath'
    BY <1>9 DEF UploadCatch
  <2> QED
    BY <2>1, <2>2, <2>3, <2>4, <2>5
<1>10. CASE RemoveSelect(a)
  BY <1>10 DEF RemoveSelect
<1>11. CASE RemoveNoApp(a)
  BY <1>11 DEF RemoveNoApp
<1>12. CASE RemoveUnlink(a)
  <2>1. MediaTypeOK'
    BY <1>12 DEF RemoveUnlink
  <2>2. MediaBounds'
    BY <1>12 DEF RemoveUnlink
  <2>3. OwnFile'
    BY <1>12 DEF RemoveUnlink
  <2>4. OneSlot'
    BY <1>12 DEF RemoveUnlink
  <2>5. NoDanglingPath'
    BY <1>12 DEF RemoveUnlink
  <2> QED
    BY <2>1, <2>2, <2>3, <2>4, <2>5
<1>13. CASE RemoveUpdate(a)
  BY <1>13 DEF RemoveUpdate
<1>14. CASE RemoveFault(a)
  BY <1>14 DEF RemoveFault
<1> QED
  BY <1>1, <1>2, <1>3, <1>4, <1>5, <1>6, <1>7, <1>8, <1>9, <1>10, <1>11, <1>12, <1>13, <1>14
  DEF MediaStep

(* Deleting the application and a restart keep it. *)
LEMMA MediaRestInv ==
  MediaInv /\ (DeleteApp \/ MediaRestart \/ (UNCHANGED fileVars /\ requests' \in {requests, requests + 1}))
    => MediaInv'
<1> SUFFICES ASSUME MediaInv,
                    \/ DeleteApp \/ MediaRestart
                    \/ UNCHANGED fileVars /\ requests' \in {requests, requests + 1}
             PROVE  MediaInv'
  OBVIOUS
<1> USE MediaAssumption
    DEF MediaInv, MediaTypeOK, MediaPCs, MediaBounds, OwnFile, OneSlot, NoDanglingPath
<1>1. CASE DeleteApp
  BY <1>1 DEF DeleteApp
<1>2. CASE MediaRestart
  <2>1. MediaTypeOK' /\ MediaBounds' /\ OwnFile' /\ OneSlot'
    BY <1>2 DEF MediaRestart
  <2>2. NoDanglingPath'
    BY <1>2 DEF MediaRestart
  <2> QED
    BY <2>1, <2>2
<1>3. CASE UNCHANGED fileVars /\ requests' \in {requests, requests + 1}
  BY <1>3 DEF fileVars
<1> QED
  BY <1>1, <1>2, <1>3

(* The row of an application never points to a file that is gone, but for  *)
(* requests that failed or are still going to write it.                    *)
THEOREM MediaSafety == MediaSpec => [](MediaTypeOK /\ NoDanglingPath)
<1>1. MediaInv /\ [MediaNext]_mediaVars => MediaInv'
  <2> SUFFICES ASSUME MediaInv, [MediaNext]_mediaVars PROVE MediaInv'
    OBVIOUS
  <2>1. UNCHANGED mediaVars => UNCHANGED fileVars /\ requests' \in {requests, requests + 1}
    BY DEF mediaVars
  <2>2. CASE \E a \in Uploaders : MediaStep(a)
    BY <2>2, MediaStepInv
  <2>3. CASE DeleteApp \/ MediaRestart \/ UNCHANGED mediaVars
    BY <2>1, <2>3, MediaRestInv
  <2> QED
    BY <2>2, <2>3 DEF MediaNext
<1>2. MediaInv => MediaTypeOK /\ NoDanglingPath
  BY DEF MediaInv
<1> QED
  BY MediaInitInv, <1>1, <1>2, PTL DEF MediaSpec

(* ... nor does it when the rest of the portal is at work. *)
LEMMA FilesStep == MediaInv /\ [Next]_vars => MediaInv'
<1> SUFFICES ASSUME MediaInv, [Next]_vars PROVE MediaInv'
  OBVIOUS
<1>1. CASE PortalStep /\ UNCHANGED fileVars
  <2>1. requests' \in {requests, requests + 1}
    BY <1>1 DEF PortalStep, EditorStep, SaveArrive, SaveRead, SaveWrite, SaveFault, SaveDone,
       PublishArrive, PublishRead, PublishNothing, MirrorAnnouncements, MirrorDownloads,
       PublishWrite, PublishDone, SelectFault, ViewRead, ViewFill, EditAnnouncements
  <2> QED
    BY <1>1, <2>1, MediaRestInv
<1>2. UNCHANGED vars => UNCHANGED fileVars /\ requests' \in {requests, requests + 1}
  BY DEF vars, mediaVars
<1>3. CASE \E a \in Uploaders : MediaStep(a)
  BY <1>3, MediaStepInv
<1>4. CASE DeleteApp \/ MediaRestart \/ UNCHANGED vars
  BY <1>2, <1>4, MediaRestInv
<1> QED
  BY <1>1, <1>3, <1>4 DEF Next

(* The same while the rest of the portal is at work: what the routes of    *)
(* file-upload-routes.ts leave behind is always a file that exists.        *)
THEOREM PortalFiles == Spec => []NoDanglingPath
<1>1. MediaInv => NoDanglingPath
  BY DEF MediaInv
<1>2. Init => MediaInv
  BY MediaInitInv DEF Init
<1> QED
  BY FilesStep, <1>1, <1>2, PTL DEF Spec
-----------------------------------------------------------------------------
(***************************************************************************)
(* The document.  What a request has read of the row is still there unless *)
(* another one has written that part since, which overtaken records; so a  *)
(* request that was not overtaken sets status, diff and cache rightly.     *)
(***************************************************************************)
DraftIds == Drafts \cup {"none"}
Pubs == [draft : DraftIds, ann : SUBSET Nat, apps : SUBSET ({"exists", "gone"} \X [Slots -> Nat])]
Docs == [draft : DraftIds, draftV : Nat, pub : Pubs, pubV : Nat,
         status : {"none", "draft", "dirty", "published"}, diff : SUBSET {"draft", "ann", "apps"}]

DocTypes ==
  /\ doc \in Docs /\ before \in Pubs /\ cache \in Pubs /\ ann \in Nat
  /\ text \in [Editors -> DraftIds] /\ snap \in [Requests -> Docs] /\ built \in [Editors -> Pubs]
  /\ pc \in [Requests -> PCs]
  /\ overtaken \in [Requests -> SUBSET {"save", "publish"}]
  /\ stale \in SUBSET {"status", "diff", "cache"}

InHand ==
  /\ \A a \in Editors : pc[a] \in {"sRead", "sWrite"} => text[a] \in Drafts
  /\ \A a \in Editors : pc[a] \in {"pAnn", "pApps", "pWrite", "pCache"} =>
       built[a].draft = snap[a].draft /\ snap[a].draft \in Drafts /\ doc # NoDoc
  /\ doc.draft \in Drafts \/ doc = NoDoc

\* What was published when a request read the row, and whether anything was.
Counts ==
  /\ doc.pub = None <=> doc.pubV = 0
  /\ \A a \in Requests : snap[a].pub = None <=> snap[a].pubV = 0
  /\ doc.pub = None => \A a \in Requests : snap[a].pub = None
  /\ doc = NoDoc => before = None

Fresh ==
  /\ \A a \in Requests :
       /\ pc[a] \in {"pAnn", "pApps", "pWrite"} /\ "save" \notin overtaken[a] =>
            snap[a].draft = doc.draft
       /\ pc[a] \in {"sWrite", "pAnn", "pApps", "pWrite", "vFill"} /\ "publish" \notin overtaken[a] =>
            snap[a].pub = doc.pub
       /\ a \notin Reading => overtaken[a] = {}
  /\ \A a \in Editors : pc[a] = "pCache" /\ "publish" \notin overtaken[a] => built[a] = doc.pub

RowInv == StatusTellsDraft /\ DiffExact

DocInv == MediaInv /\ DocTypes /\ InHand /\ Counts /\ Fresh /\ RowInv /\ CacheCurrent

(* What Diff returns is a set of keys. *)
LEMMA DiffType ==
  ASSUME NEW p \in Pubs, NEW q \in Pubs
  PROVE  Diff(p, q) \in SUBSET {"draft", "ann", "apps"}
<1> QED
  BY DEF Diff, Pubs

(* Nothing was published before the first draft. *)
LEMMA NoneTypes == None \in Pubs /\ NoDoc \in Docs /\ Diff(None, None) = {}
<1> QED
  BY DEF None, NoDoc, Pubs, Docs, DraftIds, Own, Diff

(* The initial states satisfy the invariant of the document. *)
LEMMA DocInitInv == Init => DocInv
<1> SUFFICES ASSUME Init PROVE DocInv
  OBVIOUS
<1>1. MediaInv
  BY MediaInitInv DEF Init
<1>2. DocTypes
  BY NoneTypes DEF Init, DocTypes, DraftIds, PCs
<1>3. InHand /\ Fresh /\ CacheCurrent /\ Counts
  BY DEF Init, InHand, Fresh, CacheCurrent, Counts, Requests, NoDoc
<1>4. RowInv
  BY NoneTypes DEF Init, RowInv, StatusTellsDraft, DiffExact, NoDoc
<1> QED
  BY <1>1, <1>2, <1>3, <1>4 DEF DocInv

(* What the end of a request leaves behind. *)
LEMMA EndFacts ==
  ASSUME DocTypes, NEW a \in Requests, End(a)
  PROVE  /\ pc' \in [Requests -> PCs] /\ pc'[a] = "idle"
         /\ \A b \in Requests : b # a => pc'[b] = pc[b] /\ snap'[b] = snap[b]
         /\ \A b \in Editors : b # a => text'[b] = text[b] /\ built'[b] = built[b]
         /\ text' \in [Editors -> DraftIds] /\ built' \in [Editors -> Pubs]
         /\ snap' \in [Requests -> Docs] /\ snap'[a] = NoDoc
<1>1. "none" \in DraftIds /\ "idle" \in PCs
  BY DEF DraftIds, PCs
<1> QED
  BY <1>1, NoneTypes DEF DocTypes, End, GoTo, Requests

LEMMA RestFacts ==
  ASSUME DocTypes, NEW a \in Requests, Rest(a)
  PROVE  /\ overtaken' \in [Requests -> SUBSET {"save", "publish"}] /\ overtaken'[a] = {}
         /\ \A b \in Requests : b # a => overtaken'[b] = overtaken[b]
  BY DEF DocTypes, Rest

(* Who is overtaken when a writes the row. *)
LEMMA OvertakeFacts ==
  ASSUME DocTypes, NEW a \in Requests, NEW kind \in {"save", "publish"}, Overtake(a, kind)
  PROVE  /\ overtaken' \in [Requests -> SUBSET {"save", "publish"}] /\ overtaken'[a] = {}
         /\ \A b \in Requests : b # a => overtaken'[b] = IF b \in Reading THEN overtaken[b] \cup {kind} ELSE {}
  BY DEF DocTypes, Overtake

(* A request that goes on or ends, without writing the row: what it leaves *)
(* of the invariant to show is about itself and the cache.                 *)
LEMMA RowKept ==
  ASSUME DocInv, MediaInv', DocTypes', CacheCurrent', NEW a \in Requests, UNCHANGED <<doc, before>>,
         stale' \ {"cache"} = stale \ {"cache"},
         \A b \in Requests : b # a => pc'[b] = pc[b] /\ snap'[b] = snap[b] /\ overtaken'[b] = overtaken[b],
         \A b \in Editors : b # a => text'[b] = text[b] /\ built'[b] = built[b],
         snap'[a] \in {snap[a], doc, NoDoc},
         a \in Editors /\ pc'[a] \in {"sRead", "sWrite"} => text'[a] \in Drafts,
         a \in Editors /\ pc'[a] \in {"pAnn", "pApps", "pWrite", "pCache"} =>
           built'[a].draft = snap'[a].draft /\ snap'[a].draft \in Drafts /\ doc # NoDoc,
         pc'[a] \in {"pAnn", "pApps", "pWrite"} /\ "save" \notin overtaken'[a] =>
           snap'[a].draft = doc.draft,
         pc'[a] \in {"sWrite", "pAnn", "pApps", "pWrite", "vFill"} /\ "publish" \notin overtaken'[a] =>
           snap'[a].pub = doc.pub,
         pc'[a] \notin {"sWrite", "pAnn", "pApps", "pWrite", "vFill"} => overtaken'[a] = {},
         pc'[a] # "pCache"
  PROVE  DocInv'
<1> USE DEF DocInv, Requests
<1>1. InHand'
  BY DEF InHand
<1>2. Counts'
  <2>1. NoDoc.pub = None /\ NoDoc.pubV = 0
    BY DEF NoDoc
  <2> QED
    BY <2>1 DEF Counts
<1>3. Fresh'
  BY DEF Fresh, Reading
<1>4. RowInv'
  BY DEF RowInv, StatusTellsDraft, DiffExact
<1> QED
  BY <1>1, <1>2, <1>3, <1>4

(* A request that ends and touches neither the row nor the cache keeps the invariant. *)
LEMMA RestInv ==
  ASSUME DocInv, MediaInv', NEW a \in Requests, Rest(a), UNCHANGED <<docVars, before, stale>>,
         a \in Editors => pc[a] # "pCache"
  PROVE  DocInv'
<1> USE DEF DocInv, docVars
<1>1. DocTypes' /\ End(a)
  BY EndFacts, RestFacts DEF DocTypes, Rest
<1>2. CacheCurrent'
  BY <1>1, EndFacts, RestFacts DEF CacheCurrent, Requests
<1> QED
  BY <1>1, <1>2, EndFacts, RestFacts, RowKept

(* The row after a save: a draft, and what was published stays. *)
LEMMA SaveRow ==
  ASSUME DocInv, NEW a \in Editors, NEW r, SaveInsert(a, r) \/ SaveUpdate(a, r), before' = before,
         stale' = Mark({"status"}, "publish" \in overtaken[a])
  PROVE  /\ doc' \in Docs /\ doc'.draft \in Drafts /\ doc'.pub = doc.pub /\ doc'.pubV = doc.pubV
         /\ doc' # NoDoc /\ RowInv'
<1> USE PortalAssumption, NoneTypes DEF DocInv, DocTypes, Requests, InHand
<1>1. pc[a] = "sWrite" /\ text[a] \in Drafts /\ snap[a] \in Docs
  BY DEF SaveInsert, SaveUpdate
<1>2. CASE SaveInsert(a, r)
  <2>1. doc = NoDoc /\ doc' = [NoDoc EXCEPT !.draft = text[a], !.draftV = 1, !.status = "draft"]
    BY <1>2 DEF SaveInsert
  <2>2. /\ doc' \in Docs /\ doc'.draft = text[a] /\ doc'.pub = None /\ doc.pub = None
        /\ doc'.pubV = 0 /\ doc.pubV = 0 /\ doc'.status = "draft" /\ doc'.diff = {}
    BY <1>1, <2>1 DEF NoDoc, Docs, DraftIds
  <2>3. before = None
    BY <2>1 DEF Counts
  <2>4. doc' # NoDoc
    BY <1>1, <2>2 DEF NoDoc
  <2>5. RowInv'
    BY <2>2, <2>3 DEF RowInv, StatusTellsDraft, DiffExact
  <2> QED
    BY <1>1, <2>2, <2>4, <2>5
<1>3. CASE SaveUpdate(a, r)
  <2>1. doc' = [doc EXCEPT !.draft = text[a], !.draftV = snap[a].draftV + 1,
                           !.status = IF snap[a].pubV > 0 THEN "dirty" ELSE "draft"]
    BY <1>3 DEF SaveUpdate
  <2>2. /\ doc' \in Docs /\ doc'.draft = text[a] /\ doc'.pub = doc.pub /\ doc'.pubV = doc.pubV
        /\ doc'.status = (IF snap[a].pubV > 0 THEN "dirty" ELSE "draft") /\ doc'.diff = doc.diff
    <3>1. snap[a].draftV + 1 \in Nat /\ text[a] \in DraftIds /\ doc \in Docs
      BY <1>1 DEF Docs, DraftIds
    <3>2. PICK st \in {"dirty", "draft"} : st = IF snap[a].pubV > 0 THEN "dirty" ELSE "draft"
      OBVIOUS
    <3>3. doc' = [doc EXCEPT !.draft = text[a], !.draftV = snap[a].draftV + 1, !.status = st]
      BY <2>1, <3>2
    <3>4. /\ doc' \in Docs /\ doc'.draft = text[a] /\ doc'.pub = doc.pub
          /\ doc'.pubV = doc.pubV /\ doc'.status = st /\ doc'.diff = doc.diff
      BY <3>1, <3>3 DEF Docs
    <3> QED
      BY <3>2, <3>4
  <2>3. doc' # NoDoc
    BY <1>1, <2>2 DEF NoDoc
  <2>4. snap[a].pubV \in Nat /\ (snap[a].pub = None <=> snap[a].pubV = 0)
    BY <1>1 DEF Counts, Docs
  <2>5. StatusTellsDraft'
    <3>1. doc.pub = None => doc'.status = "draft"
      BY <2>2, <2>4 DEF Counts
    <3>2. "publish" \notin overtaken[a] => snap[a].pub = doc.pub
      BY <1>1 DEF Fresh
    <3>3. "publish" \in overtaken[a] => "status" \in stale'
      BY DEF Mark
    <3>4. "publish" \notin overtaken[a] /\ doc'.status = "draft" => doc.pub = None
      BY <2>2, <2>4, <3>2
    <3> QED
      BY <2>2, <3>1, <3>3, <3>4 DEF StatusTellsDraft
  <2>6. DiffExact'
    BY <2>2 DEF RowInv, DiffExact, Mark
  <2> QED
    BY <1>1, <2>2, <2>3, <2>5, <2>6 DEF RowInv
<1> QED
  BY <1>2, <1>3

(* A save that has written the row. *)
LEMMA SaveWriteInv ==
  ASSUME DocInv, MediaInv', NEW a \in Editors, SaveWrite(a)
  PROVE  DocInv'
<1> USE DEF Requests
<1>1. PICK r \in {"ok"} \cup DbFaults :
        /\ SaveInsert(a, r) \/ SaveUpdate(a, r)
        /\ IF r = "ok" THEN GoTo(a, "sCache") /\ UNCHANGED <<text, snap, built>> ELSE End(a)
  BY DEF SaveWrite
<1>2. /\ UNCHANGED <<ann, cache, before>> /\ pc[a] = "sWrite" /\ Overtake(a, "save")
      /\ stale' = Mark({"status"}, "publish" \in overtaken[a])
  BY <1>1 DEF SaveWrite, SaveInsert, SaveUpdate
<1>3. /\ doc' \in Docs /\ doc'.draft \in Drafts /\ doc'.pub = doc.pub /\ doc'.pubV = doc.pubV
      /\ doc' # NoDoc /\ RowInv'
  BY <1>1, <1>2, SaveRow
<1>4. /\ pc' \in [Requests -> PCs] /\ pc'[a] \in {"idle", "sCache"}
      /\ \A b \in Requests : b # a => pc'[b] = pc[b] /\ snap'[b] = snap[b]
      /\ \A b \in Editors : b # a => text'[b] = text[b] /\ built'[b] = built[b]
      /\ text' \in [Editors -> DraftIds] /\ built' \in [Editors -> Pubs]
      /\ snap' \in [Requests -> Docs] /\ snap'[a] \in {snap[a], NoDoc}
  <2>1. CASE r = "ok"
    BY <1>1, <2>1 DEF DocInv, DocTypes, GoTo, PCs
  <2>2. CASE r # "ok"
    BY <1>1, <2>2, EndFacts DEF DocInv
  <2> QED
    BY <2>1, <2>2
<1>5. /\ overtaken' \in [Requests -> SUBSET {"save", "publish"}] /\ overtaken'[a] = {}
      /\ \A b \in Requests : b # a => overtaken'[b] = IF b \in Reading THEN overtaken[b] \cup {"save"} ELSE {}
  BY <1>2, OvertakeFacts DEF DocInv
<1>6. DocTypes'
  <2>1. stale' \in SUBSET {"status", "diff", "cache"}
    BY <1>2 DEF Mark, DocInv, DocTypes
  <2> QED
    BY <1>2, <1>3, <1>4, <1>5, <2>1 DEF DocTypes, DocInv
<1>7. InHand'
  BY <1>3, <1>4 DEF DocInv, InHand
<1>8. Counts'
  <2>1. NoDoc.pub = None /\ NoDoc.pubV = 0
    BY DEF NoDoc
  <2> QED
    BY <1>3, <1>4, <2>1 DEF DocInv, Counts
<1>9. Fresh'
  <2>1. \A b \in Requests : b # a /\ pc[b] \in {"sWrite", "pAnn", "pApps", "pWrite", "pCache", "vFill"} =>
          "save" \in overtaken'[b] /\ ("publish" \notin overtaken'[b] => "publish" \notin overtaken[b])
    BY <1>5 DEF Reading
  <2>2. \A b \in Requests : b \notin Reading' => overtaken'[b] = {}
    BY <1>4, <1>5 DEF Reading
  <2> QED
    BY <1>3, <1>4, <2>1, <2>2 DEF DocInv, Fresh
<1>10. CacheCurrent'
  <2>1. "cache" \in stale' <=> "cache" \in stale
    BY <1>2 DEF Mark
  <2>2. \A b \in Editors : pc[b] = "pCache" /\ "publish" \notin overtaken[b] =>
          pc'[b] = "pCache" /\ "publish" \notin overtaken'[b]
    <3> SUFFICES ASSUME NEW b \in Editors, pc[b] = "pCache", "publish" \notin overtaken[b]
                 PROVE  pc'[b] = "pCache" /\ "publish" \notin overtaken'[b]
      OBVIOUS
    <3>1. b \in Requests /\ b # a
      BY <1>2
    <3>2. pc'[b] = "pCache"
      BY <1>4, <3>1
    <3>3. overtaken'[b] \subseteq overtaken[b] \cup {"save"}
      BY <1>5, <3>1
    <3> QED
      BY <3>2, <3>3
  <2> QED
    BY <1>2, <1>3, <2>1, <2>2 DEF DocInv, CacheCurrent
<1> QED
  BY <1>3, <1>6, <1>7, <1>8, <1>9, <1>10 DEF DocInv

(* The row a publication writes. *)
Published(d, p, n, D) ==
  [d EXCEPT !.pub = p, !.pubV = n + 1, !.status = "published", !.diff = D]

LEMMA PublishedRow ==
  ASSUME NEW d \in Docs, NEW p \in Pubs, NEW n \in Nat, NEW D \in SUBSET {"draft", "ann", "apps"}
  PROVE  LET e == Published(d, p, n, D)
         IN  /\ e \in Docs /\ e.pub = p /\ e.pubV = n + 1 /\ e.status = "published" /\ e.diff = D
             /\ e.draft = d.draft
<1> DEFINE e1 == [d EXCEPT !.pub = p]
           e2 == [e1 EXCEPT !.pubV = n + 1]
           e3 == [e2 EXCEPT !.status = "published"]
           e4 == [e3 EXCEPT !.diff = D]
<1>1. e1 \in Docs /\ e1.pub = p /\ e1.draft = d.draft
  BY DEF Docs
<1> HIDE DEF e1
<1>2. e2 \in Docs /\ e2.pubV = n + 1 /\ e2.pub = e1.pub /\ e2.draft = e1.draft
  BY <1>1 DEF Docs
<1> HIDE DEF e2
<1>3. /\ e3 \in Docs /\ e3.status = "published"
      /\ e3.pubV = e2.pubV /\ e3.pub = e2.pub /\ e3.draft = e2.draft
  BY <1>2 DEF Docs
<1> HIDE DEF e3
<1>4. /\ e4 \in Docs /\ e4.diff = D /\ e4.status = e3.status
      /\ e4.pubV = e3.pubV /\ e4.pub = e3.pub /\ e4.draft = e3.draft
  BY <1>3 DEF Docs
<1> HIDE DEF e4
<1>5. Published(d, p, n, D) = e4
  BY DEF Published, e4, e3, e2, e1
<1> QED
  BY <1>1, <1>2, <1>3, <1>4, <1>5

(* A publication that is made, whether its answer is lost or not. *)
LEMMA PublishInv ==
  ASSUME DocInv, MediaInv', NEW a \in Editors, NEW r \in {"ok", "ackLost"}, pc[a] = "pWrite",
         Publish(a, r), UNCHANGED <<ann, cache>>,
         IF r = "ok" THEN GoTo(a, "pCache") /\ UNCHANGED <<text, snap, built>> ELSE End(a)
  PROVE  DocInv'
<1> USE PortalAssumption DEF Requests
<1>1. /\ snap[a] \in Docs /\ built[a] \in Pubs /\ built[a].draft = snap[a].draft
      /\ snap[a].draft \in Drafts
  BY DEF DocInv, DocTypes, InHand
<1>2. Diff(snap[a].pub, built[a]) \in SUBSET {"draft", "ann", "apps"}
  BY <1>1, DiffType DEF Docs
<1>3. /\ doc' \in Docs /\ doc'.pub = built[a] /\ doc'.pubV = snap[a].pubV + 1
      /\ doc'.status = "published" /\ doc'.diff = Diff(snap[a].pub, built[a])
      /\ doc'.draft = doc.draft /\ before' = doc.pub /\ before' \in Pubs
  <2> DEFINE D == Diff(snap[a].pub, built[a])
  <2>1. doc' = [doc EXCEPT !.pub = built[a], !.pubV = snap[a].pubV + 1,
                           !.status = "published", !.diff = D] /\ before' = doc.pub
    BY DEF Publish
  <2>2. doc \in Docs /\ doc.pub \in Pubs /\ snap[a].pubV \in Nat
    BY <1>1 DEF DocInv, DocTypes, Docs
  <2>3. D \in SUBSET {"draft", "ann", "apps"}
    BY <1>2
  <2> HIDE DEF D
  <2>4. /\ doc' \in Docs /\ doc'.pub = built[a] /\ doc'.pubV = snap[a].pubV + 1
        /\ doc'.status = "published" /\ doc'.diff = D /\ doc'.draft = doc.draft
    <3>1. doc' = Published(doc, built[a], snap[a].pubV, D)
      BY <2>1 DEF Published
    <3> QED
      BY <1>1, <2>2, <2>3, <3>1, PublishedRow
  <2> QED
    BY <2>1, <2>2, <2>4 DEF D
<1>4. /\ pc' \in [Requests -> PCs] /\ pc'[a] = (IF r = "ok" THEN "pCache" ELSE "idle")
      /\ \A b \in Requests : b # a => pc'[b] = pc[b] /\ snap'[b] = snap[b]
      /\ \A b \in Editors : b # a => text'[b] = text[b] /\ built'[b] = built[b]
      /\ text' \in [Editors -> DraftIds] /\ built' \in [Editors -> Pubs]
      /\ snap' \in [Requests -> Docs] /\ snap'[a] \in {snap[a], NoDoc}
      /\ r = "ok" => snap' = snap /\ built' = built
  <2>1. CASE r = "ok"
    BY <2>1 DEF DocInv, DocTypes, GoTo, PCs
  <2>2. CASE r # "ok"
    <3>1. End(a) /\ DocTypes
      BY <2>2 DEF DocInv
    <3> QED
      BY <2>2, <3>1, EndFacts
  <2> QED
    BY <2>1, <2>2
<1>5. /\ overtaken' \in [Requests -> SUBSET {"save", "publish"}] /\ overtaken'[a] = {}
      /\ \A b \in Requests : b # a => overtaken'[b] = IF b \in Reading THEN overtaken[b] \cup {"publish"} ELSE {}
  <2>1. DocTypes /\ Overtake(a, "publish")
    BY DEF Publish, DocInv
  <2> QED
    BY <2>1, OvertakeFacts
<1>6. /\ stale' \in SUBSET {"status", "diff", "cache"}
      /\ "save" \in overtaken[a] => "status" \in stale'
      /\ "publish" \in overtaken[a] => "diff" \in stale'
      /\ r = "ackLost" => "cache" \in stale'
  BY DEF Publish, Mark, DocInv, DocTypes
<1>7. DocTypes'
  BY <1>3, <1>4, <1>5, <1>6 DEF DocTypes, DocInv
<1>8. built[a] # None /\ doc' # NoDoc /\ doc'.pubV # 0
  BY <1>1, <1>3 DEF None, NoDoc, Docs
<1>9. InHand'
  <2>1. doc.draft \in Drafts
    BY DEF DocInv, InHand
  <2> QED
    BY <1>1, <1>3, <1>4, <1>8, <2>1 DEF DocInv, InHand
<1>10. Counts'
  <2>1. NoDoc.pub = None /\ NoDoc.pubV = 0
    BY DEF NoDoc
  <2> QED
    BY <1>3, <1>4, <1>8, <2>1 DEF DocInv, Counts
<1>11. Fresh'
  <2>1. \A b \in Requests : b # a /\ pc[b] \in {"sWrite", "pAnn", "pApps", "pWrite", "pCache", "vFill"} =>
          "publish" \in overtaken'[b] /\ ("save" \notin overtaken'[b] => "save" \notin overtaken[b])
    BY <1>5 DEF Reading
  <2>2. \A b \in Requests : b \notin Reading' => overtaken'[b] = {}
    BY <1>4, <1>5 DEF Reading
  <2> QED
    BY <1>3, <1>4, <2>1, <2>2 DEF DocInv, Fresh
<1>12. StatusTellsDraft'
  <2>1. "save" \notin overtaken[a] => built[a].draft = doc.draft
    BY <1>1 DEF DocInv, Fresh
  <2> QED
    BY <1>3, <1>6, <1>8, <2>1 DEF StatusTellsDraft
<1>13. DiffExact'
  <2>1. "publish" \notin overtaken[a] => snap[a].pub = doc.pub
    BY DEF DocInv, Fresh
  <2> QED
    BY <1>3, <1>6, <2>1 DEF DiffExact
<1>14. CacheCurrent'
  <2>1. CASE r = "ok"
    BY <1>4, <1>5, <2>1 DEF CacheCurrent
  <2>2. CASE r = "ackLost"
    BY <1>6, <2>2 DEF CacheCurrent
  <2> QED
    BY <2>1, <2>2
<1> QED
  BY <1>7, <1>9, <1>10, <1>11, <1>12, <1>13, <1>14 DEF DocInv, RowInv

(* A publication: refused, made, or made and answered with 500. *)
LEMMA PublishWriteInv ==
  ASSUME DocInv, MediaInv', NEW a \in Editors, PublishWrite(a)
  PROVE  DocInv'
<1>0. pc[a] = "pWrite" /\ UNCHANGED <<ann, cache>> /\ a \in Requests
  BY DEF PublishWrite, Requests
<1>1. CASE Rest(a) /\ UNCHANGED <<doc, before, stale>>
  BY <1>0, <1>1, RestInv DEF docVars
<1>2. CASE Publish(a, "ok") /\ GoTo(a, "pCache") /\ UNCHANGED <<text, snap, built>>
  BY <1>0, <1>2, PublishInv
<1>3. CASE Publish(a, "ackLost") /\ End(a)
  BY <1>0, <1>3, PublishInv
<1> QED
  BY <1>1, <1>2, <1>3 DEF PublishWrite

(* A request that sets the cache at its end, to nothing or to what it has read or published. *)
LEMMA CacheSetInv ==
  ASSUME DocInv, MediaInv', NEW a \in Requests, Rest(a), UNCHANGED <<doc, ann, before>>,
         cache' \in Pubs, stale' \in {stale \cup {"cache"}, stale \ {"cache"}},
         cache' \in {None, doc.pub} \/ "cache" \in stale'
  PROVE  DocInv'
<1> USE DEF DocInv
<1>1. DocTypes' /\ End(a)
  BY EndFacts, RestFacts DEF DocTypes, Rest
<1>2. CacheCurrent'
  BY DEF CacheCurrent
<1> QED
  BY <1>1, <1>2, EndFacts, RestFacts, RowKept

(* An editor that goes on without ending: the row, the cache and the others stay. *)
LEMMA StepOnInv ==
  ASSUME DocInv, MediaInv', NEW a \in Editors, NEW s \in PCs, GoTo(a, s), s # "pCache",
         UNCHANGED <<docVars, docHistory>>, pc[a] # "pCache",
         text' \in [Editors -> DraftIds], snap' \in [Requests -> Docs],
         built' \in [Editors -> Pubs], snap'[a] \in {snap[a], doc},
         \A b \in Requests : b # a => snap'[b] = snap[b],
         \A b \in Editors : b # a => text'[b] = text[b] /\ built'[b] = built[b],
         s \in {"sRead", "sWrite"} => text'[a] \in Drafts,
         s \in {"pAnn", "pApps", "pWrite"} =>
           built'[a].draft = snap'[a].draft /\ snap'[a].draft \in Drafts /\ doc # NoDoc,
         s \in {"pAnn", "pApps", "pWrite"} /\ "save" \notin overtaken[a] => snap'[a].draft = doc.draft,
         s \in {"sWrite", "pAnn", "pApps", "pWrite"} /\ "publish" \notin overtaken[a] =>
           snap'[a].pub = doc.pub,
         s \notin {"sWrite", "pAnn", "pApps", "pWrite"} => overtaken[a] = {},
         s # "vFill"
  PROVE  DocInv'
<1> USE DEF DocInv, docVars, docHistory, Requests, GoTo
<1>1. /\ pc' \in [Requests -> PCs] /\ pc'[a] = s
      /\ \A b \in Requests : b # a => pc'[b] = pc[b]
  BY DEF DocTypes
<1>2. DocTypes'
  BY <1>1 DEF DocTypes
<1>3. CacheCurrent'
  BY <1>1 DEF CacheCurrent
<1> QED
  BY <1>1, <1>2, <1>3, RowKept

(* Every step of an editor keeps the invariant. *)
LEMMA EditorInv ==
  ASSUME DocInv, MediaInv', NEW a \in Editors, EditorStep(a)
  PROVE  DocInv'
<1> USE PortalAssumption DEF Requests
<1>0. /\ text \in [Editors -> DraftIds] /\ snap \in [Requests -> Docs]
      /\ built \in [Editors -> Pubs] /\ doc \in Docs /\ Drafts \subseteq DraftIds
  BY DEF DocInv, DocTypes, DraftIds
<1>00. \A b \in Requests : b \notin Reading => overtaken[b] = {}
  BY DEF DocInv, Fresh
<1>1. ASSUME NEW d \in Drafts, SaveArrive(a, d) PROVE DocInv'
  BY <1>0, <1>00, <1>1, StepOnInv DEF SaveArrive, PCs, Reading
<1>2. CASE SaveRead(a)
  <2>1. text[a] \in Drafts
    BY <1>2 DEF SaveRead, DocInv, InHand
  <2> QED
    BY <1>0, <1>2, <2>1, StepOnInv DEF SaveRead, PCs
<1>3. CASE SaveWrite(a)
  BY <1>3, SaveWriteInv
<1>4. CASE SaveFault(a)
  BY <1>4, RestInv DEF SaveFault
<1>5. CASE SaveDone(a)
  BY <1>5, CacheSetInv, NoneTypes DEF SaveDone
<1>6. CASE PublishArrive(a)
  BY <1>0, <1>00, <1>6, StepOnInv DEF PublishArrive, PCs, Reading
<1>7. CASE PublishRead(a)
  <2>1. doc.draft \in Drafts /\ doc.draft \in DraftIds /\ doc # NoDoc
    BY <1>0, <1>7 DEF PublishRead, DocInv, InHand
  <2>2. [draft |-> doc.draft, ann |-> Own, apps |-> Own] \in Pubs
    BY <2>1 DEF Pubs, Own
  <2>3. /\ built' \in [Editors -> Pubs] /\ built'[a].draft = doc.draft
        /\ \A b \in Editors : b # a => built'[b] = built[b]
    BY <1>0, <1>7, <2>2 DEF PublishRead
  <2>4. /\ snap' \in [Requests -> Docs] /\ snap'[a] = doc
        /\ \A b \in Requests : b # a => snap'[b] = snap[b]
    BY <1>0, <1>7 DEF PublishRead
  <2>5. PICK s \in {"pAnn", "pWrite"} : GoTo(a, s)
    BY <1>7 DEF PublishRead
  <2> QED
    BY <1>0, <1>7, <2>1, <2>3, <2>4, <2>5, StepOnInv DEF PublishRead, PCs
<1>8. CASE PublishNothing(a)
  BY <1>8, RestInv DEF PublishNothing
<1>9. CASE MirrorAnnouncements(a)
  <2>1. /\ built[a].draft = snap[a].draft /\ snap[a].draft \in Drafts /\ doc # NoDoc
        /\ "save" \notin overtaken[a] => snap[a].draft = doc.draft
        /\ "publish" \notin overtaken[a] => snap[a].pub = doc.pub
    BY <1>9 DEF MirrorAnnouncements, DocInv, InHand, Fresh, Requests
  <2>2. ann \in Nat
    BY DEF DocInv, DocTypes
  <2>3. /\ built' \in [Editors -> Pubs] /\ built'[a].draft = built[a].draft
        /\ \A b \in Editors : b # a => built'[b] = built[b]
    BY <1>0, <1>9, <2>2 DEF MirrorAnnouncements, Pubs
  <2> QED
    BY <1>0, <1>9, <2>1, <2>3, StepOnInv DEF MirrorAnnouncements, PCs
<1>10. CASE MirrorDownloads(a)
  <2>1. /\ built[a].draft = snap[a].draft /\ snap[a].draft \in Drafts /\ doc # NoDoc
        /\ "save" \notin overtaken[a] => snap[a].draft = doc.draft
        /\ "publish" \notin overtaken[a] => snap[a].pub = doc.pub
    BY <1>10 DEF MirrorDownloads, DocInv, InHand, Fresh, Requests
  <2>2. Apps \in SUBSET ({"exists", "gone"} \X [Slots -> Nat])
    BY DEF DocInv, MediaInv, MediaTypeOK, Apps
  <2>3. /\ built' \in [Editors -> Pubs] /\ built'[a].draft = built[a].draft
        /\ \A b \in Editors : b # a => built'[b] = built[b]
    BY <1>0, <1>10, <2>2 DEF MirrorDownloads, Pubs
  <2> QED
    BY <1>0, <1>10, <2>1, <2>3, StepOnInv DEF MirrorDownloads, PCs
<1>11. CASE PublishWrite(a)
  BY <1>11, PublishWriteInv
<1>12. CASE PublishDone(a)
  <2>1. built[a] \in Pubs /\ ("publish" \notin overtaken[a] => built[a] = doc.pub)
    BY <1>0, <1>12 DEF PublishDone, DocInv, Fresh
  <2> QED
    BY <1>12, <2>1, CacheSetInv DEF PublishDone, Mark
<1>13. CASE SelectFault(a)
  BY <1>13, RestInv DEF SelectFault
<1> QED
  BY <1>1, <1>2, <1>3, <1>4, <1>5, <1>6, <1>7, <1>8, <1>9, <1>10, <1>11, <1>12, <1>13
  DEF EditorStep

(* Every step of a viewer, of the announcements and of the files keeps it, and a restart. *)
LEMMA OthersInv ==
  ASSUME DocInv, MediaInv',
         \/ \E a \in Viewers : ViewRead(a) \/ ViewFill(a)
         \/ EditAnnouncements \/ Restart \/ UNCHANGED portalVars
  PROVE  DocInv'
<1>1. ASSUME NEW a \in Viewers, ViewRead(a) PROVE DocInv'
  <2>1. /\ pc' \in [Requests -> PCs] /\ pc'[a] = "vFill"
        /\ \A b \in Requests : b # a => pc'[b] = pc[b] /\ snap'[b] = snap[b]
        /\ snap' \in [Requests -> Docs] /\ snap'[a] = doc
        /\ UNCHANGED <<docVars, text, built, docHistory>> /\ a \in Requests
    BY <1>1 DEF ViewRead, GoTo, Requests, DocInv, DocTypes, PCs
  <2>2. DocTypes'
    BY <2>1 DEF DocTypes, DocInv, docVars, docHistory
  <2>3. CacheCurrent'
    BY <1>1 DEF ViewRead, CacheCurrent, docVars
  <2> QED
    BY <2>1, <2>2, <2>3, RowKept DEF docVars, docHistory
<1>2. ASSUME NEW a \in Viewers, ViewFill(a) PROVE DocInv'
  <2>1. snap[a].pub \in Pubs /\ ("publish" \notin overtaken[a] => snap[a].pub = doc.pub)
    BY <1>2 DEF ViewFill, DocInv, DocTypes, Fresh, Docs, Requests
  <2> QED
    BY <1>2, <2>1, CacheSetInv DEF ViewFill, Requests, Mark
<1>3. CASE EditAnnouncements
  <2> USE <1>3 DEF EditAnnouncements, DocInv, docHistory
  <2>1. DocTypes'
    BY DEF DocTypes
  <2>2. InHand' /\ Fresh' /\ RowInv' /\ Counts' /\ CacheCurrent'
    BY DEF InHand, Fresh, Reading, RowInv, StatusTellsDraft, DiffExact, Counts, CacheCurrent
  <2> QED
    BY <2>1, <2>2
<1>4. CASE Restart
  <2> USE <1>4, NoneTypes DEF Restart, DocInv, docHistory
  <2>1. DocTypes'
    BY DEF DocTypes, DraftIds, PCs
  <2>2. InHand' /\ Fresh' /\ CacheCurrent'
    BY DEF InHand, Fresh, CacheCurrent, Requests
  <2>3. RowInv'
    BY DEF RowInv, StatusTellsDraft, DiffExact
  <2>4. Counts'
    BY DEF Counts, NoDoc
  <2> QED
    BY <2>1, <2>2, <2>3, <2>4
<1>5. CASE UNCHANGED portalVars
  BY <1>5 DEF portalVars, docVars, docHistory, DocInv, DocTypes, InHand, Fresh, Reading,
     RowInv, StatusTellsDraft, DiffExact, Counts, CacheCurrent
<1> QED
  BY <1>1, <1>2, <1>3, <1>4, <1>5

LEMMA DocNext ==
  ASSUME DocInv, [Next]_vars PROVE DocInv'
<1>1. MediaInv'
  BY FilesStep DEF DocInv
<1>2. CASE PortalStep
  BY <1>1, <1>2, EditorInv, OthersInv DEF PortalStep
<1>3. CASE Restart \/ UNCHANGED portalVars
  BY <1>1, <1>3, OthersInv
<1> QED
  BY <1>2, <1>3 DEF Next, vars

(* However saves, publications and public reads overlap (PUT /draft, POST  *)
(* /publish, GET /resources): status, cache and diff tell what the row is, *)
(* but for the part that an overtaken request has set last, and the cache  *)
(* of a publication that was made and answered with 500.                   *)
THEOREM PortalSafety == Spec => [](StatusTellsDraft /\ CacheCurrent /\ DiffExact)
<1>1. DocInv /\ [Next]_vars => DocInv'
  BY DocNext
<1>2. DocInv => StatusTellsDraft /\ CacheCurrent /\ DiffExact
  BY DEF DocInv, RowInv
<1> QED
  BY DocInitInv, <1>1, <1>2, PTL DEF Spec

(* Its part about the status: a save and a publication that overtake each  *)
(* other are the only way to a status that lies, until the next write.     *)
THEOREM StatusTells == Spec => []StatusTellsDraft
  BY PortalSafety, PTL

(* Its part about the difference stored with a publication: only another   *)
(* publication in between makes it wrong.                                  *)
THEOREM DiffTells == Spec => []DiffExact
  BY PortalSafety, PTL
-----------------------------------------------------------------------------
(***************************************************************************)
(* The versions.  A request that writes counts on from the row it read,    *)
(* and after a race the row may even go back; but no version that the row  *)
(* or a request in progress has exceeds the requests that were made        *)
(* without those that have yet to write.                                   *)
(***************************************************************************)
Pending == {a \in Requests : pc[a] \in {"sRead", "sWrite", "pRead", "pAnn", "pApps", "pWrite"}}

Bounded(m, n) ==
  /\ doc.draftV <= m /\ doc.pubV <= n
  /\ \A a \in Requests : snap[a].draftV <= m /\ snap[a].pubV <= n
  /\ m + n + Cardinality(Pending) <= requests

VersionInv == IsFiniteSet(Pending) /\ \E m, n \in Nat : Bounded(m, n)

LEMMA VersionTypes ==
  ASSUME DocInv
  PROVE  /\ requests \in Nat /\ doc.draftV \in Nat /\ doc.pubV \in Nat
         /\ \A a \in Requests : snap[a].draftV \in Nat /\ snap[a].pubV \in Nat
         /\ NoDoc.draftV = 0 /\ NoDoc.pubV = 0
  BY MediaAssumption DEF DocInv, MediaInv, MediaTypeOK, DocTypes, Docs, NoDoc

(* A request that is not counted any more makes room for one version.      *)
LEMMA Leaves ==
  ASSUME VersionInv, NEW a, Pending' \subseteq Pending \ {a}
  PROVE  /\ IsFiniteSet(Pending') /\ Cardinality(Pending') \in Nat
         /\ Cardinality(Pending) \in Nat /\ Cardinality(Pending') <= Cardinality(Pending)
         /\ a \in Pending => Cardinality(Pending') + 1 <= Cardinality(Pending)
<1>1. IsFiniteSet(Pending) /\ Cardinality(Pending) \in Nat
  BY FS_CardinalityType DEF VersionInv
<1>2. IsFiniteSet(Pending \ {a}) /\ Cardinality(Pending \ {a}) \in Nat
      /\ Cardinality(Pending \ {a}) = IF a \in Pending THEN Cardinality(Pending) - 1
                                      ELSE Cardinality(Pending)
  BY <1>1, FS_RemoveElement, FS_CardinalityType
<1>3. IsFiniteSet(Pending') /\ Cardinality(Pending') \in Nat
      /\ Cardinality(Pending') <= Cardinality(Pending \ {a})
  BY <1>2, FS_Subset, FS_CardinalityType
<1>4. QED
  BY <1>1, <1>2, <1>3

(* Steps that write no version: rows that are read, and requests that end. *)
LEMMA VersionsKept ==
  ASSUME DocInv, DocInv', VersionInv, requests <= requests', Pending' \subseteq Pending,
         doc'.draftV = doc.draftV, doc'.pubV = doc.pubV,
         \A a \in Requests : snap'[a] \in {snap[a], doc, NoDoc}
  PROVE  VersionInv'
<1>1. PICK m \in Nat, n \in Nat : Bounded(m, n)
  BY DEF VersionInv
<1>2. IsFiniteSet(Pending) /\ IsFiniteSet(Pending') /\ Cardinality(Pending) \in Nat
      /\ Cardinality(Pending') \in Nat /\ Cardinality(Pending') <= Cardinality(Pending)
  BY FS_Subset, FS_CardinalityType DEF VersionInv
<1>3. requests \in Nat /\ requests' \in Nat /\ NoDoc.draftV = 0 /\ NoDoc.pubV = 0
  BY VersionTypes DEF DocInv, MediaInv, MediaTypeOK
<1>4. \A a \in Requests : snap'[a].draftV <= m /\ snap'[a].pubV <= n
  BY <1>1, <1>3 DEF Bounded
<1>5. m + n + Cardinality(Pending)' <= requests'
  BY <1>1, <1>2, <1>3 DEF Bounded
<1>6. Bounded(m, n)'
  BY <1>1, <1>4, <1>5 DEF Bounded
<1>7. QED
  BY <1>2, <1>6 DEF VersionInv

(* A request arrives: it may write one version more.                       *)
LEMMA VersionsArrive ==
  ASSUME DocInv, DocInv', VersionInv, NEW a \in Requests, requests' = requests + 1,
         Pending' \subseteq Pending \cup {a}, doc' = doc, snap' = snap
  PROVE  VersionInv'
<1>1. PICK m \in Nat, n \in Nat : Bounded(m, n)
  BY DEF VersionInv
<1>2. IsFiniteSet(Pending) /\ Cardinality(Pending) \in Nat
  BY FS_CardinalityType DEF VersionInv
<1>3. IsFiniteSet(Pending \cup {a}) /\ Cardinality(Pending \cup {a}) \in Nat
      /\ Cardinality(Pending \cup {a}) <= Cardinality(Pending) + 1
  <2>1. IsFiniteSet(Pending \cup {a})
    BY <1>2, FS_AddElement
  <2>2. Cardinality(Pending \cup {a}) \in {Cardinality(Pending), Cardinality(Pending) + 1}
    BY <1>2, FS_AddElement
  <2>3. QED
    BY <1>2, <2>1, <2>2
<1>4. IsFiniteSet(Pending') /\ Cardinality(Pending') \in Nat
      /\ Cardinality(Pending') <= Cardinality(Pending) + 1
  BY <1>2, <1>3, FS_Subset, FS_CardinalityType
<1>5. requests \in Nat
  BY VersionTypes
<1>6. m + n + Cardinality(Pending)' <= requests'
  BY <1>1, <1>2, <1>4, <1>5 DEF Bounded
<1>7. Bounded(m, n)'
  BY <1>1, <1>6 DEF Bounded
<1>8. QED
  BY <1>4, <1>7 DEF VersionInv

(* A request writes a version that is one more than the one it has read.   *)
LEMMA VersionsWritten ==
  ASSUME DocInv, DocInv', VersionInv, NEW a \in Requests, a \in Pending, Pending' \subseteq Pending \ {a},
         requests' = requests, \A b \in Requests : snap'[b] \in {snap[b], NoDoc},
         \/ doc'.draftV \in {1, snap[a].draftV + 1} /\ doc'.pubV \in {0, doc.pubV}
         \/ doc'.draftV = doc.draftV /\ doc'.pubV = snap[a].pubV + 1
  PROVE  VersionInv'
<1>1. PICK m \in Nat, n \in Nat : Bounded(m, n)
  BY DEF VersionInv
<1>2. IsFiniteSet(Pending') /\ Cardinality(Pending') \in Nat /\ Cardinality(Pending) \in Nat
      /\ Cardinality(Pending') + 1 <= Cardinality(Pending)
  BY Leaves
<1>3. /\ requests \in Nat /\ doc.draftV \in Nat /\ doc.pubV \in Nat
      /\ \A b \in Requests : snap[b].draftV \in Nat /\ snap[b].pubV \in Nat
      /\ NoDoc.draftV = 0 /\ NoDoc.pubV = 0
  BY VersionTypes
<1>4. ASSUME NEW k \in Nat, NEW l \in Nat, m <= k, n <= l, k + l <= m + n + 1,
             doc'.draftV <= k, doc'.pubV <= l
      PROVE  Bounded(k, l)'
  <2>1. \A b \in Requests : snap[b].draftV <= k /\ snap[b].pubV <= l
    BY <1>1, <1>3, <1>4 DEF Bounded
  <2>2. \A b \in Requests : snap'[b].draftV <= k /\ snap'[b].pubV <= l
    BY <1>3, <2>1
  <2>3. k + l + Cardinality(Pending)' <= requests'
    BY <1>1, <1>2, <1>3, <1>4 DEF Bounded
  <2>4. QED
    BY <1>4, <2>2, <2>3 DEF Bounded
<1>5. doc.draftV <= m /\ doc.pubV <= n /\ snap[a].draftV <= m /\ snap[a].pubV <= n
  BY <1>1 DEF Bounded
<1>6. CASE doc'.draftV \in {1, snap[a].draftV + 1} /\ doc'.pubV \in {0, doc.pubV}
  <2>1. Bounded(m + 1, n)'
    BY <1>3, <1>4, <1>5, <1>6
  <2>2. m + 1 \in Nat /\ IsFiniteSet(Pending)'
    BY <1>2
  <2>3. QED
    BY <2>1, <2>2 DEF VersionInv
<1>7. CASE doc'.draftV = doc.draftV /\ doc'.pubV = snap[a].pubV + 1
  <2>1. Bounded(m, n + 1)'
    BY <1>3, <1>4, <1>5, <1>7
  <2>2. n + 1 \in Nat /\ IsFiniteSet(Pending)'
    BY <1>2
  <2>3. QED
    BY <2>1, <2>2 DEF VersionInv
<1>8. QED
  BY <1>6, <1>7

(* Where a request of an editor goes, and what it has read.                *)
LEMMA Progress ==
  ASSUME DocInv, NEW a \in Requests, End(a) \/ \E s \in PCs : GoTo(a, s)
  PROVE  /\ \A b \in Requests : b # a => pc'[b] = pc[b]
         /\ Pending' \subseteq Pending \cup {a}
         /\ pc'[a] \notin {"sRead", "sWrite", "pRead", "pAnn", "pApps", "pWrite"} => Pending' \subseteq Pending \ {a}
         /\ End(a) => /\ pc'[a] = "idle"
                       /\ \A b \in Requests : snap'[b] \in {snap[b], NoDoc}
<1>1. pc \in [Requests -> PCs] /\ snap \in [Requests -> Docs]
  BY DEF DocInv, DocTypes
<1>2. \A b \in Requests : b # a => pc'[b] = pc[b]
  BY <1>1 DEF End, GoTo
<1>3. End(a) => pc'[a] = "idle" /\ \A b \in Requests : snap'[b] \in {snap[b], NoDoc}
  BY <1>1 DEF End, GoTo
<1>4. QED
  BY <1>2, <1>3 DEF Pending

LEMMA VersionEditor ==
  ASSUME DocInv, DocInv', VersionInv, NEW a \in Editors, EditorStep(a) PROVE VersionInv'
<1> USE DEF docVars
<1>0. a \in Requests /\ pc \in [Requests -> PCs] /\ snap \in [Requests -> Docs] /\ requests \in Nat
  BY VersionTypes DEF DocInv, DocTypes, Requests
<1>1. CASE (\E d \in Drafts : SaveArrive(a, d)) \/ PublishArrive(a)
  <2>1. requests' = requests + 1 /\ UNCHANGED <<doc, snap>> /\ \E s \in PCs : GoTo(a, s)
    BY <1>1 DEF SaveArrive, PublishArrive, PCs
  <2>2. QED
    BY <1>0, <2>1, Progress, VersionsArrive
<1>2. CASE SaveRead(a) \/ PublishRead(a) \/ MirrorAnnouncements(a) \/ MirrorDownloads(a)
  <2>1. /\ requests' = requests /\ doc' = doc /\ a \in Pending /\ \E s \in PCs : GoTo(a, s)
        /\ \A b \in Requests : snap'[b] \in {snap[b], doc}
    BY <1>0, <1>2 DEF SaveRead, PublishRead, MirrorAnnouncements, MirrorDownloads, PCs, Pending
  <2>2. Pending' \subseteq Pending
    BY <1>0, <2>1, Progress
  <2>3. QED
    BY <1>0, <2>1, <2>2, VersionsKept
<1>3. CASE SaveDone(a) \/ PublishNothing(a) \/ PublishDone(a) \/ SelectFault(a) \/ SaveFault(a)
  <2>1. End(a) /\ requests' = requests /\ doc' = doc
    BY <1>3 DEF SaveDone, PublishNothing, PublishDone, SelectFault, SaveFault, Rest
  <2>2. Pending' \subseteq Pending /\ \A b \in Requests : snap'[b] \in {snap[b], doc, NoDoc}
    BY <1>0, <2>1, Progress
  <2>3. QED
    BY <1>0, <2>1, <2>2, VersionsKept
<1>4. CASE SaveWrite(a)
  <2>1. PICK r \in {"ok"} \cup DbFaults :
          /\ SaveInsert(a, r) \/ SaveUpdate(a, r)
          /\ IF r = "ok" THEN GoTo(a, "sCache") /\ UNCHANGED <<text, snap, built>> ELSE End(a)
    BY <1>4 DEF SaveWrite
  <2>2. requests' = requests /\ a \in Pending
    BY <1>0, <1>4 DEF SaveWrite, SaveInsert, SaveUpdate, Pending
  <2>3. Pending' \subseteq Pending \ {a} /\ \A b \in Requests : snap'[b] \in {snap[b], NoDoc}
    <3>1. CASE r = "ok"
      <4>1. GoTo(a, "sCache") /\ snap' = snap /\ "sCache" \in PCs
        BY <2>1, <3>1 DEF PCs
      <4>2. pc'[a] = "sCache"
        BY <1>0, <4>1 DEF GoTo
      <4>3. QED
        BY <1>0, <4>1, <4>2, Progress
    <3>2. CASE r # "ok"
      BY <1>0, <2>1, <3>2, Progress
    <3>3. QED
      BY <3>1, <3>2
  <2>4. doc \in Docs
    BY DEF DocInv, DocTypes
  <2>5. doc'.draftV \in {1, snap[a].draftV + 1} /\ doc'.pubV \in {0, doc.pubV}
    BY <2>1, <2>4 DEF SaveInsert, SaveUpdate, NoDoc, Docs
  <2>6. QED
    BY <1>0, <2>2, <2>3, <2>5, VersionsWritten
<1>5. CASE PublishWrite(a)
  <2>1. requests' = requests /\ a \in Pending /\ doc \in Docs
    BY <1>0, <1>5 DEF PublishWrite, Pending, DocInv, DocTypes
  <2>2. CASE Rest(a) /\ UNCHANGED <<doc, before, stale>>
    <3>1. Pending' \subseteq Pending \ {a} /\ \A b \in Requests : snap'[b] \in {snap[b], NoDoc}
      BY <1>0, <2>2, Progress DEF Rest
    <3>2. QED
      BY <1>0, <2>1, <2>2, <3>1, VersionsKept
  <2>3. CASE Publish(a, "ok") /\ GoTo(a, "pCache") /\ UNCHANGED <<text, snap, built>>
    <3>1. GoTo(a, "pCache") /\ snap' = snap /\ "pCache" \in PCs
      BY <2>3 DEF PCs
    <3>2. pc'[a] = "pCache"
      BY <1>0, <3>1 DEF GoTo
    <3>3. Pending' \subseteq Pending \ {a} /\ \A b \in Requests : snap'[b] \in {snap[b], NoDoc}
      BY <1>0, <3>1, <3>2, Progress
    <3>4. doc'.draftV = doc.draftV /\ doc'.pubV = snap[a].pubV + 1
      BY <2>1, <2>3 DEF Publish, Docs
    <3>5. QED
      BY <1>0, <2>1, <3>3, <3>4, VersionsWritten
  <2>4. CASE Publish(a, "ackLost") /\ End(a)
    <3>1. Pending' \subseteq Pending \ {a} /\ \A b \in Requests : snap'[b] \in {snap[b], NoDoc}
      BY <1>0, <2>4, Progress
    <3>2. doc'.draftV = doc.draftV /\ doc'.pubV = snap[a].pubV + 1
      BY <2>1, <2>4 DEF Publish, Docs
    <3>3. QED
      BY <1>0, <2>1, <3>1, <3>2, VersionsWritten
  <2>5. QED
    BY <1>5, <2>2, <2>3, <2>4 DEF PublishWrite
<1>6. QED
  BY <1>1, <1>2, <1>3, <1>4, <1>5 DEF EditorStep

LEMMA MediaCounts ==
  ASSUME (\E a \in Uploaders : MediaStep(a)) \/ DeleteApp
  PROVE  requests' \in {requests, requests + 1}
  BY DEF MediaStep, DeleteApp, UploadArrive, UploadSelect, UploadNoApp, UploadUnlink, UploadUpdate,
         UploadMeta, UploadFault, UploadCatch, RemoveArrive, RemoveSelect, RemoveNoApp, RemoveUnlink,
         RemoveUpdate, RemoveFault

LEMMA VersionNext ==
  ASSUME DocInv, DocInv', VersionInv, [Next]_vars PROVE VersionInv'
<1>0. pc \in [Requests -> PCs] /\ snap \in [Requests -> Docs] /\ requests \in Nat
  BY VersionTypes DEF DocInv, DocTypes
<1>1. ASSUME NEW a \in Editors, EditorStep(a) PROVE VersionInv'
  BY <1>1, VersionEditor
<1>2. ASSUME NEW a \in Viewers, ViewRead(a) \/ ViewFill(a) PROVE VersionInv'
  <2>1. a \in Requests /\ requests' = requests /\ doc' = doc
    BY <1>2 DEF ViewRead, ViewFill, docVars, Requests
  <2>2. CASE ViewRead(a)
    <3>1. GoTo(a, "vFill") /\ "vFill" \in PCs /\ \A b \in Requests : snap'[b] \in {snap[b], doc}
      BY <1>0, <2>2 DEF ViewRead, PCs
    <3>2. pc'[a] = "vFill"
      BY <1>0, <2>1, <3>1 DEF GoTo
    <3>3. Pending' \subseteq Pending
      BY <2>1, <3>1, <3>2, Progress
    <3>4. QED
      BY <1>0, <2>1, <3>1, <3>3, VersionsKept
  <2>3. CASE ViewFill(a)
    <3>1. End(a)
      BY <2>3 DEF ViewFill, Rest
    <3>2. Pending' \subseteq Pending /\ \A b \in Requests : snap'[b] \in {snap[b], NoDoc}
      BY <2>1, <3>1, Progress
    <3>3. QED
      BY <1>0, <2>1, <3>2, VersionsKept
  <2>4. QED
    BY <1>2, <2>2, <2>3
<1>3. CASE EditAnnouncements \/ UNCHANGED vars
  <2>1. UNCHANGED <<doc, snap, pc, requests>>
    BY <1>3 DEF EditAnnouncements, vars, portalVars, docVars, mediaVars
  <2>2. Pending' = Pending
    BY <2>1 DEF Pending
  <2>3. QED
    BY <1>0, <2>1, <2>2, VersionsKept
<1>4. CASE ((\E a \in Uploaders : MediaStep(a)) \/ DeleteApp) /\ UNCHANGED portalVars
  <2>1. UNCHANGED <<doc, snap, pc>>
    BY <1>4 DEF portalVars, docVars
  <2>2. requests' \in {requests, requests + 1}
    BY <1>4, MediaCounts
  <2>3. Pending' = Pending
    BY <2>1 DEF Pending
  <2>4. QED
    BY <1>0, <2>1, <2>2, <2>3, VersionsKept
<1>5. CASE Restart
  <2>1. doc' = doc /\ requests' = requests /\ \A b \in Requests : pc'[b] = "idle" /\ snap'[b] = NoDoc
    BY <1>5 DEF Restart
  <2>2. Pending' = {}
    BY <2>1 DEF Pending
  <2>3. QED
    BY <1>0, <2>1, <2>2, VersionsKept
<1>6. QED
  BY <1>1, <1>2, <1>3, <1>4, <1>5 DEF Next, PortalStep

(* The variables keep their types, and the versions of draft and published *)
(* text together never exceed the requests that were made, although a      *)
(* write that meets another one may set a version back.                    *)
THEOREM PortalTypes == Spec => []TypeOK
<1>1. Init => VersionInv
  <2> SUFFICES ASSUME Init PROVE VersionInv
    OBVIOUS
  <2>1. Pending = {} /\ doc = NoDoc /\ requests = 0 /\ \A a \in Requests : snap[a] = NoDoc
    BY DEF Init, MediaInit, Pending
  <2>2. IsFiniteSet(Pending) /\ Cardinality(Pending) = 0
    BY <2>1, FS_EmptySet
  <2>3. Bounded(0, 0)
    BY <2>1, <2>2 DEF Bounded, NoDoc
  <2>4. QED
    BY <2>2, <2>3 DEF VersionInv
<1>2. DocInv /\ VersionInv /\ [Next]_vars => DocInv' /\ VersionInv'
  BY DocNext, VersionNext
<1>3. DocInv /\ VersionInv => TypeOK
  <2> SUFFICES ASSUME DocInv, VersionInv PROVE TypeOK
    OBVIOUS
  <2>1. PICK m \in Nat, n \in Nat : Bounded(m, n)
    BY DEF VersionInv
  <2>2. Cardinality(Pending) \in Nat
    BY FS_CardinalityType DEF VersionInv
  <2>3. doc.draftV + doc.pubV \in 0..requests
    BY <2>1, <2>2, VersionTypes DEF Bounded
  <2>4. QED
    BY <2>3 DEF DocInv, MediaInv, DocTypes, Docs, TypeOK
<1> QED
  BY DocInitInv, <1>1, <1>2, <1>3, PTL DEF Spec
=============================================================================
