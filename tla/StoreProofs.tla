----------------------------- MODULE StoreProofs -----------------------------
(***************************************************************************)
(* Three of the stores, for any number of processes, requests and faults,  *)
(* and all six side by side.                                               *)
(*                                                                         *)
(* Memoized results: no request that begins after an _update call has      *)
(* stored its result gets an older one, as long as no lock has expired     *)
(* under its holder.                                                       *)
(*                                                                         *)
(* The wiki page: while requests do not overlap, what was edited is what   *)
(* the page and the subreddit's attribute read.                            *)
(*                                                                         *)
(* Rate limits: a slice of time admits no more requests than the limit and *)
(* those that run at the same time, and its count is its own although its  *)
(* key is used again the next day.                                         *)
(***************************************************************************)
EXTENDS MCStores, ListingProofs, PromoteProofs, SequenceTheorems, FiniteSetTheorems, TLAPS

-----------------------------------------------------------------------------
(* Memoized results: the inductive invariant                               *)

\* Whoever is past the lock has something to store, or has returned something.
ResultKnown ==
    \A p \in Callers : memoAt[p] \in {"set", "returned"} => res[p] # NoResult

\* No request began at a version that was not yet there, and none is stored.
FloorsOrdered ==
    /\ floor <= version
    /\ \A p \in Callers : since[p] <= floor /\ (memoAt[p] = "set" => res[p] <= version)

MemoTyped == MemoizeTypeOK /\ ResultKnown /\ FloorsOrdered

\* The block of the lock is one caller's, so what it computed there is not
\* older than what an _update call has stored; and memcached keeps no older one.
LockedIsAlone ==
    \A p \in Callers : memoAt[p] \in {"again", "compute", "set"} => memoLock = p

MemoNotOlder == memo # NoResult => memo >= floor

ComputedNotOlder == \A p \in Callers : memoAt[p] = "set" => res[p] >= floor

LocalNotOlder ==
    \A p \in Callers : localMemo[p] # NoResult => localMemo[p] >= since[p]

ReturnedNotOlder ==
    \A p \in Callers :
        (memoAt[p] = "returned" /\ how[p] # "stale") => res[p] >= since[p]

MemoFresh ==
    /\ LockedIsAlone /\ MemoNotOlder /\ ComputedNotOlder /\ LocalNotOlder
    /\ ReturnedNotOlder

MemoInv == MemoTyped /\ (~expired => MemoFresh)

(***************************************************************************)
(* Every step of a request, of a call of the memoized function and of the  *)
(* caches keeps the state typed, and floor and since in their order.       *)
(***************************************************************************)
LEMMA MemoTypedStep == MemoTyped /\ [MemoizeNext]_memoVars => MemoTyped'
  <1> SUFFICES ASSUME MemoTyped, [MemoizeNext]_memoVars
               PROVE  MemoTyped'
    OBVIOUS
  <1> USE MemoizeAssumption
      DEF MemoTyped, MemoizeTypeOK, ResultKnown, FloorsOrdered, Results
  <1>1. ASSUME NEW p \in Callers, Begin(p)
        PROVE  MemoTyped'
    BY <1>1 DEF Begin, MemoGoto
  <1>2. ASSUME NEW p \in Callers, NEW h \in {"plain", "stale", "update"}, CallMemo(p, h)
        PROVE  MemoTyped'
    BY <1>2 DEF CallMemo, MemoGoto, memoCaches, memoBounds
  <1>3. ASSUME NEW p \in Callers, ChainGet(p)
        PROVE  MemoTyped'
    BY <1>3 DEF ChainGet, Returned, MemoGoto, memoBounds
  <1>4. ASSUME NEW p \in Callers, TakeMemoLock(p)
        PROVE  MemoTyped'
    BY <1>4 DEF TakeMemoLock, MemoGoto, memoCaches, memoBounds
  <1>5. ASSUME NEW p \in Callers, GetAgain(p)
        PROVE  MemoTyped'
    BY <1>5 DEF GetAgain, Returned, MemoGoto, ReleaseMemoLock, memoBounds
  <1>6. ASSUME NEW p \in Callers, Compute(p)
        PROVE  MemoTyped'
    BY <1>6 DEF Compute, MemoGoto, memoCaches, memoBounds
  <1>7. ASSUME NEW p \in Callers, SetMemo(p)
        PROVE  MemoTyped'
    BY <1>7 DEF SetMemo, MemoGoto, ReleaseMemoLock, memoBounds
  <1>8. ASSUME NEW p \in Callers, MemoFails(p)
        PROVE  MemoTyped'
    BY <1>8 DEF MemoFails, MemoFault, MemoGoto, ReleaseMemoLock, memoCaches
  <1>9. ASSUME MemoLockExpires
        PROVE  MemoTyped'
    BY <1>9 DEF MemoLockExpires, MemoFault, memoCaches
  <1>10. ASSUME EvictMemo
        PROVE  MemoTyped'
    BY <1>10 DEF EvictMemo, MemoFault
  <1>11. ASSUME StaleExpires
        PROVE  MemoTyped'
    BY <1>11 DEF StaleExpires, memoBounds
  <1>12. CASE UNCHANGED memoVars
    BY <1>12 DEF memoVars, memoCaches, memoBounds
  <1>13. QED
    BY <1>1, <1>2, <1>3, <1>4, <1>5, <1>6, <1>7, <1>8, <1>9, <1>10, <1>11, <1>12
    DEF MemoizeNext, MemoStep

(***************************************************************************)
(* Without an expiry, every step keeps what memcached, the local caches    *)
(* and the holder of the lock have from being older than the floor.        *)
(***************************************************************************)
LEMMA MemoFreshStep ==
    ASSUME MemoTyped, MemoTyped', MemoFresh, ~expired', [MemoizeNext]_memoVars
    PROVE  MemoFresh'
  <1> USE MemoizeAssumption
      DEF MemoTyped, MemoizeTypeOK, ResultKnown, FloorsOrdered, Results,
          MemoFresh, LockedIsAlone, MemoNotOlder, ComputedNotOlder, LocalNotOlder,
          ReturnedNotOlder
  <1>1. ASSUME NEW p \in Callers, Begin(p)
        PROVE  MemoFresh'
    BY <1>1 DEF Begin, MemoGoto
  <1>2. ASSUME NEW p \in Callers, NEW h \in {"plain", "stale", "update"}, CallMemo(p, h)
        PROVE  MemoFresh'
    BY <1>2 DEF CallMemo, MemoGoto, memoCaches, memoBounds
  <1>3. ASSUME NEW p \in Callers, ChainGet(p)
        PROVE  MemoFresh'
    BY <1>3 DEF ChainGet, Returned, MemoGoto, memoBounds
  <1>4. ASSUME NEW p \in Callers, TakeMemoLock(p)
        PROVE  MemoFresh'
    BY <1>4 DEF TakeMemoLock, MemoGoto, memoCaches, memoBounds
  <1>5. ASSUME NEW p \in Callers, GetAgain(p)
        PROVE  MemoFresh'
    BY <1>5 DEF GetAgain, Returned, MemoGoto, ReleaseMemoLock, memoBounds
  <1>6. ASSUME NEW p \in Callers, Compute(p)
        PROVE  MemoFresh'
    BY <1>6 DEF Compute, MemoGoto, memoCaches, memoBounds
  <1>7. ASSUME NEW p \in Callers, SetMemo(p)
        PROVE  MemoFresh'
    BY <1>7 DEF SetMemo, MemoGoto, ReleaseMemoLock, memoBounds
  <1>8. ASSUME NEW p \in Callers, MemoFails(p)
        PROVE  MemoFresh'
    BY <1>8 DEF MemoFails, MemoFault, MemoGoto, ReleaseMemoLock, memoCaches
  <1>9. ASSUME MemoLockExpires
        PROVE  MemoFresh'
    BY <1>9 DEF MemoLockExpires, MemoFault, memoCaches
  <1>10. ASSUME EvictMemo
        PROVE  MemoFresh'
    BY <1>10 DEF EvictMemo, MemoFault
  <1>11. ASSUME StaleExpires
        PROVE  MemoFresh'
    BY <1>11 DEF StaleExpires, memoBounds
  <1>12. CASE UNCHANGED memoVars
    BY <1>12 DEF memoVars, memoCaches, memoBounds
  <1>13. QED
    BY <1>1, <1>2, <1>3, <1>4, <1>5, <1>6, <1>7, <1>8, <1>9, <1>10, <1>11, <1>12
    DEF MemoizeNext, MemoStep

(***************************************************************************)
(* The invariant holds throughout.                                         *)
(***************************************************************************)
LEMMA MemoInvariant == MemoizeSpec => []MemoInv
  <1>1. MemoizeInit => MemoInv
    <2> SUFFICES ASSUME MemoizeInit
                 PROVE  MemoInv
      OBVIOUS
    <2> USE MemoizeAssumption DEF MemoizeInit
    <2>1. MemoizeTypeOK
      <3>1. 0 \in 0..MaxVersion /\ 0 \in 0..MaxBegins /\ 0 \in 0..MaxMemoFaults
        OBVIOUS
      <3>2. NoResult \in Results
        BY DEF Results
      <3>3. QED
        BY <3>1, <3>2, Zenon DEF MemoizeTypeOK
    <2>2. ResultKnown /\ FloorsOrdered
      BY DEF ResultKnown, FloorsOrdered
    <2>3. MemoFresh
      BY DEF MemoFresh, LockedIsAlone, MemoNotOlder, ComputedNotOlder, LocalNotOlder,
             ReturnedNotOlder
    <2>4. QED
      BY <2>1, <2>2, <2>3 DEF MemoInv, MemoTyped
  <1>2. MemoInv /\ [MemoizeNext]_memoVars => MemoInv'
    <2> SUFFICES ASSUME MemoInv, [MemoizeNext]_memoVars
                 PROVE  MemoInv'
      OBVIOUS
    <2>1. MemoTyped'
      BY MemoTypedStep DEF MemoInv
    <2>2. ASSUME ~expired'
          PROVE  ~expired
      <3>1. MemoLockExpires \/ expired' = expired
        BY DEF MemoizeNext, MemoStep, Begin, CallMemo, ChainGet, TakeMemoLock, GetAgain,
            Compute, SetMemo, MemoFails, EvictMemo, StaleExpires, memoVars
      <3>2. QED
        BY <2>2, <3>1 DEF MemoLockExpires
    <2>3. QED
      BY <2>1, <2>2, MemoFreshStep DEF MemoInv
  <1>3. QED
    BY <1>1, <1>2, PTL DEF MemoizeSpec

(***************************************************************************)
(* memoize.py's state keeps its types, whatever expires or is evicted.     *)
(***************************************************************************)
THEOREM MemoizeTypeCorrect == MemoizeSpec => []MemoizeTypeOK
  <1>1. MemoInv => MemoizeTypeOK
    BY DEF MemoInv, MemoTyped
  <1>2. QED
    BY <1>1, MemoInvariant, PTL

(***************************************************************************)
(* A request that begins after an _update call has stored its result never *)
(* gets an older one from the memoized function, unless it says stale=True *)
(* or a lock has expired under its holder.                                 *)
(***************************************************************************)
THEOREM UpdatesAreSeen == MemoizeSpec => []NotOlderThanUpdate
  <1>1. MemoInv => NotOlderThanUpdate
    BY DEF MemoInv, MemoFresh, ReturnedNotOlder, NotOlderThanUpdate
  <1>2. QED
    BY <1>1, MemoInvariant, PTL

-----------------------------------------------------------------------------
(* The wiki page: the inductive invariant                                  *)

\* A page without a revision is empty, and whoever edits it started there.
FirstIsBlank ==
    page.revision = 0 =>
        /\ page.content = Blank /\ shown = {0}
        /\ \A r \in WikiRequests : wreq[r].force \/ wreq[r].base = Blank

\* A request about to save the page brings a revision of its own.
SavesRevision == \A r \in WikiRequests : wreq[r].at = "page" => wreq[r].copy.revision # 0

WikiTyped == WikiTypeOK /\ FirstIsBlank /\ SavesRevision

\* It has the text its edit makes of the page as the page still is.
ReadyToCommit ==
    \A r \in WikiRequests : wreq[r].at = "page" =>
        wreq[r].copy.content =
            IF ~wreq[r].force /\ page.revision # 0
            THEN ThreeWayMerge(wreq[r].base, wreq[r].content, page.content)
            ELSE wreq[r].content

\* Until there is a merge, that is the text it brought.
SavesWhatItBrought ==
    ~merged => \A r \in WikiRequests :
        wreq[r].at = "page" => wreq[r].copy.content = wreq[r].content

\* The attribute reads as the page, or will when those under way have stored it.
AttributeOnItsWay ==
    ~merged =>
        /\ \A r \in WikiRequests : wreq[r].at = "attribute" => wreq[r].content = page.content
        /\ (\A r \in WikiRequests : wreq[r].at # "attribute") => attribute = page.content

WikiKept == EditsSurvive /\ ReadyToCommit /\ SavesWhatItBrought /\ AttributeOnItsWay

WikiInv == WikiTyped /\ (~disturbed => WikiKept)

-----------------------------------------------------------------------------
(* Texts                                                                   *)

(***************************************************************************)
(* The text of a stored revision, and what an editor makes of it, are      *)
(* texts: Fresh is a wording that no revision before it has used.          *)
(***************************************************************************)
LEMMA EditsAreTexts ==
  ASSUME WikiTypeOK, NEW n \in 0..Len(revisions), NEW content \in Edited(TextOf(n))
  PROVE  TextOf(n) \in Texts /\ content \in Texts
  <1>1. Blank \in Texts
    BY WikiAssumption DEF Blank, Texts, Wordings
  <1>2. TextOf(n) \in Texts
    <2>1. CASE n = 0
      BY <1>1, <2>1 DEF TextOf
    <2>2. CASE n # 0
      <3>1. n \in 1..Len(revisions)
        BY <2>2 DEF WikiTypeOK
      <3>2. revisions[n] \in [content : Texts, deleted : BOOLEAN]
        BY <3>1, ElementOfSeq DEF WikiTypeOK
      <3>3. QED
        BY <2>2, <3>2 DEF TextOf
    <2>3. QED
      BY <2>1, <2>2
  <1>3. Fresh \in Wordings
    BY WikiAssumption DEF WikiTypeOK, Fresh, Wordings
  <1>4. QED
    BY <1>2, <1>3 DEF Edited, Texts

(***************************************************************************)
(* Merging two texts gives a text.                                         *)
(***************************************************************************)
LEMMA MergeIsText ==
  ASSUME NEW o \in Texts, NEW a \in Texts, NEW b \in Texts
  PROVE  ThreeWayMerge(o, a, b) \in Texts
  BY DEF ThreeWayMerge, Texts

-----------------------------------------------------------------------------
(* The type                                                                *)

(***************************************************************************)
(* The fields of a request in a typed state.                               *)
(***************************************************************************)
LEMMA RequestFields ==
  ASSUME WikiTypeOK, NEW r \in WikiRequests
  PROVE  /\ wreq[r].at \in {"idle", "create", "revise", "page", "attribute"}
         /\ wreq[r].copy \in Pages /\ wreq[r].copy.exists \in BOOLEAN
         /\ wreq[r].copy.revision \in Revisions /\ wreq[r].copy.content \in Texts
         /\ wreq[r].base \in Texts /\ wreq[r].content \in Texts
         /\ wreq[r].force \in BOOLEAN
         /\ NewContent(wreq[r]) \in Texts
  <1>1. wreq[r] \in [at : {"idle", "create", "revise", "page", "attribute"},
                     copy : Pages, base : Texts, content : Texts, force : BOOLEAN]
    BY DEF WikiTypeOK
  <1>2. wreq[r].copy \in Pages
    BY <1>1
  <1>3. /\ wreq[r].copy.exists \in BOOLEAN
        /\ wreq[r].copy.revision \in Revisions /\ wreq[r].copy.content \in Texts
    BY <1>2 DEF Pages
  <1>4. NewContent(wreq[r]) \in Texts
    BY <1>1, <1>3, MergeIsText DEF NewContent
  <1>5. QED
    BY <1>1, <1>2, <1>3, <1>4

(***************************************************************************)
(* The page before anybody has created it, and the request of a handler    *)
(* that has none.                                                          *)
(***************************************************************************)
LEMMA NothingYet ==
  /\ Blank \in Texts /\ NoRequest.copy \in Pages
  /\ NoRequest \in [at : {"idle", "create", "revise", "page", "attribute"},
                    copy : Pages, base : Texts, content : Texts, force : BOOLEAN]
  <1>1. Blank \in Texts
    BY WikiAssumption DEF Blank, Texts, Wordings
  <1>2. 0 \in Revisions
    BY WikiAssumption DEF Revisions
  <1>3. [exists |-> FALSE, revision |-> 0, content |-> Blank] \in Pages
    BY <1>1, <1>2 DEF Pages
  <1>4. QED
    BY <1>1, <1>3 DEF NoRequest

(***************************************************************************)
(* Every step of a request and every deletion keeps the state typed, and   *)
(* a page without a revision empty.                                        *)
(***************************************************************************)
LEMMA WikiTypedStep == WikiTyped /\ [WikiNext]_wikiVars => WikiTyped'
  <1> SUFFICES ASSUME WikiTyped, [WikiNext]_wikiVars
               PROVE  WikiTyped'
    OBVIOUS
  <1> USE WikiAssumption, NothingYet
      DEF WikiTyped, FirstIsBlank, SavesRevision
  <1>a. WikiTypeOK
    OBVIOUS
  <1>1. ASSUME NEW r \in WikiRequests, NEW n \in 0..Len(revisions),
               WikiEdit(r, n) \/ Overwrite(r, n)
        PROVE  WikiTyped'
    <2>1. PICK place \in {"create", "revise"}, content \in Edited(TextOf(n)), force \in BOOLEAN :
             /\ BeginRequest(r, place, TextOf(n), content, force)
             /\ force \/ n \in shown
      BY <1>1 DEF WikiEdit, Overwrite
    <2>2. TextOf(n) \in Texts /\ content \in Texts
      BY <1>a, EditsAreTexts
    <2>3. UNCHANGED <<page, revisions, shown, attribute, wanted, merged, disturbed, wikiBounds>>
      BY <1>1 DEF WikiEdit, Overwrite
    <2>4. n = 0 => TextOf(n) = Blank
      BY DEF TextOf
    <2>5. WikiTypeOK'
      BY <2>1, <2>2, <2>3 DEF WikiTypeOK, BeginRequest, wikiBounds
    <2>6. QED
      BY <2>1, <2>3, <2>4, <2>5 DEF WikiTypeOK, BeginRequest
  <1>2. ASSUME NEW r \in WikiRequests, CreatePage(r)
        PROVE  WikiTyped'
    <2>1. [page EXCEPT !.exists = TRUE] \in Pages
      BY DEF WikiTypeOK, Pages
    <2>2. /\ page' \in Pages
          /\ page'.revision = page.revision /\ page'.content = page.content
      BY <1>2, <2>1 DEF CreatePage, WikiTypeOK, Pages
    <2>3. CASE page.exists
      <3>1. wreq' = [wreq EXCEPT ![r] = NoRequest]
        BY <1>2, <2>3 DEF CreatePage
      <3>2. WikiTypeOK'
        BY <1>2, <2>2, <3>1 DEF CreatePage, WikiTypeOK, wikiBounds
      <3>3. NoRequest.at = "idle" /\ NoRequest.base = Blank
        BY DEF NoRequest
      <3>4. QED
        BY <1>2, <2>2, <3>1, <3>2, <3>3 DEF CreatePage, WikiTypeOK
    <2>4. CASE ~page.exists
      <3>1. wreq' = [wreq EXCEPT ![r].at = "revise", ![r].copy = page']
        BY <1>2, <2>4 DEF CreatePage
      <3>2. WikiTypeOK'
        BY <1>2, <2>2, <3>1 DEF CreatePage, WikiTypeOK, wikiBounds
      <3>3. QED
        BY <1>2, <2>2, <3>1, <3>2 DEF CreatePage, WikiTypeOK
    <2>5. QED
      BY <2>3, <2>4
  <1>3. ASSUME NEW r \in WikiRequests, Unchanged(r)
        PROVE  WikiTyped'
    BY <1>3 DEF Unchanged, WikiTypeOK, wikiBounds
  <1>4. ASSUME NEW r \in WikiRequests, EditConflict(r)
        PROVE  WikiTyped'
    BY <1>4 DEF EditConflict, WikiTypeOK, wikiBounds, NoRequest
  <1>5. ASSUME NEW r \in WikiRequests, CreateRevision(r)
        PROVE  WikiTyped'
    <2>1. /\ NewContent(wreq[r]) \in Texts /\ wreq[r].copy \in Pages
          /\ wreq[r].copy.exists \in BOOLEAN
      BY <1>a, RequestFields
    <2>2. Fresh \in Revisions /\ Fresh # 0
      BY <1>5 DEF CreateRevision, Fresh, Revisions, WikiTypeOK
    <2>3. /\ revisions' \in Seq([content : Texts, deleted : BOOLEAN])
          /\ Len(revisions') <= MaxRevisions
      BY <1>5, <2>1 DEF CreateRevision, WikiTypeOK
    <2> DEFINE new == [wreq[r].copy EXCEPT !.content = NewContent(wreq[r]), !.revision = Fresh]
    <2>4. new \in Pages /\ new.revision = Fresh
      BY <2>1, <2>2 DEF Pages
    <2>5. wreq' = [wreq EXCEPT ![r].at = "page", ![r].copy = new]
      BY <1>5 DEF CreateRevision
    <2> HIDE DEF new
    <2>6. WikiTypeOK'
      <3>1. wreq' \in [WikiRequests -> [at : {"idle", "create", "revise", "page", "attribute"},
                                        copy : Pages, base : Texts, content : Texts,
                                        force : BOOLEAN]]
        BY <2>4, <2>5 DEF WikiTypeOK
      <3>2. merged' \in BOOLEAN /\ disturbed' \in BOOLEAN
        BY <1>5 DEF CreateRevision, WikiTypeOK
      <3>3. UNCHANGED <<page, shown, attribute, wanted, deletions, wikiCrashes>>
        BY <1>5 DEF CreateRevision, wikiBounds
      <3>4. QED
        BY <2>3, <3>1, <3>2, <3>3 DEF WikiTypeOK
    <2>7. UNCHANGED <<page, shown>>
      BY <1>5 DEF CreateRevision
    <2>8. /\ \A s \in WikiRequests : wreq'[s].base = wreq[s].base /\ wreq'[s].force = wreq[s].force
          /\ \A s \in WikiRequests \ {r} : wreq'[s] = wreq[s]
          /\ wreq'[r].copy = new
      BY <2>5 DEF WikiTypeOK
    <2>9. FirstIsBlank'
      BY <2>7, <2>8
    <2>10. SavesRevision'
      BY <2>2, <2>4, <2>8
    <2>11. QED
      BY <2>6, <2>9, <2>10
  <1>6. ASSUME NEW r \in WikiRequests, CommitPage(r)
        PROVE  WikiTyped'
    <2>1. /\ wreq[r].copy \in Pages /\ wreq[r].copy.revision \in Revisions
          /\ wreq[r].base \in Texts /\ wreq[r].content \in Texts
      BY <1>a, RequestFields
    <2>2. wanted' \in Texts
      BY <1>6, <2>1 DEF CommitPage, WikiTypeOK, Texts
    <2>3. QED
      BY <1>6, <2>1, <2>2 DEF CommitPage, WikiTypeOK, wikiBounds
  <1>7. ASSUME NEW r \in WikiRequests, StoreAttribute(r)
        PROVE  WikiTyped'
    BY <1>7 DEF StoreAttribute, WikiTypeOK, wikiBounds, NoRequest
  <1>8. ASSUME NEW r \in WikiRequests, RequestDies(r)
        PROVE  WikiTyped'
    BY <1>8 DEF RequestDies, WikiTypeOK, wikiBounds, NoRequest
  <1>9. ASSUME NEW n \in 1..Len(revisions), NEW flag \in BOOLEAN, RevisionDelete(n, flag)
        PROVE  WikiTyped'
    <2>1. revisions[n] \in [content : Texts, deleted : BOOLEAN]
      BY <1>a, ElementOfSeq DEF WikiTypeOK
    <2>2. [revisions[n] EXCEPT !.deleted = flag] \in [content : Texts, deleted : BOOLEAN]
      BY <2>1
    <2>3. /\ revisions' \in Seq([content : Texts, deleted : BOOLEAN])
          /\ Len(revisions') = Len(revisions)
      BY <1>9, <2>2, ExceptSeq DEF RevisionDelete, WikiTypeOK
    <2>4. QED
      BY <1>9, <2>3 DEF RevisionDelete, WikiTypeOK, wikiBounds
  <1>10. CASE UNCHANGED wikiVars
    BY <1>10 DEF wikiVars, wikiBounds, WikiTypeOK
  <1>11. QED
    BY <1>1, <1>2, <1>3, <1>4, <1>5, <1>6, <1>7, <1>8, <1>9, <1>10 DEF WikiNext

-----------------------------------------------------------------------------
(* The edits                                                               *)

(***************************************************************************)
(* While requests do not overlap, every step keeps the page what the       *)
(* accepted edits ask for, and the attribute what the page is.             *)
(***************************************************************************)
LEMMA WikiKeptStep ==
  ASSUME WikiTyped, WikiTyped', WikiKept, ~disturbed, ~disturbed', [WikiNext]_wikiVars
  PROVE  WikiKept'
  <1> USE DEF WikiKept, EditsSurvive, ReadyToCommit, SavesWhatItBrought, AttributeOnItsWay
  <1>a. WikiTypeOK /\ FirstIsBlank
    BY DEF WikiTyped
  <1>b. wreq \in [WikiRequests -> [at : {"idle", "create", "revise", "page", "attribute"},
                                   copy : Pages, base : Texts, content : Texts,
                                   force : BOOLEAN]]
    BY <1>a DEF WikiTypeOK
  <1>1. ASSUME NEW r \in WikiRequests, NEW n \in 0..Len(revisions),
               WikiEdit(r, n) \/ Overwrite(r, n)
        PROVE  WikiKept'
    <2>1. PICK place \in {"create", "revise"}, content \in Edited(TextOf(n)), force \in BOOLEAN :
             BeginRequest(r, place, TextOf(n), content, force)
      BY <1>1 DEF WikiEdit, Overwrite
    <2>2. UNCHANGED <<page, attribute, wanted, merged>>
      BY <1>1 DEF WikiEdit, Overwrite
    <2>3. QED
      BY <1>b, <2>1, <2>2 DEF BeginRequest
  <1>2. ASSUME NEW r \in WikiRequests, CreatePage(r)
        PROVE  WikiKept'
    <2>1. page'.content = page.content /\ page'.revision = page.revision
      BY <1>2, <1>a DEF CreatePage, WikiTypeOK, Pages
    <2>2. wreq[r].at = "create" /\ UNCHANGED <<attribute, wanted, merged>>
      BY <1>2 DEF CreatePage
    <2>3. /\ wreq'[r].at \in {"idle", "revise"}
          /\ \A s \in WikiRequests \ {r} : wreq'[s] = wreq[s]
      BY <1>2, <1>b DEF CreatePage, NoRequest
    <2>4. QED
      BY <2>1, <2>2, <2>3
  <1>3. ASSUME NEW r \in WikiRequests, Unchanged(r)
        PROVE  WikiKept'
    <2>1. wreq[r].content = page.content
      BY <1>3 DEF Unchanged
    <2>2. QED
      BY <1>b, <1>3, <2>1 DEF Unchanged
  <1>4. ASSUME NEW r \in WikiRequests, EditConflict(r)
        PROVE  WikiKept'
    BY <1>b, <1>4 DEF EditConflict, NoRequest
  <1>5. ASSUME NEW r \in WikiRequests, CreateRevision(r)
        PROVE  WikiKept'
    <2>1. page = wreq[r].copy
      BY <1>5 DEF CreateRevision
    <2>2. /\ wreq'[r].at = "page" /\ wreq'[r].copy.content = NewContent(wreq[r])
          /\ wreq'[r].base = wreq[r].base /\ wreq'[r].content = wreq[r].content
          /\ wreq'[r].force = wreq[r].force
          /\ \A s \in WikiRequests \ {r} : wreq'[s] = wreq[s]
      BY <1>a, <1>b, <1>5, RequestFields DEF CreateRevision, Pages
    <2>3. wreq[r].at = "revise" /\ UNCHANGED <<page, attribute, wanted>>
      BY <1>5 DEF CreateRevision
    <2>4. merged' = (merged \/ NewContent(wreq[r]) # wreq[r].content)
      BY <1>5 DEF CreateRevision
    <2>5. NewContent(wreq[r]) = IF ~wreq[r].force /\ page.revision # 0
                                THEN ThreeWayMerge(wreq[r].base, wreq[r].content, page.content)
                                ELSE wreq[r].content
      BY <2>1 DEF NewContent, Merges
    <2>6. EditsSurvive'
      BY <2>3
    <2>7. ReadyToCommit'
      BY <2>2, <2>3, <2>5 DEF ThreeWayMerge
    <2>8. SavesWhatItBrought'
      BY <2>2, <2>4
    <2>9. AttributeOnItsWay'
      BY <2>2, <2>3, <2>4
    <2>10. QED
      BY <2>6, <2>7, <2>8, <2>9
  <1>6. ASSUME NEW r \in WikiRequests, CommitPage(r)
        PROVE  WikiKept'
    <2>1. \A s \in WikiRequests \ {r} : wreq[s].at \notin {"page", "attribute"}
      BY <1>6 DEF CommitPage
    <2>2. /\ wreq'[r].at = "attribute" /\ wreq'[r].content = wreq[r].content
          /\ \A s \in WikiRequests \ {r} : wreq'[s] = wreq[s]
      BY <1>b, <1>6 DEF CommitPage
    <2>3. /\ wreq[r].at = "page" /\ UNCHANGED <<attribute, merged>>
          /\ page' = wreq[r].copy
      BY <1>6 DEF CommitPage
    <2>4. page'.content = wanted'
      <3>1. CASE wreq[r].force
        BY <1>6, <2>3, <3>1 DEF CommitPage
      <3>2. CASE ~wreq[r].force /\ page.revision # 0
        BY <1>6, <2>3, <3>2 DEF CommitPage, ThreeWayMerge
      <3>3. CASE ~wreq[r].force /\ page.revision = 0
        <4>1. wanted = Blank /\ wreq[r].base = Blank
          BY <1>a, <3>3 DEF FirstIsBlank
        <4>2. wreq[r].content \in Texts
          BY <1>a, RequestFields
        <4>3. wanted' = wreq[r].content
          BY <1>6, <3>3, <4>1, <4>2 DEF CommitPage, Texts, Blank
        <4>4. QED
          BY <2>3, <3>3, <4>3
      <3>4. QED
        BY <3>1, <3>2, <3>3
    <2>5. QED
      BY <2>1, <2>2, <2>3, <2>4
  <1>7. ASSUME NEW r \in WikiRequests, StoreAttribute(r)
        PROVE  WikiKept'
    BY <1>b, <1>7 DEF StoreAttribute, NoRequest
  <1>8. ASSUME NEW r \in WikiRequests, RequestDies(r)
        PROVE  WikiKept'
    BY <1>b, <1>8 DEF RequestDies, NoRequest
  <1>9. ASSUME NEW n \in 1..Len(revisions), NEW flag \in BOOLEAN, RevisionDelete(n, flag)
        PROVE  WikiKept'
    BY <1>9 DEF RevisionDelete
  <1>10. CASE UNCHANGED wikiVars
    BY <1>10 DEF wikiVars
  <1>11. QED
    BY <1>1, <1>2, <1>3, <1>4, <1>5, <1>6, <1>7, <1>8, <1>9, <1>10 DEF WikiNext

(***************************************************************************)
(* Once requests have overlapped, that is remembered.                      *)
(***************************************************************************)
LEMMA DisturbedStays ==
  ASSUME WikiTypeOK, disturbed, [WikiNext]_wikiVars
  PROVE  disturbed'
  BY DEF WikiNext, WikiEdit, Overwrite, CreatePage, Unchanged, EditConflict, CreateRevision,
         CommitPage, StoreAttribute, RequestDies, RevisionDelete, wikiVars

(***************************************************************************)
(* The invariant holds in every state.                                     *)
(***************************************************************************)
LEMMA WikiInvariant == WikiSpec => []WikiInv
  <1>1. WikiInit => WikiInv
    <2> SUFFICES ASSUME WikiInit PROVE WikiInv
      OBVIOUS
    <2>1. NoRequest.copy = [exists |-> FALSE, revision |-> 0, content |-> Blank]
          /\ NoRequest.at = "idle" /\ NoRequest.base = Blank
      BY DEF NoRequest
    <2>2. WikiTypeOK
      <3>1. /\ revisions \in Seq([content : Texts, deleted : BOOLEAN])
            /\ Len(revisions) <= MaxRevisions
        BY WikiAssumption DEF WikiInit
      <3>2. page \in Pages /\ attribute \in Texts /\ wanted \in Texts
        BY NothingYet DEF WikiInit
      <3>3. wreq \in [WikiRequests -> [at : {"idle", "create", "revise", "page", "attribute"},
                                       copy : Pages, base : Texts, content : Texts,
                                       force : BOOLEAN]]
        BY NothingYet DEF WikiInit
      <3>4. shown \subseteq Revisions /\ deletions \in 0..MaxDeletions
              /\ wikiCrashes \in 0..MaxWikiCrashes
        BY WikiAssumption DEF WikiInit, Revisions
      <3>5. merged \in BOOLEAN /\ disturbed \in BOOLEAN
        BY DEF WikiInit
      <3>6. QED
        BY <3>1, <3>2, <3>3, <3>4, <3>5 DEF WikiTypeOK
    <2>3. WikiTyped
      BY <2>1, <2>2 DEF WikiInit, WikiTyped, FirstIsBlank, SavesRevision
    <2>4. WikiKept
      BY <2>1 DEF WikiInit, WikiKept, EditsSurvive, ReadyToCommit, SavesWhatItBrought,
                  AttributeOnItsWay
    <2>5. QED
      BY <2>3, <2>4 DEF WikiInv
  <1>2. WikiInv /\ [WikiNext]_wikiVars => WikiInv'
    <2> SUFFICES ASSUME WikiInv, [WikiNext]_wikiVars PROVE WikiInv'
      OBVIOUS
    <2>1. WikiTyped'
      BY WikiTypedStep DEF WikiInv
    <2>2. ~disturbed' => ~disturbed
      BY DisturbedStays DEF WikiInv, WikiTyped
    <2>3. ~disturbed' => WikiKept'
      BY <2>1, <2>2, WikiKeptStep DEF WikiInv
    <2>4. QED
      BY <2>1, <2>3 DEF WikiInv
  <1>3. QED
    BY <1>1, <1>2, PTL DEF WikiSpec

(***************************************************************************)
(* models/wiki.py, WikiPage and WikiRevision: pages, revisions and the     *)
(* requests' copies of them stay what they are declared to be.             *)
(***************************************************************************)
THEOREM WikiTypeCorrect == WikiSpec => []WikiTypeOK
  <1>1. WikiInv => WikiTypeOK
    BY DEF WikiInv, WikiTyped
  <1>2. QED
    BY <1>1, WikiInvariant, PTL

(***************************************************************************)
(* WikiPage.revise and the controller after it: as long as no two requests *)
(* overlap and none dies before storing the attribute, no accepted edit is *)
(* lost from the page, and the attribute reads as the page does.           *)
(***************************************************************************)
THEOREM NoEditLost == WikiSpec => []EditsKept
  <1>1. WikiInv => EditsKept
    BY DEF WikiInv, WikiKept, EditsKept, EditsSurvive, AttributeFollows, AttributeOnItsWay
  <1>2. QED
    BY <1>1, WikiInvariant, PTL

-----------------------------------------------------------------------------
(* Rate limits: slices of time and their keys                              *)

\* Multiples are ordered as their factors: the solver is told so.
LEMMA TimesMonotone ==
  ASSUME NEW a \in Int, NEW b \in Int, NEW n \in Nat, a <= b
  PROVE  a * n <= b * n /\ a * n \in Int /\ b * n \in Int /\ (a + 1) * n = a * n + n
  OBVIOUS

\* get_timeslice: a moment lies within its slice.
LEMMA SliceBounds ==
  ASSUME NEW t \in Nat
  PROVE  /\ SliceAt(t) \in Nat
         /\ SliceAt(t) * RLSeconds <= t /\ t < SliceEnd(SliceAt(t))
  BY RateLimitAssumption DEF SliceAt, SliceEnd

\* The ends of slices are a slice apart.
LEMMA EndIsNat ==
  ASSUME NEW s \in Nat
  PROVE  SliceEnd(s) \in Nat /\ SliceEnd(s + 1) = SliceEnd(s) + RLSeconds
         /\ SliceEnd(s) = s * RLSeconds + RLSeconds
  BY RateLimitAssumption DEF SliceEnd

\* A slice is over when a later one has begun.
LEMMA SliceOver ==
  ASSUME NEW s \in Nat, NEW t \in Nat
  PROVE  SliceEnd(s) <= t <=> s < SliceAt(t)
  <1>1. CASE s < SliceAt(t)
    <2>1. (s + 1) * RLSeconds <= SliceAt(t) * RLSeconds
      BY <1>1, TimesMonotone, SliceBounds, RateLimitAssumption
    <2>2. QED
      BY <1>1, <2>1, SliceBounds, EndIsNat, RateLimitAssumption DEF SliceEnd
  <1>2. CASE ~(s < SliceAt(t))
    <2>1. (SliceAt(t) + 1) * RLSeconds <= (s + 1) * RLSeconds
      BY <1>2, TimesMonotone, SliceBounds, RateLimitAssumption
    <2>2. QED
      BY <1>2, <2>1, SliceBounds, EndIsNat, RateLimitAssumption DEF SliceEnd
  <1>3. QED
    BY <1>1, <1>2

\* Two slices with one key are a day apart.
LEMMA SameKey ==
  ASSUME NEW s \in Nat, NEW r \in Nat, r < s, KeyOf(r) = KeyOf(s)
  PROVE  r + RLDay <= s
  <1>a. r \div RLDay \in Int /\ r = RLDay * (r \div RLDay) + KeyOf(r)
    BY RateLimitAssumption DEF KeyOf
  <1>b. s \div RLDay \in Int /\ s = RLDay * (s \div RLDay) + KeyOf(s)
    BY RateLimitAssumption DEF KeyOf
  <1>1. PICK a \in Int : r = RLDay * a + KeyOf(r)
    BY <1>a, Zenon
  <1>2. PICK b \in Int : s = RLDay * b + KeyOf(s)
    BY <1>b, Zenon
  <1>3. KeyOf(s) \in Nat
    BY RateLimitAssumption DEF KeyOf
  <1>4. RLDay * a < RLDay * b /\ RLDay \in Nat
    BY <1>1, <1>2, <1>3, RateLimitAssumption
  <1>5. a + 1 <= b
    <2>1. CASE b <= a
      BY <1>4, <2>1, TimesMonotone
    <2>2. QED
      BY <2>1
  <1>6. (a + 1) * RLDay <= b * RLDay
    BY <1>4, <1>5, TimesMonotone
  <1>7. QED
    BY <1>1, <1>2, <1>3, <1>4, <1>6

\* A key of the cache is a time of day.
LEMMA KeyIsTime ==
  ASSUME NEW s \in Nat
  PROVE  KeyOf(s) \in TimesOfDay
  BY RateLimitAssumption DEF KeyOf, TimesOfDay

\* The slice of a moment within the bound is within the bound.
LEMMA SliceIsKnown ==
  ASSUME NEW t \in 0..MaxTime
  PROVE  SliceAt(t) \in Slices
  <1>1. CASE SliceAt(t) <= SliceAt(MaxTime)
    BY <1>1, SliceBounds, RateLimitAssumption DEF Slices, SliceAt
  <1>2. CASE SliceAt(MaxTime) < SliceAt(t)
    <2>1. SliceEnd(SliceAt(MaxTime)) <= t
      BY <1>2, SliceOver, SliceBounds, RateLimitAssumption
    <2>2. QED
      BY <2>1, SliceBounds, EndIsNat, RateLimitAssumption
  <1>3. QED
    BY <1>1, <1>2, SliceBounds, RateLimitAssumption

\* A slice that has begun ends at most a slice's length from now.
LEMMA EndIsNear ==
  ASSUME NEW t \in Nat, NEW s \in Nat, s <= SliceAt(t)
  PROVE  SliceEnd(s) <= t + RLSeconds
  <1>1. s * RLSeconds <= SliceAt(t) * RLSeconds
    BY TimesMonotone, SliceBounds, RateLimitAssumption
  <1>2. QED
    BY <1>1, SliceBounds, EndIsNat, RateLimitAssumption

-----------------------------------------------------------------------------
(* The inductive invariant                                                 *)

\* The slice of the moment.
Cur == SliceAt(now)
\* The places within record_usage.
Recording == {"add", "incr", "readd"}

\* Nobody records in a slice that has not begun.
SlicesPast == \A p \in Requests : slice[p] <= Cur

RLTyped == RateLimitTypeOK /\ SlicesPast

\* The entry under k counts usages of slice s and lasts no longer than it.
EntryOf(k, s) ==
    /\ KeyOf(s) = k
    /\ mc[k].expires \in {SliceEnd(s), SliceEnd(s) + 1}
    /\ mc[k].count <= used[s]

\* Every entry is of a slice, unless it was added with no expiration.
EntriesOfSlices ==
    \A k \in TimesOfDay : Stored(k) =>
        \/ mc[k].expires = Forever /\ immortal
        \/ \E s \in Slices : s <= Cur /\ EntryOf(k, s)

\* Who records does so before the key of its slice is used again.
SlicesRecent ==
    \A p \in Requests : rlAt[p] \in Recording => Cur < slice[p] + RLDay

\* Nothing is reported before it is recorded.
ReportedLater ==
    \A p \in Requests : rlAt[p] \in {"check", "slice"} \cup Recording => reported[p] = 0

UsageInv == EntriesOfSlices /\ SlicesRecent /\ ReportedLater /\ UsageIsOfSlice

\* What the type invariant says of each value, one by one.
LEMMA RLTypeFacts ==
  ASSUME RLTyped
  PROVE  /\ now \in Nat /\ now <= MaxTime /\ Cur \in Nat /\ Cur \in Slices
         /\ MaxTime \in Nat /\ RLSeconds \in Nat \ {0} /\ RLDay \in Nat \ {0, 1}
         /\ Forever \in Nat /\ Forever = MaxTime + RLSeconds + 2
         /\ Slices \subseteq Nat /\ TimesOfDay \subseteq Nat
         /\ \A p \in Requests : slice[p] \in Slices /\ slice[p] <= Cur
         /\ \A k \in TimesOfDay : mc[k].count \in Nat /\ mc[k].expires \in Nat
  <1>1. /\ now \in 0..MaxTime /\ MaxTime \in Nat /\ RLSeconds \in Nat \ {0}
        /\ RLDay \in Nat \ {0, 1}
    BY RateLimitAssumption DEF RLTyped, RateLimitTypeOK
  <1>2. Cur \in Nat /\ Cur \in Slices
    BY <1>1, SliceBounds, SliceIsKnown DEF Cur
  <1>3. Forever \in Nat /\ Forever = MaxTime + RLSeconds + 2
    BY <1>1 DEF Forever
  <1>4. Slices \subseteq Nat /\ TimesOfDay \subseteq Nat
    BY DEF Slices, TimesOfDay
  <1>5. \A p \in Requests : slice[p] \in Slices /\ slice[p] <= Cur
    BY DEF RLTyped, RateLimitTypeOK, SlicesPast
  <1>6. \A k \in TimesOfDay : mc[k].count \in Nat /\ mc[k].expires \in Nat
    BY <1>3 DEF RLTyped, RateLimitTypeOK
  <1>7. QED
    BY <1>1, <1>2, <1>3, <1>4, <1>5, <1>6

\* The entry that add leaves expires at a known time: the TTL is what
\* remains of a slice, one more, or none.
LEMMA McAddTyped ==
  ASSUME RLTyped, NEW s \in Slices, s <= Cur, NEW n \in Nat, NEW e \in {0, 1},
         SliceEnd(s) >= now, McAdd(KeyOf(s), n, SliceEnd(s) - now + e)
  PROVE  /\ mc' \in [TimesOfDay -> [count : Nat, expires : 0..Forever]]
         /\ immortal' \in BOOLEAN
  <1>1. /\ SliceEnd(s) \in Nat /\ SliceEnd(s) <= now + RLSeconds /\ now \in Nat
        /\ now <= MaxTime /\ RLSeconds \in Nat /\ MaxTime \in Nat
    BY RLTypeFacts, EndIsNat, EndIsNear DEF Cur
  <1> DEFINE ttl == SliceEnd(s) - now + e
             x == IF ttl = 0 THEN Forever ELSE now + ttl
  <1>2. x \in 0..Forever
    BY <1>1 DEF Forever
  <1>3. mc' = IF Stored(KeyOf(s)) THEN mc
              ELSE [mc EXCEPT ![KeyOf(s)] = [count |-> n, expires |-> x]]
    BY DEF McAdd
  <1>4. immortal' \in BOOLEAN
    BY DEF McAdd, RLTyped, RateLimitTypeOK
  <1> HIDE DEF x
  <1>5. QED
    BY <1>2, <1>3, <1>4 DEF RLTyped, RateLimitTypeOK

\* Every step keeps the state typed and records in no slice to come.
LEMMA RLTypedStep ==
  ASSUME RLTyped, [RateLimitNext]_rlVars
  PROVE  RLTyped'
  <1> USE DEF RLTyped, RateLimitTypeOK, SlicesPast, Cur
  <1>0. /\ now \in Nat /\ now <= MaxTime /\ Cur \in Nat /\ Cur \in Slices
         /\ Slices \subseteq Nat /\ TimesOfDay \subseteq Nat
         /\ \A p \in Requests : slice[p] \in Slices /\ slice[p] <= Cur
         /\ \A s \in Slices : KeyOf(s) \in TimesOfDay
         /\ \A k \in TimesOfDay : mc[k].count \in Nat /\ mc[k].expires \in Nat
    BY RLTypeFacts, KeyIsTime
  <1>a. ASSUME NEW p \in Requests
        PROVE  /\ KeyOf(slice[p]) \in TimesOfDay /\ SliceEnd(slice[p]) \in Nat
               /\ slice[p] \in Slices
    BY <1>0, EndIsNat
  <1>1. ASSUME NEW p \in Requests, Arrive(p)
        PROVE  RLTyped'
    BY <1>1, RateLimitAssumption DEF Arrive, Goto
  <1>2. ASSUME NEW p \in Requests, Check(p)
        PROVE  RLTyped'
    <2> DEFINE usage == Usage(p, KeyOf(SliceAt(now)))
    <2>1. usage \in Nat \cup {Absent}
      <3>1. KeyOf(SliceAt(now)) \in TimesOfDay
        BY <1>0
      <3>2. /\ local[p][KeyOf(SliceAt(now))] \in Nat \cup {Absent}
            /\ mc[KeyOf(SliceAt(now))].count \in Nat
        <4>1. local[p] \in [TimesOfDay -> Nat \cup {Absent}]
          OBVIOUS
        <4>2. local[p][KeyOf(SliceAt(now))] \in Nat \cup {Absent}
          BY <3>1, <4>1
        <4>3. mc[KeyOf(SliceAt(now))].count \in Nat
          BY <1>0, <3>1
        <4>4. QED
          BY <4>2, <4>3
      <3>3. usage \in {local[p][KeyOf(SliceAt(now))], mc[KeyOf(SliceAt(now))].count, Absent}
        BY DEF Usage
      <3>4. QED
        BY <3>2, <3>3
    <2>2. local' = [local EXCEPT ![p][KeyOf(SliceAt(now))] = usage]
          /\ Admit(SliceAt(now), BelowLimit(usage))
          /\ Goto(p, IF rlAt[p] = "check" /\ BelowLimit(usage) THEN "slice" ELSE "idle")
      BY <1>2 DEF Check
    <2> HIDE DEF usage
    <2>3. admitted' \in [Slices -> Nat]
      BY <1>0, <2>2 DEF Admit
    <2>4. QED
      BY <1>0, <1>2, <2>1, <2>2, <2>3 DEF Check, Goto
  <1>3. ASSUME NEW p \in Requests, GetTimeslice(p)
        PROVE  RLTyped'
    BY <1>0, <1>3 DEF GetTimeslice, Goto
  <1>4. ASSUME NEW p \in Requests, Add(p)
        PROVE  RLTyped'
    <2>1. local' \in [Requests -> [TimesOfDay -> Nat \cup {Absent}]]
      BY <1>a, <1>4 DEF Add, LocalAdd
    <2>2. /\ mc' \in [TimesOfDay -> [count : Nat, expires : 0..Forever]]
          /\ immortal' \in BOOLEAN
      <3>1. CASE SliceEnd(slice[p]) - now < 0
        BY <1>0, <1>a, <1>4, <3>1 DEF Add
      <3>2. CASE ~(SliceEnd(slice[p]) - now < 0)
        <4>1. SliceEnd(slice[p]) \in Nat
          BY <1>0, EndIsNat
        <4>2. SliceEnd(slice[p]) - now = SliceEnd(slice[p]) - now + 0
          BY <1>0, <4>1
        <4>3. McAdd(KeyOf(slice[p]), 0, SliceEnd(slice[p]) - now + 0)
          BY <1>0, <1>a, <1>4, <3>2, <4>2 DEF Add
        <4>4. QED
          <5>1. SliceEnd(slice[p]) >= now /\ slice[p] \in Slices /\ slice[p] <= Cur
            BY <1>0, <3>2, <4>1
          <5>2. QED
            BY <4>3, <5>1, McAddTyped
      <3>3. QED
        BY <3>1, <3>2
    <2>3. QED
      BY <1>4, <2>1, <2>2 DEF Add, Goto
  <1>5. ASSUME NEW p \in Requests, Incr(p)
        PROVE  RLTyped'
    <2>1. local' \in [Requests -> [TimesOfDay -> Nat \cup {Absent}]]
      BY <1>0, <1>5 DEF Incr, LocalIncr, Absent
    <2>2. CASE Stored(KeyOf(slice[p]))
      <3>1. mc' = [mc EXCEPT ![KeyOf(slice[p])].count = @ + 1]
            /\ Recorded(p, mc[KeyOf(slice[p])].count + 1)
        BY <1>5, <2>2 DEF Incr
      <3>2. admitted' \in [Slices -> Nat] /\ used' \in [Slices -> Nat]
        BY <1>0, <3>1 DEF Recorded, Admit
      <3>3. QED
        <4>1. reported' \in [Requests -> Nat]
          BY <1>0, <1>a, <3>1 DEF Recorded
        <4>2. mc' \in [TimesOfDay -> [count : Nat, expires : 0..Forever]]
          BY <1>a, <3>1, SMTT(40)
        <4>3. rlAt' \in [Requests -> {"idle", "check", "slice", "add", "incr", "readd", "recheck"}]
          BY <3>1 DEF Recorded, Goto
        <4>4. QED
          BY <1>5, <2>1, <3>2, <4>1, <4>2, <4>3 DEF Incr
    <2>3. CASE ~Stored(KeyOf(slice[p]))
      BY <1>0, <1>5, <2>1, <2>3 DEF Incr, Goto
    <2>4. QED
      BY <2>2, <2>3
  <1>6. ASSUME NEW p \in Requests, Readd(p)
        PROVE  RLTyped'
    <2>1. admitted' \in [Slices -> Nat] /\ used' \in [Slices -> Nat]
      <3>1. Recorded(p, 1)
        BY <1>6 DEF Readd
      <3>2. QED
        BY <1>a, <3>1 DEF Recorded, Admit
    <2>2. /\ mc' \in [TimesOfDay -> [count : Nat, expires : 0..Forever]]
          /\ immortal' \in BOOLEAN
          /\ local' \in [Requests -> [TimesOfDay -> Nat \cup {Absent}]]
      <3>1. CASE now < SliceEnd(slice[p])
        <4>1. SliceEnd(slice[p]) \in Nat
          BY <1>0, EndIsNat
        <4>2. McAdd(KeyOf(slice[p]), 1, SliceEnd(slice[p]) - now + 1)
          BY <1>6, <3>1 DEF Readd
        <4>3. local' \in [Requests -> [TimesOfDay -> Nat \cup {Absent}]]
          <5>1. LocalAdd(p, KeyOf(slice[p]), 1)
            BY <1>6, <3>1 DEF Readd
          <5>2. QED
            BY <1>a, <5>1 DEF LocalAdd
        <4>4. QED
          <5>1. SliceEnd(slice[p]) >= now /\ slice[p] \in Slices /\ slice[p] <= Cur
            BY <1>0, <3>1, <4>1
          <5>2. QED
            BY <4>2, <4>3, <5>1, McAddTyped
      <3>2. CASE ~(now < SliceEnd(slice[p]))
        BY <1>6, <3>2 DEF Readd
      <3>3. QED
        BY <3>1, <3>2
    <2>3. QED
      BY <1>6, <2>1, <2>2 DEF Readd, Recorded, Goto
  <1>7. CASE Tick
    <2>1. now' \in 0..MaxTime /\ now' = now + 1
      BY <1>0, <1>7, RateLimitAssumption DEF Tick
    <2>2. SliceAt(now) <= SliceAt(now')
      <3>1. CASE SliceAt(now') < SliceAt(now)
        <4>1. SliceEnd(SliceAt(now')) <= now
          BY <1>0, <2>1, <3>1, SliceOver, SliceBounds
        <4>2. now' < SliceEnd(SliceAt(now'))
          BY <1>0, <2>1, SliceBounds
        <4>3. QED
          BY <1>0, <2>1, <4>1, <4>2, EndIsNat, SliceBounds
      <3>2. QED
        BY <1>0, <2>1, <3>1, SliceBounds
    <2>3. mc' \in [TimesOfDay -> [count : Nat, expires : 0..Forever]]
      <3>1. Nothing \in [count : Nat, expires : 0..Forever]
        BY RateLimitAssumption DEF Nothing, Forever
      <3>2. QED
        BY <1>7, <3>1 DEF Tick
    <2>4. \A p \in Requests : slice[p] <= SliceAt(now')
      <3>1. SliceAt(now) \in Nat /\ SliceAt(now') \in Nat
        BY <1>0, <2>1, SliceBounds
      <3>2. ASSUME NEW p \in Requests
            PROVE  slice[p] <= SliceAt(now')
        <4>1. slice[p] \in Nat /\ slice[p] <= SliceAt(now)
          BY <1>0
        <4>2. QED
          BY <2>2, <3>1, <4>1
      <3>3. QED
        BY <3>2
    <2>5. QED
      BY <1>7, <2>1, <2>3, <2>4 DEF Tick
  <1>8. ASSUME NEW k \in TimesOfDay, Evict(k)
        PROVE  RLTyped'
    <2>1. Nothing \in [count : Nat, expires : 0..Forever]
      BY RateLimitAssumption DEF Nothing, Forever
    <2>2. QED
      BY <1>8, <2>1, RateLimitAssumption DEF Evict
  <1>9. CASE UNCHANGED rlVars
    BY <1>9 DEF rlVars
  <1>10. QED
    BY <1>1, <1>2, <1>3, <1>4, <1>5, <1>6, <1>7, <1>8, <1>9 DEF RateLimitNext

-----------------------------------------------------------------------------
(* Counts are of their slices                                              *)

\* What is counted under the key of a slice that can still be recorded in is
\* of this slice: the entry of a day ago has expired.
LEMMA OwnEntry ==
  ASSUME RLTyped, EntriesOfSlices, NEW r \in Slices, r <= Cur, Cur < r + RLDay,
         Stored(KeyOf(r))
  PROVE  \/ mc[KeyOf(r)].expires = Forever /\ immortal
         \/ EntryOf(KeyOf(r), r)
  <1>1. /\ now \in Nat /\ Cur \in Nat /\ RLSeconds \in Nat \ {0} /\ RLDay \in Nat \ {0, 1}
        /\ Slices \subseteq Nat /\ r \in Nat /\ KeyOf(r) \in TimesOfDay
    BY RLTypeFacts, KeyIsTime
  <1>2. ASSUME NEW s \in Slices, s <= Cur, EntryOf(KeyOf(r), s)
        PROVE  s = r
    <2>1. s \in Nat /\ SliceEnd(s) \in Nat /\ SliceEnd(s + 1) = SliceEnd(s) + RLSeconds
      BY <1>1, EndIsNat
    <2>2. SliceEnd(s) + 1 > now
      BY <1>1, <1>2, <2>1 DEF Stored, EntryOf
    <2>3. ~(s + 1 < Cur)
      <3>1. ~(SliceEnd(s + 1) <= now)
        BY <1>1, <2>1, <2>2
      <3>2. QED
        BY <1>1, <2>1, <3>1, SliceOver DEF Cur
    <2>4. KeyOf(s) = KeyOf(r)
      BY <1>2 DEF EntryOf
    <2>5. ~(r < s)
      <3>1. CASE r < s
        <4>1. r + RLDay <= s
          BY <1>1, <2>1, <2>4, <3>1, SameKey
        <4>2. QED
          BY <1>1, <1>2, <2>1, <4>1
      <3>2. QED
        BY <3>1
    <2>6. ~(s < r)
      <3>1. CASE s < r
        <4>1. s + RLDay <= r
          BY <1>1, <2>1, <2>4, <3>1, SameKey
        <4>2. QED
          BY <1>1, <2>1, <2>3, <4>1
      <3>2. QED
        BY <3>1
    <2>7. QED
      BY <1>1, <2>1, <2>5, <2>6
  <1>3. QED
    BY <1>1, <1>2 DEF EntriesOfSlices

\* An entry stays of its slice while only more usages are recorded.
LEMMA EntriesStay ==
  ASSUME RLTyped, RLTyped', EntriesOfSlices, immortal => immortal',
         \A s \in Slices : used[s] <= used'[s], Cur <= Cur', now <= now',
         \A k \in TimesOfDay : Stored(k)' => mc'[k] = mc[k]
  PROVE  EntriesOfSlices'
  <1>1. /\ now \in Nat /\ now' \in Nat /\ Cur \in Nat /\ Cur' \in Nat /\ Slices \subseteq Nat
        /\ \A k \in TimesOfDay : mc[k].count \in Nat /\ mc[k].expires \in Nat
        /\ \A s \in Slices : used[s] \in Nat /\ used'[s] \in Nat
    <2>1. now' \in Nat /\ Cur' \in Nat
      BY SliceBounds, RateLimitAssumption DEF RLTyped, RateLimitTypeOK, Cur
    <2>2. QED
      BY <2>1, RLTypeFacts DEF RLTyped, RateLimitTypeOK
  <1> SUFFICES ASSUME NEW k \in TimesOfDay, Stored(k)'
               PROVE  \/ mc'[k].expires = Forever /\ immortal'
                      \/ \E s \in Slices : s <= Cur' /\ EntryOf(k, s)'
    BY DEF EntriesOfSlices
  <1>2. mc'[k] = mc[k]
    OBVIOUS
  <1>3. Stored(k)
    BY <1>1, <1>2 DEF Stored
  <1>4. CASE mc[k].expires = Forever /\ immortal
    BY <1>2, <1>4
  <1>5. CASE \E s \in Slices : s <= Cur /\ EntryOf(k, s)
    <2>1. PICK s \in Slices : s <= Cur /\ EntryOf(k, s)
      BY <1>5
    <2>2. s <= Cur'
      BY <1>1, <2>1
    <2>3. EntryOf(k, s)'
      <3>1. KeyOf(s) = k /\ mc'[k].expires \in {SliceEnd(s), SliceEnd(s) + 1}
        BY <1>2, <2>1 DEF EntryOf
      <3>2. mc'[k].count <= used'[s]
        BY <1>1, <1>2, <2>1 DEF EntryOf
      <3>3. QED
        BY <3>1, <3>2 DEF EntryOf
    <2>4. QED
      BY <2>2, <2>3
  <1>6. QED
    BY <1>3, <1>4, <1>5 DEF EntriesOfSlices

\* add gives the key of the slice an entry of the slice, or leaves it alone.
LEMMA McAddEntries ==
  ASSUME RLTyped, RLTyped', EntriesOfSlices, NEW s \in Slices, s <= Cur,
         NEW n \in Nat, NEW e \in {0, 1}, SliceEnd(s) >= now,
         McAdd(KeyOf(s), n, SliceEnd(s) - now + e), now' = now,
         \A r \in Slices : used[r] <= used'[r], n <= used'[s]
  PROVE  EntriesOfSlices'
  <1> DEFINE k == KeyOf(s)
             ttl == SliceEnd(s) - now + e
  <1>1. /\ now \in Nat /\ Cur \in Nat /\ Cur' = Cur /\ s \in Nat /\ k \in TimesOfDay
        /\ SliceEnd(s) \in Nat
    <2>1. now \in Nat /\ Cur \in Nat /\ s \in Nat
      BY RLTypeFacts
    <2>2. Cur' = Cur
      BY DEF Cur
    <2>3. QED
      BY <2>1, <2>2, KeyIsTime, EndIsNat
  <1>2. immortal => immortal'
    BY DEF McAdd
  <1>3. CASE Stored(k)
    <2>1. mc' = mc
      BY <1>3 DEF McAdd
    <2>2. QED
      BY <1>1, <1>2, <2>1, EntriesStay
  <1>4. CASE ~Stored(k)
    <2>1. /\ mc' = [mc EXCEPT ![k] = [count |-> n,
                                      expires |-> IF ttl = 0 THEN Forever ELSE now + ttl]]
          /\ immortal' = (immortal \/ ttl = 0)
      BY <1>4 DEF McAdd
    <2>2. mc'[k].count = n /\ mc'[k].expires = IF ttl = 0 THEN Forever ELSE now + ttl
      BY <1>1, <2>1 DEF RLTyped, RateLimitTypeOK
    <2>3. \A j \in TimesOfDay \ {k} : mc'[j] = mc[j]
      BY <2>1 DEF RLTyped, RateLimitTypeOK
    <2>4. ASSUME NEW j \in TimesOfDay, Stored(j)'
          PROVE  \/ mc'[j].expires = Forever /\ immortal'
                 \/ \E r \in Slices : r <= Cur' /\ EntryOf(j, r)'
      <3>1. CASE j = k
        <4>1. CASE ttl = 0
          BY <2>1, <2>2, <3>1, <4>1
        <4>2. CASE ttl # 0
          <5>1. mc'[k].expires = SliceEnd(s) + e
            BY <1>1, <2>2, <4>2
          <5>2. EntryOf(k, s)'
            BY <1>1, <2>2, <5>1 DEF EntryOf
          <5>3. QED
            BY <1>1, <3>1, <5>2
        <4>3. QED
          BY <4>1, <4>2
      <3>2. CASE j # k
        <4>1. mc'[j] = mc[j] /\ Stored(j)
          BY <2>3, <2>4, <3>2 DEF Stored
        <4>2. CASE mc[j].expires = Forever /\ immortal
          BY <1>2, <4>1, <4>2
        <4>3. CASE \E r \in Slices : r <= Cur /\ EntryOf(j, r)
          <5>1. PICK r \in Slices : r <= Cur /\ EntryOf(j, r)
            BY <4>3
          <5>2. used[r] \in Nat /\ used'[r] \in Nat /\ mc[j].count \in Nat
            BY RLTypeFacts DEF RLTyped, RateLimitTypeOK
          <5>3. EntryOf(j, r)'
            BY <4>1, <5>1, <5>2 DEF EntryOf
          <5>4. QED
            BY <1>1, <5>1, <5>3
        <4>4. QED
          BY <4>1, <4>2, <4>3 DEF EntriesOfSlices
      <3>3. QED
        BY <3>1, <3>2
    <2>5. QED
      BY <2>4 DEF EntriesOfSlices
  <1>5. QED
    BY <1>3, <1>4

\* Every step keeps the entries of memcached counts of their own slices, and
\* so what record_usage returns.
LEMMA UsageStep ==
  ASSUME RLTyped, RLTyped', UsageInv, [RateLimitNext]_rlVars
  PROVE  UsageInv'
  <1>0. /\ now \in Nat /\ Cur \in Nat /\ RLDay \in Nat \ {0, 1} /\ Slices \subseteq Nat
        /\ \A p \in Requests : /\ slice[p] \in Slices /\ slice[p] <= Cur
                               /\ reported[p] \in Nat /\ reported'[p] \in Nat
                               /\ SliceEnd(slice[p]) \in Nat
                               /\ KeyOf(slice[p]) \in TimesOfDay
                               /\ used[slice[p]] \in Nat /\ used'[slice[p]] \in Nat
        /\ \A s \in Slices : used[s] \in Nat /\ used'[s] \in Nat
    <2>1. \A p \in Requests : SliceEnd(slice[p]) \in Nat /\ KeyOf(slice[p]) \in TimesOfDay
      BY RLTypeFacts, EndIsNat, KeyIsTime
    <2>2. QED
      BY <2>1, RLTypeFacts DEF RLTyped, RateLimitTypeOK
  \* Steps that neither record nor store.
  <1>1. ASSUME UNCHANGED <<now, mc, used, immortal>>
        PROVE  EntriesOfSlices' /\ Cur' = Cur
    <2>1. Cur' = Cur
      BY <1>1 DEF Cur
    <2>2. QED
      BY <1>0, <1>1, <2>1, EntriesStay DEF UsageInv
  <1>2. ASSUME NEW p \in Requests, Arrive(p)
        PROVE  UsageInv'
    <2>1. EntriesOfSlices' /\ Cur' = Cur
      BY <1>1, <1>2 DEF Arrive
    <2>2. UNCHANGED <<slice, used, immortal>> /\ reported' = [reported EXCEPT ![p] = 0]
          /\ \E at \in {"check", "slice"} : rlAt' = [rlAt EXCEPT ![p] = at]
      BY <1>2 DEF Arrive, Goto
    <2>a. \A q \in Requests : /\ reported'[q] = IF q = p THEN 0 ELSE reported[q]
                              /\ q # p => rlAt'[q] = rlAt[q]
                              /\ rlAt'[p] \notin Recording
      BY <2>2 DEF RLTyped, RateLimitTypeOK, Recording
    <2>b. SlicesRecent' /\ ReportedLater'
      BY <2>1, <2>2, <2>a DEF UsageInv, SlicesRecent, ReportedLater
    <2>3. UsageIsOfSlice'
      BY <1>0, <2>2, <2>a DEF UsageInv, UsageIsOfSlice
    <2>4. QED
      BY <2>1, <2>b, <2>3 DEF UsageInv
  <1>3. ASSUME NEW p \in Requests, Check(p)
        PROVE  UsageInv'
    <2>1. EntriesOfSlices' /\ Cur' = Cur
      BY <1>1, <1>3 DEF Check
    <2>2. UNCHANGED <<slice, used, immortal, reported>> /\ rlAt[p] \in {"check", "recheck"}
          /\ (rlAt' = [rlAt EXCEPT ![p] = "idle"]
              \/ (rlAt[p] = "check" /\ rlAt' = [rlAt EXCEPT ![p] = "slice"]))
      BY <1>3 DEF Check, Goto
    <2>3. SlicesRecent' /\ ReportedLater' /\ UsageIsOfSlice'
      BY <1>0, <2>1, <2>2
      DEF UsageInv, SlicesRecent, ReportedLater, UsageIsOfSlice, Recording, RLTyped,
          RateLimitTypeOK
    <2>4. QED
      BY <2>1, <2>3 DEF UsageInv
  <1>4. ASSUME NEW p \in Requests, GetTimeslice(p)
        PROVE  UsageInv'
    <2>1. EntriesOfSlices' /\ Cur' = Cur
      BY <1>1, <1>4 DEF GetTimeslice
    <2>2. /\ UNCHANGED <<used, immortal, reported>> /\ rlAt[p] = "slice"
          /\ rlAt' = [rlAt EXCEPT ![p] = "add"] /\ slice' = [slice EXCEPT ![p] = Cur]
      BY <1>4 DEF GetTimeslice, Goto, Cur
    <2>3. Cur \in Slices
      BY RLTypeFacts
    <2>4. SlicesRecent' /\ ReportedLater' /\ UsageIsOfSlice'
      BY <1>0, <2>1, <2>2, <2>3
      DEF UsageInv, SlicesRecent, ReportedLater, UsageIsOfSlice, Recording, RLTyped,
          RateLimitTypeOK
    <2>5. QED
      BY <2>1, <2>4 DEF UsageInv
  <1>5. ASSUME NEW p \in Requests, Add(p)
        PROVE  UsageInv'
    <2>1. /\ UNCHANGED <<now, used, slice, reported>> /\ rlAt[p] = "add"
          /\ \E at \in {"incr", "idle"} : rlAt' = [rlAt EXCEPT ![p] = at]
      BY <1>5 DEF Add, Goto
    <2>2. Cur' = Cur
      BY <2>1 DEF Cur
    <2>3. EntriesOfSlices' /\ (immortal => immortal')
      <3>1. CASE SliceEnd(slice[p]) - now < 0
        BY <1>0, <1>1, <1>5, <3>1 DEF Add
      <3>2. CASE ~(SliceEnd(slice[p]) - now < 0)
        <4>1. SliceEnd(slice[p]) >= now
              /\ SliceEnd(slice[p]) - now = SliceEnd(slice[p]) - now + 0
          BY <1>0, <3>2
        <4>2. McAdd(KeyOf(slice[p]), 0, SliceEnd(slice[p]) - now + 0)
          BY <1>0, <1>5, <3>2, <4>1 DEF Add
        <4>3. \A r \in Slices : used[r] <= used'[r] /\ 0 <= used'[r]
          <5>1. ASSUME NEW r \in Slices PROVE used'[r] = used[r] /\ used[r] \in Nat
            BY <1>0, <2>1
          <5>2. \A n \in Nat : n <= n /\ 0 <= n
            OBVIOUS
          <5>3. QED
            BY <5>1, <5>2
        <4>4. EntriesOfSlices'
          BY <1>0, <2>1, <4>1, <4>2, <4>3, McAddEntries DEF UsageInv
        <4>5. QED
          BY <4>2, <4>4 DEF McAdd
      <3>3. QED
        BY <3>1, <3>2
    <2>4. SlicesRecent' /\ ReportedLater' /\ UsageIsOfSlice'
      BY <1>0, <2>1, <2>2, <2>3
      DEF UsageInv, SlicesRecent, ReportedLater, UsageIsOfSlice, Recording, RLTyped,
          RateLimitTypeOK
    <2>5. QED
      BY <2>3, <2>4 DEF UsageInv
  \* What a recorded usage reports.
  <1>6. ASSUME NEW p \in Requests, NEW n \in Nat, Recorded(p, n), rlAt[p] \in Recording,
               immortal => immortal', ~immortal' => n <= used[slice[p]] + 1,
               UNCHANGED <<now, slice>>
        PROVE  /\ SlicesRecent' /\ ReportedLater' /\ UsageIsOfSlice'
               /\ \A r \in Slices : used[r] <= used'[r]
               /\ used'[slice[p]] = used[slice[p]] + 1
    <2>1. /\ reported' = [reported EXCEPT ![p] = n] /\ Cur' = Cur
          /\ used' = [used EXCEPT ![slice[p]] = @ + 1]
          /\ \E at \in {"recheck", "idle"} : rlAt' = [rlAt EXCEPT ![p] = at]
      BY <1>6 DEF Recorded, Goto, Cur
    <2>2. used'[slice[p]] = used[slice[p]] + 1 /\ \A r \in Slices : used[r] <= used'[r]
      BY <1>0, <2>1 DEF RLTyped, RateLimitTypeOK
    <2>3. SlicesRecent' /\ ReportedLater'
      BY <1>0, <1>6, <2>1
      DEF UsageInv, SlicesRecent, ReportedLater, Recording, RLTyped, RateLimitTypeOK
    <2>4. ASSUME ~immortal', NEW q \in Requests
          PROVE  reported'[q] <= used'[slice'[q]]
      <3>1. CASE q = p
        <4>1. reported'[q] = n
          BY <2>1, <3>1 DEF RLTyped, RateLimitTypeOK
        <4>2. QED
          BY <1>6, <2>2, <2>4, <3>1, <4>1
      <3>2. CASE q # p
        <4>1. reported'[q] = reported[q] /\ reported[q] <= used[slice[q]]
          BY <1>6, <2>1, <2>4, <3>2 DEF UsageInv, UsageIsOfSlice, RLTyped, RateLimitTypeOK
        <4>2. slice'[q] = slice[q] /\ slice[q] \in Slices
          BY <1>0, <1>6
        <4>3. used[slice[q]] <= used'[slice[q]] /\ used[slice[q]] \in Nat
              /\ used'[slice[q]] \in Nat /\ reported[q] \in Nat
          BY <1>0, <2>2, <4>2
        <4>4. QED
          BY <4>1, <4>2, <4>3
      <3>3. QED
        BY <3>1, <3>2
    <2>5. QED
      BY <2>2, <2>3, <2>4 DEF UsageIsOfSlice
  <1>7. ASSUME NEW p \in Requests, Incr(p)
        PROVE  UsageInv'
    <2> DEFINE k == KeyOf(slice[p])
    <2>1. k \in TimesOfDay /\ rlAt[p] = "incr" /\ UNCHANGED <<now, slice, immortal>>
      BY <1>0, <1>7 DEF Incr
    <2>2. CASE ~Stored(k)
      <3>1. UNCHANGED <<mc, used, reported>> /\ rlAt' = [rlAt EXCEPT ![p] = "readd"]
        BY <1>7, <2>2 DEF Incr, Goto
      <3>2. EntriesOfSlices' /\ Cur' = Cur
        BY <1>1, <2>1, <3>1
      <3>3. SlicesRecent' /\ ReportedLater' /\ UsageIsOfSlice'
        BY <1>0, <2>1, <3>1, <3>2
        DEF UsageInv, SlicesRecent, ReportedLater, UsageIsOfSlice, Recording, RLTyped,
            RateLimitTypeOK
      <3>4. QED
        BY <3>2, <3>3 DEF UsageInv
    <2>3. CASE Stored(k)
      <3>1. mc' = [mc EXCEPT ![k].count = @ + 1] /\ Recorded(p, mc[k].count + 1)
        BY <1>7, <2>3 DEF Incr
      <3>2. Cur < slice[p] + RLDay /\ mc[k].count \in Nat /\ mc[k].expires \in Nat
        BY <1>0, <2>1, RLTypeFacts DEF UsageInv, SlicesRecent, Recording
      <3>3. (mc[k].expires = Forever /\ immortal) \/ EntryOf(k, slice[p])
        BY <1>0, <2>3, <3>2, OwnEntry DEF UsageInv
      <3>4. ~immortal => mc[k].count + 1 <= used[slice[p]] + 1
        BY <1>0, <3>2, <3>3 DEF EntryOf
      <3>5. /\ SlicesRecent' /\ ReportedLater' /\ UsageIsOfSlice'
            /\ \A r \in Slices : used[r] <= used'[r]
            /\ used'[slice[p]] = used[slice[p]] + 1
        <4>1. rlAt[p] \in Recording /\ mc[k].count + 1 \in Nat
          BY <2>1, <3>2 DEF Recording
        <4>2. QED
          BY <1>6, <2>1, <3>1, <3>4, <4>1
      <3>6. /\ mc'[k].count = mc[k].count + 1 /\ mc'[k].expires = mc[k].expires
            /\ \A j \in TimesOfDay \ {k} : mc'[j] = mc[j]
        BY <2>1, <3>1 DEF RLTyped, RateLimitTypeOK
      <3>7. ASSUME NEW j \in TimesOfDay, Stored(j)'
            PROVE  \/ mc'[j].expires = Forever /\ immortal'
                   \/ \E r \in Slices : r <= Cur' /\ EntryOf(j, r)'
        <4>0. Cur' = Cur
          BY <2>1 DEF Cur
        <4>1. CASE j = k
          <5>1. CASE mc[k].expires = Forever /\ immortal
            BY <2>1, <3>6, <4>1, <5>1
          <5>2. CASE EntryOf(k, slice[p])
            <6>1. EntryOf(k, slice[p])'
              <7>1. mc'[k].count <= used'[slice[p]]
                BY <1>0, <3>2, <3>5, <3>6, <5>2 DEF EntryOf
              <7>2. slice' = slice
                BY <2>1
              <7>3. QED
                BY <3>6, <5>2, <7>1, <7>2 DEF EntryOf
            <6>2. QED
              BY <1>0, <2>1, <4>0, <4>1, <6>1
          <5>3. QED
            BY <3>3, <5>1, <5>2
        <4>2. CASE j # k
          <5>1. mc'[j] = mc[j] /\ Stored(j)
            BY <2>1, <3>6, <3>7, <4>2 DEF Stored
          <5>2. CASE mc[j].expires = Forever /\ immortal
            BY <2>1, <5>1, <5>2
          <5>3. CASE \E r \in Slices : r <= Cur /\ EntryOf(j, r)
            <6>1. PICK r \in Slices : r <= Cur /\ EntryOf(j, r)
              BY <5>3
            <6>2. used[r] <= used'[r] /\ used[r] \in Nat /\ used'[r] \in Nat
                  /\ mc[j].count \in Nat
              BY <1>0, <3>5, RLTypeFacts
            <6>3. EntryOf(j, r)'
              BY <5>1, <6>1, <6>2 DEF EntryOf
            <6>4. QED
              BY <4>0, <6>1, <6>3
          <5>4. QED
            BY <5>1, <5>2, <5>3 DEF UsageInv, EntriesOfSlices
        <4>3. QED
          BY <4>1, <4>2
      <3>8. QED
        BY <3>5, <3>7 DEF UsageInv, EntriesOfSlices
    <2>4. QED
      BY <2>2, <2>3
  <1>8. ASSUME NEW p \in Requests, Readd(p)
        PROVE  UsageInv'
    <2>1. Recorded(p, 1) /\ rlAt[p] = "readd" /\ UNCHANGED <<now, slice>>
      BY <1>8 DEF Readd
    <2>2. immortal => immortal'
      BY <1>8 DEF Readd, McAdd
    <2>3. /\ SlicesRecent' /\ ReportedLater' /\ UsageIsOfSlice'
          /\ \A r \in Slices : used[r] <= used'[r]
          /\ used'[slice[p]] = used[slice[p]] + 1
      <3>1. rlAt[p] \in Recording /\ 1 <= used[slice[p]] + 1
        BY <1>0, <2>1 DEF Recording
      <3>2. QED
        BY <1>6, <2>1, <2>2, <3>1
    <2>4. EntriesOfSlices'
      <3>1. CASE now < SliceEnd(slice[p])
        <4>1. McAdd(KeyOf(slice[p]), 1, SliceEnd(slice[p]) - now + 1)
          BY <1>8, <3>1 DEF Readd
        <4>2. SliceEnd(slice[p]) >= now /\ 1 <= used'[slice[p]]
          BY <1>0, <2>3, <3>1
        <4>3. QED
          BY <1>0, <2>1, <2>3, <4>1, <4>2, McAddEntries DEF UsageInv
      <3>2. CASE ~(now < SliceEnd(slice[p]))
        <4>1. UNCHANGED <<mc, immortal>> /\ Cur' = Cur
          BY <1>8, <2>1, <3>2 DEF Readd, Cur
        <4>2. Cur <= Cur' /\ now <= now'
          BY <1>0, <2>1, <4>1
        <4>3. QED
          BY <2>3, <4>1, <4>2, EntriesStay DEF UsageInv
      <3>3. QED
        BY <3>1, <3>2
    <2>5. QED
      BY <2>3, <2>4 DEF UsageInv
  <1>9. CASE Tick
    <2>1. /\ now' = now + 1 /\ UNCHANGED <<slice, rlAt, reported, used, immortal>>
          /\ \A k \in TimesOfDay : mc'[k] = IF mc[k].expires > now' THEN mc[k] ELSE Nothing
      BY <1>9 DEF Tick
    <2>2. Cur <= Cur'
      <3>1. now' \in Nat /\ now <= now' /\ Cur' \in Nat
        BY <1>0, <2>1, SliceBounds DEF Cur
      <3>2. CASE Cur' < Cur
        <4>1. SliceEnd(Cur') <= now
          BY <1>0, <3>1, <3>2, SliceOver DEF Cur
        <4>2. now' < SliceEnd(Cur') /\ SliceEnd(Cur') \in Nat
          BY <3>1, SliceBounds, EndIsNat DEF Cur
        <4>3. QED
          BY <1>0, <3>1, <4>1, <4>2
      <3>3. QED
        BY <1>0, <3>1, <3>2
    <2>3. \A k \in TimesOfDay : Stored(k)' => mc'[k] = mc[k]
      <3>1. ~(Nothing.expires > now')
        BY <1>0, <2>1 DEF Nothing
      <3>2. QED
        BY <2>1, <3>1 DEF Stored
    <2>4. EntriesOfSlices'
      <3>1. now <= now' /\ \A s \in Slices : used[s] <= used'[s]
        <4>1. now <= now'
          BY <1>0, <2>1
        <4>2. used' = used
          BY <2>1
        <4>3. \A s \in Slices : used[s] <= used[s]
          BY <1>0
        <4>4. QED
          BY <4>1, <4>2, <4>3
      <3>2. QED
        BY <2>1, <2>2, <2>3, <3>1, EntriesStay DEF UsageInv
    <2>5. SlicesRecent'
      BY <1>9, <2>1 DEF Tick, SlicesRecent, Recording, Cur
    <2>6. ReportedLater' /\ UsageIsOfSlice'
      BY <2>1 DEF UsageInv, ReportedLater, UsageIsOfSlice
    <2>7. QED
      BY <2>4, <2>5, <2>6 DEF UsageInv
  <1>10. ASSUME NEW k \in TimesOfDay, Evict(k)
         PROVE  UsageInv'
    <2>1. /\ UNCHANGED <<now, slice, rlAt, reported, used, immortal>>
          /\ mc' = [mc EXCEPT ![k] = Nothing]
      BY <1>10 DEF Evict
    <2>2. \A j \in TimesOfDay : Stored(j)' => mc'[j] = mc[j]
      <3>1. ~(Nothing.expires > now)
        BY <1>0 DEF Nothing
      <3>2. QED
        BY <2>1, <3>1 DEF Stored, RLTyped, RateLimitTypeOK
    <2>3. Cur' = Cur /\ Cur <= Cur' /\ now <= now' /\ \A s \in Slices : used[s] <= used'[s]
      <3>1. Cur' = Cur
        BY <2>1 DEF Cur
      <3>2. used' = used /\ now' = now
        BY <2>1
      <3>3. \A s \in Slices : used[s] <= used[s]
        <4>1. \A s \in Slices : used[s] \in Nat
          BY <1>0
        <4>2. \A n \in Nat : n <= n
          OBVIOUS
        <4>3. QED
          BY <4>1, <4>2
      <3>4. QED
        BY <1>0, <3>1, <3>2, <3>3
    <2>4. EntriesOfSlices'
      BY <2>1, <2>2, <2>3, EntriesStay DEF UsageInv
    <2>5. QED
      BY <2>1, <2>3, <2>4
      DEF UsageInv, SlicesRecent, ReportedLater, UsageIsOfSlice
  <1>11. CASE UNCHANGED rlVars
    <2>1. UNCHANGED <<now, mc, used, immortal, slice, rlAt, reported>>
      BY <1>11 DEF rlVars
    <2>2. EntriesOfSlices' /\ Cur' = Cur
      BY <1>1, <2>1
    <2>3. QED
      BY <2>1, <2>2 DEF UsageInv, SlicesRecent, ReportedLater, UsageIsOfSlice
  <1>12. QED
    BY <1>2, <1>3, <1>4, <1>5, <1>7, <1>8, <1>9, <1>10, <1>11 DEF RateLimitNext

-----------------------------------------------------------------------------
(* Requests are admitted up to the limit                                   *)

\* What memcached has counted in the current slice.
Counted == IF Stored(KeyOf(Cur)) THEN mc[KeyOf(Cur)].count ELSE 0

\* Admitted, perhaps in the current slice, and not yet recorded in it.
ToRecord ==
    {p \in Requests : rlAt[p] = "slice" \/ (rlAt[p] \in Recording /\ slice[p] = Cur)}

\* No slice has admitted anybody before it began.
NoneAhead == \A s \in Slices : s > Cur => admitted[s] = 0

\* Who checks first has nothing in its local cache.
ChecksAfresh ==
    \A p \in Requests :
        /\ rlAt[p] = "check" => protocol = "check" /\ \A k \in TimesOfDay : local[p][k] = Absent
        /\ rlAt[p] = "recheck" => protocol = "record_and_check"

\* The entry of the current slice is there until the slice ends.
EntryStays ==
    \A p \in Requests : slice[p] = Cur =>
        rlAt[p] # "readd" /\ (rlAt[p] = "incr" => Stored(KeyOf(Cur)))

\* Who was admitted in the current slice is counted there, or about to be; and
\* no slice has admitted more than the limit.
AdmittedCounted ==
    /\ protocol = "check" => admitted[Cur] <= Counted + Cardinality(ToRecord)
    /\ protocol = "count" => admitted[Cur] <= Counted
    /\ \A s \in Slices : admitted[s] < RLLimit + Slack

LimitInv ==
    /\ NoneAhead /\ ChecksAfresh
    /\ (protocol # "record_and_check" /\ evicts = 0) => EntryStays /\ AdmittedCounted

\* The counts and their bounds are numbers.
LEMMA CountFacts ==
  ASSUME RLTyped
  PROVE  /\ Counted \in Nat /\ IsFiniteSet(ToRecord) /\ Cardinality(ToRecord) \in Nat
         /\ Cardinality(ToRecord) <= Cardinality(Requests) /\ Cardinality(Requests) \in Nat
         /\ \A p \in Requests : p \notin ToRecord => Cardinality(ToRecord) < Cardinality(Requests)
         /\ Slack \in Nat /\ RLLimit \in Nat \ {0}
         /\ admitted \in [Slices -> Nat] /\ Cur \in Slices /\ Slices \subseteq Nat
         /\ KeyOf(Cur) \in TimesOfDay
  <1>1. IsFiniteSet(Requests) /\ RLLimit \in Nat \ {0}
    BY RateLimitAssumption
  <1>2. ToRecord \in SUBSET Requests
    BY DEF ToRecord
  <1>3. /\ IsFiniteSet(ToRecord) /\ Cardinality(ToRecord) <= Cardinality(Requests)
        /\ Cardinality(Requests) = Cardinality(ToRecord) => Requests = ToRecord
    BY <1>1, <1>2, FS_Subset
  <1>4. Cardinality(ToRecord) \in Nat /\ Cardinality(Requests) \in Nat
    BY <1>1, <1>3, FS_CardinalityType
  <1>5. KeyOf(Cur) \in TimesOfDay
    BY RLTypeFacts, KeyIsTime
  <1>6. Counted \in Nat
    BY <1>5, RLTypeFacts DEF Counted
  <1>7. Slack \in Nat
    BY <1>4 DEF Slack
  <1>8. admitted \in [Slices -> Nat] /\ Cur \in Slices /\ Slices \subseteq Nat
    BY RLTypeFacts DEF RLTyped, RateLimitTypeOK
  <1>9. QED
    BY <1>1, <1>3, <1>4, <1>5, <1>6, <1>7, <1>8

\* A key is used by one slice at a time.
LEMMA OtherKey ==
  ASSUME RLTyped, NEW r \in Slices, r < Cur, Cur < r + RLDay
  PROVE  KeyOf(r) # KeyOf(Cur)
  <1>1. r \in Nat /\ Cur \in Nat /\ RLDay \in Nat
    BY RLTypeFacts
  <1>2. QED
    BY <1>1, SameKey

\* The balance of a step that admits nobody.
LEMMA BalanceKept ==
  ASSUME RLTyped, RLTyped', AdmittedCounted, UNCHANGED <<protocol, now, admitted>>,
         Counted <= Counted',
         Counted + Cardinality(ToRecord) <= Counted' + Cardinality(ToRecord)'
  PROVE  AdmittedCounted'
  <1>1. Counted \in Nat /\ Cardinality(ToRecord) \in Nat /\ admitted[Cur] \in Nat
    BY CountFacts
  <1>2. Counted' \in Nat /\ Cardinality(ToRecord)' \in Nat
    <2>1. IsFiniteSet(ToRecord')
      <3>1. ToRecord' \in SUBSET Requests
        BY DEF ToRecord
      <3>2. QED
        BY <3>1, RateLimitAssumption, FS_Subset
    <2>2. KeyOf(Cur') \in TimesOfDay
      <3>1. Cur' = Cur
        BY DEF Cur
      <3>2. QED
        BY <3>1, CountFacts
    <2>3. \A k \in TimesOfDay : mc'[k].count \in Nat
      BY DEF RLTyped, RateLimitTypeOK
    <2>4. Counted' \in Nat
      BY <2>2, <2>3 DEF Counted
    <2>5. QED
      BY <2>1, <2>4, FS_CardinalityType
  <1>3. Cur' = Cur /\ Slack' = Slack
    BY DEF Cur, Slack
  <1>4. protocol' = "check" => admitted'[Cur'] <= Counted' + Cardinality(ToRecord)'
    BY <1>1, <1>2, <1>3 DEF AdmittedCounted
  <1>5. protocol' = "count" => admitted'[Cur'] <= Counted'
    BY <1>1, <1>2, <1>3 DEF AdmittedCounted
  <1>6. QED
    BY <1>3, <1>4, <1>5 DEF AdmittedCounted

\* Every step keeps the balance: admitted requests are counted or about to be.
LEMMA LimitStep ==
  ASSUME RLTyped, RLTyped', UsageInv, LimitInv, [RateLimitNext]_rlVars
  PROVE  LimitInv'
  <1> DEFINE Holding == protocol # "record_and_check" /\ evicts = 0
  <1>0. /\ now \in Nat /\ Cur \in Nat /\ RLDay \in Nat \ {0, 1} /\ Slices \subseteq Nat
        /\ Cur \in Slices /\ KeyOf(Cur) \in TimesOfDay /\ now < SliceEnd(Cur)
        /\ SliceEnd(Cur) \in Nat
    BY RLTypeFacts, CountFacts, SliceBounds, EndIsNat DEF Cur
  <1>a. ASSUME NEW p \in Requests
        PROVE  /\ slice[p] \in Slices /\ slice[p] \in Nat /\ slice[p] <= Cur
               /\ SliceEnd(slice[p]) \in Nat /\ KeyOf(slice[p]) \in TimesOfDay
               /\ slice[p] # Cur => slice[p] < Cur /\ SliceEnd(slice[p]) <= now
               /\ (slice[p] # Cur /\ rlAt[p] \in Recording) => KeyOf(slice[p]) # KeyOf(Cur)
    <2>1. slice[p] \in Slices /\ slice[p] \in Nat /\ slice[p] <= Cur
      BY RLTypeFacts
    <2>2. SliceEnd(slice[p]) \in Nat /\ KeyOf(slice[p]) \in TimesOfDay
      BY <2>1, EndIsNat, KeyIsTime
    <2>3. slice[p] # Cur => slice[p] < Cur
      BY <1>0, <2>1
    <2>4. slice[p] < Cur => SliceEnd(slice[p]) <= now
      BY <1>0, <2>1, SliceOver DEF Cur
    <2>5. (slice[p] < Cur /\ rlAt[p] \in Recording) => KeyOf(slice[p]) # KeyOf(Cur)
      BY <2>1, OtherKey DEF UsageInv, SlicesRecent
    <2>6. QED
      BY <2>1, <2>2, <2>3, <2>4, <2>5
  \* A step that admits nobody, by p alone or by nobody.
  <1>1. ASSUME UNCHANGED <<protocol, now, evicts, admitted>>, ChecksAfresh',
               Holding => /\ EntryStays' /\ Counted <= Counted'
                          /\ Counted + Cardinality(ToRecord) <= Counted' + Cardinality(ToRecord)'
        PROVE  LimitInv'
    <2>1. NoneAhead'
      BY <1>1 DEF LimitInv, NoneAhead, Cur
    <2>2. Holding => AdmittedCounted'
      BY <1>1, BalanceKept DEF LimitInv
    <2>3. QED
      BY <1>1, <2>1, <2>2 DEF LimitInv
  \* One that does not change the counts either.
  <1>2. ASSUME UNCHANGED <<protocol, now, evicts, admitted>>, ChecksAfresh',
               mc'[KeyOf(Cur)] = mc[KeyOf(Cur)], Holding => EntryStays' /\ ToRecord' = ToRecord
        PROVE  LimitInv'
    <2>1. Counted' = Counted /\ Counted \in Nat /\ Cardinality(ToRecord) \in Nat
      <3>1. Counted' = Counted
        BY <1>2 DEF Counted, Cur, Stored
      <3>2. QED
        BY <3>1, CountFacts
    <2>2. Counted <= Counted'
      BY <2>1
    <2>3. Holding => Counted + Cardinality(ToRecord) <= Counted' + Cardinality(ToRecord)'
      BY <1>2, <2>1
    <2>4. QED
      BY <1>1, <1>2, <2>2, <2>3
  <1>3. ASSUME NEW p \in Requests, Arrive(p)
        PROVE  LimitInv'
    <2>1. /\ UNCHANGED <<protocol, now, evicts, admitted, mc, slice>> /\ rlAt[p] = "idle"
          /\ rlAt' = [rlAt EXCEPT ![p] = IF protocol = "check" THEN "check" ELSE "slice"]
          /\ local' = [local EXCEPT ![p] = [k \in TimesOfDay |-> Absent]]
      BY <1>3 DEF Arrive, Goto
    <2>2. \A q \in Requests : q # p => rlAt'[q] = rlAt[q] /\ local'[q] = local[q]
      BY <2>1 DEF RLTyped, RateLimitTypeOK
    <2>3. /\ rlAt'[p] = IF protocol = "check" THEN "check" ELSE "slice"
          /\ \A k \in TimesOfDay : local'[p][k] = Absent
      BY <2>1 DEF RLTyped, RateLimitTypeOK
    <2>4. ChecksAfresh'
      BY <2>1, <2>2, <2>3 DEF LimitInv, ChecksAfresh
    <2>5. Holding => EntryStays'
      <3>1. KeyOf(Cur)' = KeyOf(Cur) /\ Cur' = Cur /\ Stored(KeyOf(Cur))' = Stored(KeyOf(Cur))
        BY <2>1 DEF Cur, Stored
      <3>2. QED
        BY <2>1, <2>2, <2>3, <3>1 DEF LimitInv, EntryStays
    <2>6. CASE protocol = "check"
      <3>1. ToRecord' = ToRecord
        <4>1. \A q \in Requests : q \in ToRecord' <=> q \in ToRecord
          BY <2>1, <2>2, <2>3, <2>6 DEF ToRecord, Recording, Cur
        <4>2. QED
          BY <4>1 DEF ToRecord
      <3>2. QED
        BY <1>2, <2>1, <2>4, <2>5, <3>1
    <2>7. CASE protocol # "check"
      <3>1. ToRecord' = ToRecord \cup {p} /\ p \notin ToRecord
        <4>1. \A q \in Requests : q \in ToRecord' <=> (q \in ToRecord \/ q = p)
          BY <2>1, <2>2, <2>3, <2>7 DEF ToRecord, Recording, Cur
        <4>2. p \notin ToRecord
          BY <2>1 DEF ToRecord, Recording
        <4>3. QED
          BY <4>1, <4>2 DEF ToRecord
      <3>2. Cardinality(ToRecord)' = Cardinality(ToRecord) + 1
        BY <3>1, CountFacts, FS_AddElement
      <3>3. Counted' = Counted
        BY <2>1 DEF Counted, Cur, Stored
      <3>4. /\ Counted <= Counted'
            /\ Counted + Cardinality(ToRecord) <= Counted' + Cardinality(ToRecord)'
        BY <3>2, <3>3, CountFacts
      <3>5. QED
        BY <1>1, <2>1, <2>4, <2>5, <3>4
    <2>8. QED
      BY <2>6, <2>7
  <1>4. ASSUME NEW p \in Requests, Check(p)
        PROVE  LimitInv'
    <2> DEFINE usage == Usage(p, KeyOf(Cur))
    <2>1. /\ UNCHANGED <<protocol, now, evicts, mc, slice>> /\ rlAt[p] \in {"check", "recheck"}
          /\ local' = [local EXCEPT ![p][KeyOf(Cur)] = usage]
          /\ Admit(Cur, BelowLimit(usage))
          /\ rlAt' = [rlAt EXCEPT ![p] = IF rlAt[p] = "check" /\ BelowLimit(usage) THEN "slice"
                                         ELSE "idle"]
      BY <1>4 DEF Check, Goto, Cur
    <2>2. \A q \in Requests : q # p => rlAt'[q] = rlAt[q] /\ local'[q] = local[q]
      BY <2>1 DEF RLTyped, RateLimitTypeOK
    <2>3. rlAt'[p] = IF rlAt[p] = "check" /\ BelowLimit(usage) THEN "slice" ELSE "idle"
      BY <2>1 DEF RLTyped, RateLimitTypeOK
    <2>4. ChecksAfresh'
      BY <2>1, <2>2, <2>3 DEF LimitInv, ChecksAfresh
    <2>5. Cur' = Cur /\ Counted' = Counted /\ Slack' = Slack
      BY <2>1 DEF Cur, Counted, Stored, Slack
    <2>6. Holding => EntryStays'
      <3>1. KeyOf(Cur)' = KeyOf(Cur) /\ Stored(KeyOf(Cur))' = Stored(KeyOf(Cur))
        BY <2>1 DEF Cur, Stored
      <3>2. QED
        BY <2>1, <2>2, <2>3, <2>5, <3>1 DEF LimitInv, EntryStays
    <2>7. NoneAhead'
      BY <1>0, <2>1, <2>5, CountFacts DEF LimitInv, NoneAhead, Admit
    <2>8. ASSUME Holding
          PROVE  AdmittedCounted'
      <3>1. protocol = "check" /\ rlAt[p] = "check" /\ local[p][KeyOf(Cur)] = Absent
        BY <1>0, <2>1, <2>8 DEF LimitInv, ChecksAfresh
      <3>2. usage = IF Stored(KeyOf(Cur)) THEN mc[KeyOf(Cur)].count ELSE Absent
        BY <3>1 DEF Usage
      <3>3. CASE BelowLimit(usage)
        <4>1. admitted' = [admitted EXCEPT ![Cur] = @ + 1]
          BY <1>0, <2>1, <3>3 DEF Admit
        <4>2. ToRecord' = ToRecord \cup {p} /\ p \notin ToRecord
          <5>1. \A q \in Requests : q \in ToRecord' <=> (q \in ToRecord \/ q = p)
            BY <2>1, <2>2, <2>3, <2>5, <3>1, <3>3 DEF ToRecord, Recording
          <5>2. p \notin ToRecord
            BY <3>1 DEF ToRecord, Recording
          <5>3. QED
            BY <5>1, <5>2 DEF ToRecord
        <4>3. Cardinality(ToRecord)' = Cardinality(ToRecord) + 1
          BY <4>2, CountFacts, FS_AddElement
        <4>4. Counted < RLLimit
          BY <3>2, <3>3, CountFacts DEF BelowLimit, Counted, Absent
        <4>5. admitted[Cur] <= Counted + Cardinality(ToRecord)
          BY <2>8, <3>1 DEF LimitInv, AdmittedCounted
        <4>6. Cardinality(ToRecord) < Cardinality(Requests) /\ Slack = Cardinality(Requests)
          BY <3>1, <4>2, CountFacts DEF Slack
        <4>7. admitted[Cur] \in Nat /\ admitted'[Cur] = admitted[Cur] + 1
              /\ \A s \in Slices : s # Cur => admitted'[s] = admitted[s]
          BY <4>1, CountFacts
        <4>8. admitted'[Cur] <= Counted + Cardinality(ToRecord)'
          BY <4>3, <4>5, <4>7, CountFacts
        <4>9. admitted'[Cur] < RLLimit + Slack
          BY <4>4, <4>5, <4>6, <4>7, CountFacts
        <4>10. \A s \in Slices : admitted'[s] < RLLimit + Slack
          BY <2>8, <4>7, <4>9 DEF LimitInv, AdmittedCounted
        <4>11. QED
          BY <2>1, <2>5, <3>1, <4>8, <4>10 DEF AdmittedCounted
      <3>4. CASE ~BelowLimit(usage)
        <4>1. admitted' = admitted
          BY <2>1, <3>4 DEF Admit
        <4>2. ToRecord' = ToRecord
          <5>1. \A q \in Requests : q \in ToRecord' <=> q \in ToRecord
            BY <2>1, <2>2, <2>3, <2>5, <3>1, <3>4 DEF ToRecord, Recording
          <5>2. QED
            BY <5>1 DEF ToRecord
        <4>3. QED
          BY <2>1, <2>5, <2>8, <4>1, <4>2 DEF LimitInv, AdmittedCounted
      <3>5. QED
        BY <3>3, <3>4
    <2>9. QED
      BY <2>1, <2>4, <2>6, <2>7, <2>8 DEF LimitInv
  <1>5. ASSUME NEW p \in Requests, GetTimeslice(p)
        PROVE  LimitInv'
    <2>1. /\ UNCHANGED <<protocol, now, evicts, admitted, mc, local>> /\ rlAt[p] = "slice"
          /\ rlAt' = [rlAt EXCEPT ![p] = "add"] /\ slice' = [slice EXCEPT ![p] = Cur]
      BY <1>5 DEF GetTimeslice, Goto, Cur
    <2>2. /\ \A q \in Requests : q # p => rlAt'[q] = rlAt[q] /\ slice'[q] = slice[q]
          /\ rlAt'[p] = "add" /\ slice'[p] = Cur
      BY <2>1 DEF RLTyped, RateLimitTypeOK
    <2>3. ChecksAfresh'
      BY <2>1, <2>2 DEF LimitInv, ChecksAfresh
    <2>4. Cur' = Cur
      BY <2>1 DEF Cur
    <2>5. ToRecord' = ToRecord
      <3>1. \A q \in Requests : q \in ToRecord' <=> q \in ToRecord
        BY <2>1, <2>2, <2>4 DEF ToRecord, Recording
      <3>2. QED
        BY <3>1 DEF ToRecord
    <2>6. Holding => EntryStays'
      <3>1. KeyOf(Cur)' = KeyOf(Cur) /\ Stored(KeyOf(Cur))' = Stored(KeyOf(Cur))
        BY <2>1 DEF Cur, Stored
      <3>2. QED
        BY <2>2, <2>4, <3>1 DEF LimitInv, EntryStays
    <2>7. QED
      BY <1>2, <2>1, <2>3, <2>5, <2>6
  <1>6. ASSUME NEW p \in Requests, Add(p)
        PROVE  LimitInv'
    <2>1. /\ UNCHANGED <<protocol, now, evicts, admitted, slice>> /\ rlAt[p] = "add"
          /\ \E at \in {"incr", "idle"} : rlAt' = [rlAt EXCEPT ![p] = at]
          /\ LocalAdd(p, KeyOf(slice[p]), 0)
      BY <1>6 DEF Add, Goto
    <2>2. /\ \A q \in Requests : q # p => rlAt'[q] = rlAt[q] /\ local'[q] = local[q]
          /\ rlAt'[p] \in {"incr", "idle"}
      BY <2>1 DEF RLTyped, RateLimitTypeOK, LocalAdd
    <2>3. ChecksAfresh'
      BY <2>1, <2>2 DEF LimitInv, ChecksAfresh
    <2>4. Cur' = Cur /\ rlAt[p] \in Recording
      BY <2>1 DEF Cur, Recording
    <2>5. CASE SliceEnd(slice[p]) - now < 0
      <3>1. mc' = mc /\ rlAt' = [rlAt EXCEPT ![p] = "idle"]
        BY <1>0, <1>a, <1>6, <2>5 DEF Add, Goto
      <3>2. rlAt'[p] = "idle" /\ slice[p] # Cur
        BY <1>0, <2>5, <3>1 DEF RLTyped, RateLimitTypeOK
      <3>3. ToRecord' = ToRecord
        <4>1. \A q \in Requests : q \in ToRecord' <=> q \in ToRecord
          BY <2>1, <2>2, <2>4, <3>2 DEF ToRecord, Recording
        <4>2. QED
          BY <4>1 DEF ToRecord
      <3>4. Holding => EntryStays'
        <4>1. Stored(KeyOf(Cur))' = Stored(KeyOf(Cur))
          BY <2>1, <3>1 DEF Cur, Stored
        <4>2. QED
          BY <2>1, <2>2, <2>4, <3>2, <4>1 DEF LimitInv, EntryStays
      <3>5. QED
        BY <1>2, <2>1, <2>3, <3>1, <3>3, <3>4
    <2>6. CASE ~(SliceEnd(slice[p]) - now < 0)
      <3> DEFINE k == KeyOf(slice[p])
      <3>1. McAdd(k, 0, SliceEnd(slice[p]) - now) /\ rlAt' = [rlAt EXCEPT ![p] = "incr"]
        BY <1>0, <1>a, <1>6, <2>6 DEF Add, Goto
      <3>2. rlAt'[p] = "incr"
        BY <3>1 DEF RLTyped, RateLimitTypeOK
      <3>3. ToRecord' = ToRecord
        <4>1. \A q \in Requests : q \in ToRecord' <=> q \in ToRecord
          BY <2>1, <2>2, <2>4, <3>2 DEF ToRecord, Recording
        <4>2. QED
          BY <4>1 DEF ToRecord
      <3>4. CASE slice[p] = Cur
        <4>1. CASE Stored(k)
          <5>1. mc' = mc
            BY <3>1, <4>1 DEF McAdd
          <5>2. Stored(KeyOf(Cur))' = Stored(KeyOf(Cur))
            BY <2>1, <5>1 DEF Cur, Stored
          <5>3. Holding => EntryStays'
            BY <2>1, <2>2, <2>4, <3>2, <3>4, <4>1, <5>2 DEF LimitInv, EntryStays
          <5>4. QED
            BY <1>2, <2>1, <2>3, <3>3, <5>1, <5>3
        <4>2. CASE ~Stored(k)
          <5>1. SliceEnd(slice[p]) - now # 0 /\ now + (SliceEnd(slice[p]) - now) = SliceEnd(Cur)
            BY <1>0, <3>4
          <5>2. mc' = [mc EXCEPT ![k] = [count |-> 0, expires |-> SliceEnd(Cur)]]
            BY <3>1, <4>2, <5>1 DEF McAdd
          <5>3. mc'[KeyOf(Cur)].count = 0 /\ mc'[KeyOf(Cur)].expires = SliceEnd(Cur)
            BY <1>0, <3>4, <5>2 DEF RLTyped, RateLimitTypeOK
          <5>4. Stored(KeyOf(Cur))'
            BY <1>0, <2>1, <2>4, <5>3 DEF Stored
          <5>5. Counted = 0 /\ Counted' = 0
            BY <2>4, <3>4, <4>2, <5>3, <5>4 DEF Counted
          <5>6. Holding => EntryStays'
            BY <2>1, <2>2, <2>4, <3>2, <5>4 DEF LimitInv, EntryStays
          <5>7. Counted <= Counted' /\ Counted + Cardinality(ToRecord)
                                         <= Counted' + Cardinality(ToRecord)'
            BY <3>3, <5>5, CountFacts
          <5>8. QED
            BY <1>1, <2>1, <2>3, <5>6, <5>7
        <4>3. QED
          BY <4>1, <4>2
      <3>5. CASE slice[p] # Cur
        <4>1. k # KeyOf(Cur)
          BY <1>a, <2>4, <3>5
        <4>2. mc'[KeyOf(Cur)] = mc[KeyOf(Cur)]
          BY <1>0, <3>1, <4>1 DEF McAdd, RLTyped, RateLimitTypeOK
        <4>3. Stored(KeyOf(Cur))' = Stored(KeyOf(Cur))
          BY <2>1, <2>4, <4>2 DEF Stored
        <4>4. Holding => EntryStays'
          BY <2>1, <2>2, <2>4, <3>5, <4>3 DEF LimitInv, EntryStays
        <4>5. QED
          BY <1>2, <2>1, <2>3, <3>3, <4>2, <4>4
      <3>6. QED
        BY <3>4, <3>5
    <2>7. QED
      BY <2>5, <2>6
  <1>7. ASSUME NEW p \in Requests, Incr(p)
        PROVE  LimitInv'
    <2> DEFINE k == KeyOf(slice[p])
    <2>1. /\ UNCHANGED <<protocol, now, evicts, slice>> /\ rlAt[p] = "incr"
          /\ LocalIncr(p, k)
          /\ \E at \in {"readd", "recheck", "idle"} :
                /\ rlAt' = [rlAt EXCEPT ![p] = at]
                /\ at = "recheck" => protocol = "record_and_check"
      BY <1>7 DEF Incr, Recorded, Goto
    <2>2. /\ \A q \in Requests : q # p => rlAt'[q] = rlAt[q] /\ local'[q] = local[q]
          /\ rlAt'[p] \in {"readd", "recheck", "idle"}
          /\ rlAt'[p] = "recheck" => protocol = "record_and_check"
      BY <2>1 DEF RLTyped, RateLimitTypeOK, LocalIncr
    <2>3. ChecksAfresh'
      BY <2>1, <2>2 DEF LimitInv, ChecksAfresh
    <2>4. Cur' = Cur /\ rlAt[p] \in Recording
      BY <2>1 DEF Cur, Recording
    <2>5. CASE ~Stored(k)
      <3>1. UNCHANGED <<mc, admitted>> /\ rlAt'[p] = "readd"
        BY <1>7, <2>5 DEF Incr, Goto, RLTyped, RateLimitTypeOK
      <3>2. Holding => slice[p] # Cur
        BY <2>1, <2>5 DEF LimitInv, EntryStays
      <3>3. ToRecord' = ToRecord
        <4>1. \A q \in Requests : q \in ToRecord' <=> q \in ToRecord
          BY <2>1, <2>2, <2>4, <3>1 DEF ToRecord, Recording
        <4>2. QED
          BY <4>1 DEF ToRecord
      <3>4. Stored(KeyOf(Cur))' = Stored(KeyOf(Cur))
        BY <2>1, <2>4, <3>1 DEF Stored
      <3>5. Holding => EntryStays'
        BY <2>1, <2>2, <2>4, <3>2, <3>4 DEF LimitInv, EntryStays
      <3>6. QED
        BY <1>2, <2>1, <2>3, <3>1, <3>3, <3>5
    <2>6. CASE Stored(k)
      <3>1. mc' = [mc EXCEPT ![k].count = @ + 1] /\ Recorded(p, mc[k].count + 1)
        BY <1>7, <2>6 DEF Incr
      <3>2. rlAt'[p] \in {"recheck", "idle"}
        BY <3>1 DEF Recorded, Goto, RLTyped, RateLimitTypeOK
      <3>3. Admit(slice[p], protocol = "count" /\ mc[k].count + 1 < RLLimit)
        BY <3>1 DEF Recorded
      <3>4. CASE slice[p] # Cur
        <4>1. k # KeyOf(Cur) /\ ~(now < SliceEnd(slice[p]))
          BY <1>0, <1>a, <2>4, <3>4
        <4>2. mc'[KeyOf(Cur)] = mc[KeyOf(Cur)] /\ admitted' = admitted
          BY <1>0, <3>1, <3>3, <4>1 DEF Admit, RLTyped, RateLimitTypeOK
        <4>3. Stored(KeyOf(Cur))' = Stored(KeyOf(Cur))
          BY <2>1, <2>4, <4>2 DEF Stored
        <4>4. Holding => EntryStays'
          BY <2>1, <2>2, <2>4, <3>4, <4>3 DEF LimitInv, EntryStays
        <4>5. ToRecord' = ToRecord
          <5>1. \A q \in Requests : q \in ToRecord' <=> q \in ToRecord
            BY <2>1, <2>2, <2>4, <3>2, <3>4 DEF ToRecord, Recording
          <5>2. QED
            BY <5>1 DEF ToRecord
        <4>6. QED
          BY <1>2, <2>1, <2>3, <4>2, <4>4, <4>5
      <3>5. CASE slice[p] = Cur
        <4>1. /\ mc'[KeyOf(Cur)].count = mc[KeyOf(Cur)].count + 1
              /\ mc'[KeyOf(Cur)].expires = mc[KeyOf(Cur)].expires
          BY <1>0, <3>1, <3>5 DEF RLTyped, RateLimitTypeOK
        <4>2. Stored(KeyOf(Cur)) /\ Stored(KeyOf(Cur))'
          BY <2>1, <2>4, <2>6, <3>5, <4>1 DEF Stored
        <4>3. Counted = mc[KeyOf(Cur)].count /\ Counted' = Counted + 1
          BY <2>4, <4>1, <4>2 DEF Counted
        <4>4. ToRecord' = ToRecord \ {p} /\ p \in ToRecord
          <5>1. \A q \in Requests : q \in ToRecord' <=> (q \in ToRecord /\ q # p)
            BY <2>1, <2>2, <2>4, <3>2 DEF ToRecord, Recording
          <5>2. p \in ToRecord
            BY <2>4, <3>5 DEF ToRecord
          <5>3. QED
            BY <5>1, <5>2 DEF ToRecord
        <4>5. Cardinality(ToRecord)' = Cardinality(ToRecord) - 1
          BY <4>4, CountFacts, FS_RemoveElement
        <4>6. Holding => EntryStays'
          BY <2>1, <2>2, <2>4, <3>2, <4>2 DEF LimitInv, EntryStays
        <4>7. Counted <= Counted' /\ Counted + Cardinality(ToRecord)
                                       <= Counted' + Cardinality(ToRecord)'
          BY <4>3, <4>5, CountFacts
        <4>8. CASE ~(protocol = "count" /\ mc[k].count + 1 < RLLimit)
          <5>1. admitted' = admitted
            BY <3>3, <4>8 DEF Admit
          <5>2. QED
            BY <1>1, <2>1, <2>3, <4>6, <4>7, <5>1
        <4>9. CASE protocol = "count" /\ mc[k].count + 1 < RLLimit
          <5>1. admitted' = [admitted EXCEPT ![Cur] = @ + 1]
            BY <1>0, <3>3, <3>5, <4>9 DEF Admit
          <5>2. /\ admitted[Cur] \in Nat /\ admitted'[Cur] = admitted[Cur] + 1
                /\ \A s \in Slices : s # Cur => admitted'[s] = admitted[s]
            BY <5>1, CountFacts
          <5>3. NoneAhead'
            BY <1>0, <2>4, <5>2 DEF LimitInv, NoneAhead
          <5>4. ASSUME Holding
                PROVE  AdmittedCounted'
            <6>1. admitted[Cur] <= Counted
              BY <4>9, <5>4 DEF LimitInv, AdmittedCounted
            <6>2. admitted'[Cur] <= Counted' /\ admitted'[Cur] < RLLimit + Slack
              <7>1. Counted + 1 < RLLimit /\ Counted \in Nat /\ Slack \in Nat /\ RLLimit \in Nat
                BY <3>5, <4>3, <4>9, CountFacts
              <7>2. QED
                BY <4>3, <5>2, <6>1, <7>1
            <6>3. \A s \in Slices : admitted'[s] < RLLimit + Slack
              BY <5>2, <5>4, <6>2 DEF LimitInv, AdmittedCounted
            <6>4. Slack' = Slack
              BY <2>1 DEF Slack
            <6>5. QED
              BY <2>1, <2>4, <4>9, <6>2, <6>3, <6>4 DEF AdmittedCounted
          <5>5. QED
            BY <2>1, <2>3, <4>6, <5>3, <5>4 DEF LimitInv
        <4>10. QED
          BY <4>8, <4>9
      <3>6. QED
        BY <3>4, <3>5
    <2>7. QED
      BY <2>5, <2>6
  <1>8. ASSUME NEW p \in Requests, Readd(p)
        PROVE  LimitInv'
    <2>1. /\ UNCHANGED <<protocol, now, evicts, slice>> /\ rlAt[p] = "readd" /\ Recorded(p, 1)
          /\ \E at \in {"recheck", "idle"} :
                /\ rlAt' = [rlAt EXCEPT ![p] = at]
                /\ at = "recheck" => protocol = "record_and_check"
      BY <1>8 DEF Readd, Recorded, Goto
    <2>2. /\ \A q \in Requests : q # p => rlAt'[q] = rlAt[q] /\ local'[q] = local[q]
          /\ rlAt'[p] \in {"recheck", "idle"}
          /\ rlAt'[p] = "recheck" => protocol = "record_and_check"
      BY <1>8, <2>1 DEF Readd, RLTyped, RateLimitTypeOK, LocalAdd
    <2>3. ChecksAfresh'
      BY <2>1, <2>2 DEF LimitInv, ChecksAfresh
    <2>4. Cur' = Cur /\ rlAt[p] \in Recording
      BY <2>1 DEF Cur, Recording
    <2>5. CASE slice[p] = Cur
      <3>1. ~Holding
        BY <2>1, <2>5 DEF LimitInv, EntryStays
      <3>2. NoneAhead'
        BY <1>0, <2>1, <2>4, <2>5, CountFacts DEF LimitInv, NoneAhead, Recorded, Admit
      <3>3. QED
        BY <2>1, <2>3, <3>1, <3>2 DEF LimitInv
    <2>6. CASE slice[p] # Cur
      <3>1. ~(now < SliceEnd(slice[p]))
        BY <1>0, <1>a, <2>6
      <3>2. mc' = mc /\ admitted' = admitted
        BY <1>8, <2>1, <3>1 DEF Readd, Recorded, Admit
      <3>3. Stored(KeyOf(Cur))' = Stored(KeyOf(Cur))
        BY <2>1, <2>4, <3>2 DEF Stored
      <3>4. Holding => EntryStays'
        BY <2>1, <2>2, <2>4, <3>3 DEF LimitInv, EntryStays
      <3>5. ToRecord' = ToRecord
        <4>1. \A q \in Requests : q \in ToRecord' <=> q \in ToRecord
          BY <2>1, <2>2, <2>4, <2>6 DEF ToRecord, Recording
        <4>2. QED
          BY <4>1 DEF ToRecord
      <3>6. QED
        BY <1>2, <2>1, <2>3, <3>2, <3>4, <3>5
    <2>7. QED
      BY <2>5, <2>6
  <1>9. CASE Tick
    <2>1. /\ now' = now + 1
          /\ UNCHANGED <<protocol, local, slice, rlAt, admitted, evicts>>
          /\ \A k \in TimesOfDay : mc'[k] = IF mc[k].expires > now' THEN mc[k] ELSE Nothing
      BY <1>9 DEF Tick
    <2>2. Cur' \in Nat /\ now' \in Nat /\ now' < SliceEnd(Cur') /\ SliceEnd(Cur') \in Nat
          /\ Cur' \in Slices /\ KeyOf(Cur') \in TimesOfDay
      <3>1. now' \in Nat /\ now' \in 0..MaxTime
        BY <1>0, <2>1 DEF RLTyped, RateLimitTypeOK
      <3>2. QED
        BY <3>1, SliceBounds, EndIsNat, SliceIsKnown, KeyIsTime DEF Cur
    <2>3. Cur <= Cur'
      <3>1. CASE Cur' < Cur
        <4>1. SliceEnd(Cur') <= now
          BY <1>0, <2>2, <3>1, SliceOver DEF Cur
        <4>2. QED
          BY <1>0, <2>1, <2>2, <4>1
      <3>2. QED
        BY <1>0, <2>2, <3>1
    <2>4. ChecksAfresh'
      BY <2>1 DEF LimitInv, ChecksAfresh
    <2>5. NoneAhead'
      BY <1>0, <2>1, <2>2, <2>3 DEF LimitInv, NoneAhead
    <2>6. CASE Cur' = Cur
      <3>1. Stored(KeyOf(Cur)) => mc[KeyOf(Cur)].expires > now'
        <4>1. SUFFICES ASSUME Stored(KeyOf(Cur)) PROVE mc[KeyOf(Cur)].expires > now'
          OBVIOUS
        <4>2. Cur < Cur + RLDay /\ Cur <= Cur
          BY <1>0
        <4>3. mc[KeyOf(Cur)].expires = Forever \/ EntryOf(KeyOf(Cur), Cur)
          BY <1>0, <4>1, <4>2, OwnEntry DEF UsageInv
        <4>4. CASE mc[KeyOf(Cur)].expires = Forever
          BY <2>1, <4>4, RLTypeFacts
        <4>5. CASE EntryOf(KeyOf(Cur), Cur)
          BY <1>0, <2>2, <2>6, <4>5 DEF EntryOf
        <4>6. QED
          BY <4>3, <4>4, <4>5
      <3>2. \/ mc'[KeyOf(Cur)] = mc[KeyOf(Cur)] /\ Stored(KeyOf(Cur)) /\ Stored(KeyOf(Cur))'
            \/ ~Stored(KeyOf(Cur)) /\ ~Stored(KeyOf(Cur))'
        <4>1. CASE Stored(KeyOf(Cur))
          <5>1. mc[KeyOf(Cur)].expires > now'
            BY <3>1, <4>1
          <5>2. mc'[KeyOf(Cur)] = mc[KeyOf(Cur)]
            BY <1>0, <2>1, <5>1
          <5>3. Stored(KeyOf(Cur))'
            BY <2>6, <5>1, <5>2 DEF Stored
          <5>4. QED
            BY <4>1, <5>2, <5>3
        <4>2. CASE ~Stored(KeyOf(Cur))
          <5>1. ~(mc[KeyOf(Cur)].expires > now') /\ mc[KeyOf(Cur)].expires \in Nat
            BY <1>0, <2>1, <2>2, <4>2, RLTypeFacts DEF Stored
          <5>2. mc'[KeyOf(Cur)] = Nothing
            BY <1>0, <2>1, <5>1
          <5>3. ~Stored(KeyOf(Cur))'
            BY <2>2, <2>6, <5>2 DEF Stored, Nothing
          <5>4. QED
            BY <4>2, <5>3
        <4>3. QED
          BY <4>1, <4>2
      <3>3. Counted' = Counted
        BY <2>6, <3>2 DEF Counted
      <3>4. ToRecord' = ToRecord
        BY <2>1, <2>6 DEF ToRecord
      <3>5. Slack' = Slack
        BY <2>1 DEF Slack
      <3>6. Holding => AdmittedCounted'
        BY <2>1, <2>6, <3>3, <3>4, <3>5 DEF LimitInv, AdmittedCounted
      <3>7. Holding => EntryStays'
        BY <2>1, <2>6, <3>2 DEF LimitInv, EntryStays
      <3>8. QED
        BY <2>1, <2>4, <2>5, <3>6, <3>7 DEF LimitInv
    <2>7. CASE Cur < Cur'
      <3>1. EntryStays'
        <4>1. \A p \in Requests : slice'[p] # Cur'
          BY <1>0, <1>a, <2>1, <2>2, <2>7
        <4>2. QED
          BY <4>1 DEF EntryStays
      <3>2. Counted' \in Nat /\ Cardinality(ToRecord)' \in Nat
        <4>1. ToRecord' \in SUBSET Requests
          BY DEF ToRecord
        <4>2. IsFiniteSet(ToRecord')
          BY <4>1, RateLimitAssumption, FS_Subset
        <4>3. \A k \in TimesOfDay : mc'[k].count \in Nat
          BY DEF RLTyped, RateLimitTypeOK
        <4>4. Counted' \in Nat
          BY <2>2, <4>3 DEF Counted
        <4>5. QED
          BY <4>2, <4>4, FS_CardinalityType
      <3>3. admitted'[Cur'] = 0
        BY <1>0, <2>1, <2>2, <2>7 DEF LimitInv, NoneAhead
      <3>4. admitted'[Cur'] <= Counted' /\ admitted'[Cur'] <= Counted' + Cardinality(ToRecord)'
        BY <3>2, <3>3
      <3>5. Slack' = Slack
        BY <2>1 DEF Slack
      <3>6. Holding => AdmittedCounted'
        BY <2>1, <3>4, <3>5 DEF LimitInv, AdmittedCounted
      <3>7. QED
        BY <2>1, <2>4, <2>5, <3>1, <3>6 DEF LimitInv
    <2>8. QED
      BY <1>0, <2>2, <2>3, <2>6, <2>7
  <1>10. ASSUME NEW k \in TimesOfDay, Evict(k)
         PROVE  LimitInv'
    <2>1. evicts' = evicts + 1 /\ evicts \in Nat
          /\ UNCHANGED <<protocol, now, local, rlAt, admitted>>
      BY <1>10 DEF Evict, RLTyped, RateLimitTypeOK
    <2>2. evicts' # 0
      BY <2>1
    <2>3. NoneAhead' /\ ChecksAfresh'
      BY <2>1 DEF LimitInv, NoneAhead, ChecksAfresh, Cur
    <2>4. QED
      BY <2>2, <2>3 DEF LimitInv
  <1>11. CASE UNCHANGED rlVars
    BY <1>11
    DEF rlVars, LimitInv, NoneAhead, ChecksAfresh, EntryStays, AdmittedCounted, Counted, ToRecord,
        Slack, Cur, Stored
  <1>12. QED
    BY <1>3, <1>4, <1>5, <1>6, <1>7, <1>8, <1>9, <1>10, <1>11 DEF RateLimitNext

-----------------------------------------------------------------------------
\* The inductive invariant of a rate limit.
LEMMA RateLimitInvariant == RateLimitSpec => [](RLTyped /\ UsageInv /\ LimitInv)
  <1>1. RateLimitInit => RLTyped /\ UsageInv /\ LimitInv
    <2> SUFFICES ASSUME RateLimitInit PROVE RLTyped /\ UsageInv /\ LimitInv
      OBVIOUS
    <2>0. 0 \in 0..MaxTime /\ Slices \subseteq Nat /\ TimesOfDay \subseteq Nat
      BY RateLimitAssumption DEF Slices, TimesOfDay
    <2>1. Cur = 0 /\ 0 \in Slices
      <3>1. Cur \in Nat /\ Cur * RLSeconds <= 0 /\ Cur \in Slices
        BY <2>0, SliceBounds, SliceIsKnown DEF RateLimitInit, Cur
      <3>2. CASE Cur >= 1
        <4>1. 1 * RLSeconds <= Cur * RLSeconds
          BY <3>1, <3>2, TimesMonotone, RateLimitAssumption
        <4>2. QED
          BY <3>1, <4>1, RateLimitAssumption
      <3>3. QED
        BY <3>1, <3>2
    <2>2. Nothing \in [count : Nat, expires : 0..Forever]
      BY RateLimitAssumption DEF Nothing, Forever
    <2>3. RLTyped
      <3>1. mc \in [TimesOfDay -> [count : Nat, expires : 0..Forever]]
        BY <2>2 DEF RateLimitInit
      <3>2. local \in [Requests -> [TimesOfDay -> Nat \cup {Absent}]]
        BY DEF RateLimitInit
      <3>3. /\ slice \in [Requests -> Slices]
            /\ rlAt \in [Requests -> {"idle", "check", "slice", "add", "incr", "readd", "recheck"}]
            /\ reported \in [Requests -> Nat]
        BY <2>1 DEF RateLimitInit
      <3>4. used \in [Slices -> Nat] /\ admitted \in [Slices -> Nat]
        BY DEF RateLimitInit
      <3>5. now \in 0..MaxTime /\ uses \in 0..MaxUses /\ evicts \in 0..MaxEvicts
        BY RateLimitAssumption DEF RateLimitInit
      <3>9. protocol \in Protocols /\ immortal \in BOOLEAN
        BY DEF RateLimitInit
      <3>6. RateLimitTypeOK
        BY <3>1, <3>2, <3>3, <3>4, <3>5, <3>9 DEF RateLimitTypeOK
      <3>7. SlicesPast
        BY <2>1 DEF RateLimitInit, SlicesPast
      <3>8. QED
        BY <3>6, <3>7 DEF RLTyped
    <2>4. \A k \in TimesOfDay : ~Stored(k)
      BY DEF RateLimitInit, Stored, Nothing
    <2>5. UsageInv
      BY <2>1, <2>4
      DEF RateLimitInit, UsageInv, EntriesOfSlices, SlicesRecent, ReportedLater, UsageIsOfSlice,
          Recording
    <2>6. NoneAhead /\ ChecksAfresh /\ EntryStays
      BY <2>1 DEF RateLimitInit, NoneAhead, ChecksAfresh, EntryStays
    <2>7. AdmittedCounted
      <3>1. \A s \in Slices : admitted[s] = 0
        BY DEF RateLimitInit
      <3>2. QED
        BY <2>1, <2>3, <3>1, CountFacts DEF AdmittedCounted
    <2>8. QED
      BY <2>3, <2>5, <2>6, <2>7 DEF LimitInv
  <1>2. RLTyped /\ UsageInv /\ LimitInv /\ [RateLimitNext]_rlVars
          => (RLTyped /\ UsageInv /\ LimitInv)'
    BY RLTypedStep, UsageStep, LimitStep
  <1>3. QED
    BY <1>1, <1>2, PTL DEF RateLimitSpec

(***************************************************************************)
(* For any limit, length of a slice and number of requests: while nothing  *)
(* is evicted, no slice of time admits more requests than the limit and    *)
(* those that run at the same time, and record_usage returns no more than  *)
(* what was used in the slice.  The protocol of SimpleRateLimit, which     *)
(* checks after it has recorded, is left out: it reads its own usage in    *)
(* the local cache, and the limit does not hold (run ratelimit_recorded).  *)
(***************************************************************************)
THEOREM LimitsAreExact ==
  RateLimitSpec => [](protocol # "record_and_check" => RateLimitExact)
  <1>1. RLTyped /\ UsageInv /\ LimitInv => (protocol # "record_and_check" => RateLimitExact)
    BY DEF UsageInv, LimitInv, AdmittedCounted, RateLimitExact, LimitHolds
  <1>2. QED
    BY <1>1, RateLimitInvariant, PTL

(***************************************************************************)
(* Under all three protocols the state stays within its type, and what     *)
(* record_usage returns is a count of the slice it was called for, even    *)
(* with evictions, unless an entry was added with a TTL of zero.           *)
(***************************************************************************)
THEOREM RateLimitTypeCorrect == RateLimitSpec => [](RateLimitTypeOK /\ UsageIsOfSlice)
  <1>1. RLTyped /\ UsageInv /\ LimitInv => RateLimitTypeOK /\ UsageIsOfSlice
    BY DEF RLTyped, UsageInv
  <1>2. QED
    BY <1>1, RateLimitInvariant, PTL

-----------------------------------------------------------------------------
(* The stores side by side                                                 *)

(***************************************************************************)
(* What the run stores explores of each store is what the store's own      *)
(* specification allows: they share no state, so the theorems about each   *)
(* of them, here and in ListingProofs and PromoteProofs, hold of the six   *)
(* together.                                                               *)
(***************************************************************************)
THEOREM StoresApart ==
  StoresSpec => /\ QueryCacheSpec /\ RateLimitSpec /\ CRSpec
                /\ MemoizeSpec /\ WikiSpec /\ PromoteSpec
  <1> DEFINE v == <<store, qcVars, rlVars, crVars, memoVars, wikiVars, promoVars>>
  <1>1. StoresInit => /\ QueryCacheInit /\ RateLimitInit /\ CRInit
                      /\ MemoizeInit /\ WikiInit /\ PromoteInit
    BY DEF StoresInit
  <1>2. [StoresNext]_v => [QueryCacheNext]_qcVars
    BY DEF StoresNext, QueryStep
  <1>3. [StoresNext]_v => [RateLimitNext]_rlVars
    BY DEF StoresNext
  <1>4. [StoresNext]_v => [CRNext]_crVars
    BY DEF StoresNext, ListingStep
  <1>5. [StoresNext]_v => [MemoizeNext]_memoVars
    BY DEF StoresNext
  <1>6. [StoresNext]_v => [WikiNext]_wikiVars
    BY DEF StoresNext, WikiStep
  <1>7. [StoresNext]_v => [PromoteNext]_promoVars
    BY DEF StoresNext, PromoteStep
  <1>8. QED
    BY <1>1, <1>2, <1>3, <1>4, <1>5, <1>6, <1>7, PTL
       DEF StoresSpec, QueryCacheSpec, RateLimitSpec, CRSpec, MemoizeSpec, WikiSpec, PromoteSpec

(***************************************************************************)
(* StoresTypeOK (run stores), for any things, requests, limits and bounds: *)
(* the state of each store stays within its type, and a process that has   *)
(* returned remembers nothing of its call.                                 *)
(***************************************************************************)
THEOREM StoresTypeCorrect == StoresSpec => []StoresTypeOK
  <1>1. (/\ QueryCacheTypeOK /\ RateLimitTypeOK /\ CRTypeOK
         /\ MemoizeTypeOK /\ WikiTypeOK /\ PromoteTypeOK) => StoresTypeOK
    BY DEF StoresTypeOK
  <1>2. QED
    BY <1>1, StoresApart, QueryCacheTypeCorrect, RateLimitTypeCorrect, ListingTypeCorrect,
       MemoizeTypeCorrect, WikiTypeCorrect, PromoteTypeCorrect, PTL

=============================================================================
