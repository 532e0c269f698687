-------------------------------- MODULE Wiki --------------------------------
(***************************************************************************)
(* One wiki page (r2/models/wiki.py) and the requests that edit it         *)
(* (r2/controllers/wiki.py, and the subreddit settings form of             *)
(* r2/controllers/api.py): editors start from a revision, and what others  *)
(* have saved meanwhile is merged in.  The page is one of the special ones *)
(* whose text the subreddit keeps in an attribute of its own.              *)
(*                                                                         *)
(* A text is a function from paragraphs to their wording.  Paragraphs are  *)
(* far enough apart for diff3 to tell changes to two of them apart.        *)
(***************************************************************************)
EXTENDS Integers, Sequences

CONSTANTS
    Paragraphs,     \* places of the text that change independently
    WikiRequests,   \* request handlers
    MaxRevisions,   \* bound: revisions of the page
    MaxDeletions,   \* bound: revisions deleted or restored by admins
    MaxWikiCrashes  \* bound: requests cut off

ASSUME WikiAssumption ==
    /\ Paragraphs # {} /\ MaxRevisions \in Nat /\ MaxDeletions \in Nat
    /\ MaxWikiCrashes \in Nat

\* The wording revision n gave a paragraph; 0 is the empty text.
Wordings == 0..(MaxRevisions + 1)
Texts == [Paragraphs -> Wordings]
Blank == [l \in Paragraphs |-> 0]

Revisions == 0..MaxRevisions

VARIABLES
    page,       \* the stored page: does it exist, its revision and its text
    revisions,  \* the revisions stored: text and admin_deleted
    shown,      \* revisions the page has had, from which editors start
    attribute,  \* the copy of the text in the subreddit
    wreq,       \* wreq[r]: the request r handles
    wanted,     \* the text all accepted edits together ask for
    merged,     \* some edit was merged with a newer revision
    disturbed,  \* two requests overlapped, or one was cut off
    deletions, wikiCrashes  \* against the bounds

wikiBounds == <<deletions, wikiCrashes>>
wikiVars == <<page, revisions, shown, attribute, wreq, wanted, merged, disturbed, wikiBounds>>

Pages == [exists : BOOLEAN, revision : Revisions, content : Texts]
NoRequest == [at |-> "idle", copy |-> [exists |-> FALSE, revision |-> 0, content |-> Blank],
              base |-> Blank, content |-> Blank, force |-> FALSE]

WikiTypeOK ==
    /\ page \in Pages
    /\ revisions \in Seq([content : Texts, deleted : BOOLEAN])
    /\ Len(revisions) <= MaxRevisions
    /\ shown \subseteq Revisions
    /\ attribute \in Texts
    /\ wreq \in [WikiRequests -> [at : {"idle", "create", "revise", "page", "attribute"},
                                  copy : Pages, base : Texts, content : Texts,
                                  force : BOOLEAN]]
    /\ wanted \in Texts
    /\ merged \in BOOLEAN /\ disturbed \in BOOLEAN
    /\ deletions \in 0..MaxDeletions /\ wikiCrashes \in 0..MaxWikiCrashes

WikiInit ==
    /\ page = NoRequest.copy
    /\ revisions = <<>>
    /\ shown = {0}
    /\ attribute = Blank
    /\ wreq = [r \in WikiRequests |-> NoRequest]
    /\ wanted = Blank
    /\ merged = FALSE /\ disturbed = FALSE
    /\ deletions = 0 /\ wikiCrashes = 0

TextOf(n) == IF n = 0 THEN Blank ELSE revisions[n].content
Fresh == Len(revisions) + 1

\* What an editor who started from text makes of it.
Edited(text) == {text} \cup {[text EXCEPT ![l] = Fresh] : l \in Paragraphs}

-----------------------------------------------------------------------------
(* The beginning of a request                                              *)

BeginRequest(r, place, base, content, force) ==
    /\ wreq[r].at = "idle"
    /\ wreq' = [wreq EXCEPT ![r] = [at |-> place, copy |-> page, base |-> base,
                                    content |-> content, force |-> force]]

\* validversion: a revision an admin has deleted is not found.
Usable(n) == IF n = 0 THEN TRUE ELSE ~revisions[n].deleted

\* The validator loads the page; the form names the revision it started from.
WikiEdit(r, n) ==
    /\ page.exists
    /\ n \in shown /\ Usable(n)
    /\ \E content \in Edited(TextOf(n)) : BeginRequest(r, "revise", TextOf(n), content, FALSE)
    /\ UNCHANGED <<page, revisions, shown, attribute, wanted, merged, disturbed, wikiBounds>>

\* No page yet, no previous revision, the settings form, or a revert.
Overwrite(r, n) ==
    /\ Usable(n)
    /\ \E content \in Edited(TextOf(n)) :
          BeginRequest(r, IF page.exists THEN "revise" ELSE "create", TextOf(n), content, TRUE)
    /\ UNCHANGED <<page, revisions, shown, attribute, wanted, merged, disturbed, wikiBounds>>

\* WikiPage.create, under its lock; 400 to whoever comes second.
CreatePage(r) ==
    /\ wreq[r].at = "create"
    /\ IF page.exists
       THEN /\ wreq' = [wreq EXCEPT ![r] = NoRequest]
            /\ UNCHANGED page
       ELSE /\ page' = [page EXCEPT !.exists = TRUE]
            /\ wreq' = [wreq EXCEPT ![r].at = "revise", ![r].copy = page']
    /\ UNCHANGED <<revisions, shown, attribute, wanted, merged, disturbed, wikiBounds>>

-----------------------------------------------------------------------------
(* WikiPage.revise                                                         *)

\* diff3 --merge: what both sides have changed is a conflict, even if they
\* agree about it.
Conflict(original, a, b) ==
    \E l \in Paragraphs : a[l] # original[l] /\ b[l] # original[l]

ThreeWayMerge(original, a, b) ==
    [l \in Paragraphs |-> IF a[l] # original[l] THEN a[l] ELSE b[l]]

\* Mutant of Merges: an edit of the empty page is not merged.
MergesSome(q) == ~q.force /\ q.copy.revision # 0 /\ q.base # Blank

\* The text is compared and merged with the copy the request has loaded.
Merges(q) == ~q.force /\ q.copy.revision # 0

NewContent(q) ==
    IF Merges(q) THEN ThreeWayMerge(q.base, q.content, q.copy.content) ELSE q.content

Unchanged(r) ==
    /\ wreq[r].at = "revise"
    /\ wreq[r].copy.content = wreq[r].content
    /\ wreq' = [wreq EXCEPT ![r].at = "attribute"]
    /\ disturbed' = (disturbed \/ page # wreq[r].copy)
    /\ UNCHANGED <<page, revisions, shown, attribute, wanted, merged, wikiBounds>>

EditConflict(r) ==
    LET q == wreq[r]
    IN  /\ q.at = "revise"
        /\ q.copy.content # q.content
        /\ Merges(q)
        /\ Conflict(q.base, q.content, q.copy.content)
        /\ wreq' = [wreq EXCEPT ![r] = NoRequest]
        /\ UNCHANGED <<page, revisions, shown, attribute, wanted, merged, disturbed, wikiBounds>>

\* WikiRevision.create, before the page itself is saved.
CreateRevision(r) ==
    LET q == wreq[r]
    IN  /\ q.at = "revise"
        /\ q.copy.content # q.content
        /\ ~(Merges(q) /\ Conflict(q.base, q.content, q.copy.content))
        /\ Len(revisions) < MaxRevisions
        /\ revisions' = Append(revisions, [content |-> NewContent(q), deleted |-> FALSE])
        /\ wreq' = [wreq EXCEPT ![r].at = "page",
                                ![r].copy = [q.copy EXCEPT !.content = NewContent(q),
                                                           !.revision = Fresh]]
        /\ merged' = (merged \/ NewContent(q) # q.content)
        /\ disturbed' = (disturbed \/ page # q.copy)
        /\ UNCHANGED <<page, shown, attribute, wanted, wikiBounds>>

CommitPage(r) ==
    LET q == wreq[r]
    IN  /\ q.at = "page"
        /\ page' = q.copy
        /\ shown' = shown \cup {q.copy.revision}
        /\ wreq' = [wreq EXCEPT ![r].at = "attribute"]
        /\ wanted' = IF q.force THEN q.content
                     ELSE [l \in Paragraphs |->
                             IF q.content[l] # q.base[l] THEN q.content[l] ELSE wanted[l]]
        /\ disturbed' = (disturbed \/ \E s \in WikiRequests \ {r} :
                                         wreq[s].at \in {"page", "attribute"})
        /\ UNCHANGED <<revisions, attribute, merged, wikiBounds>>

\* Mutant of StoreAttribute: a revert leaves the attribute alone.
StoreEdited(r) ==
    /\ wreq[r].at = "attribute"
    /\ attribute' = IF wreq[r].force THEN attribute ELSE wreq[r].content
    /\ wreq' = [wreq EXCEPT ![r] = NoRequest]
    /\ UNCHANGED <<page, revisions, shown, wanted, merged, disturbed, wikiBounds>>

\* The controller, after revise: content is still what the request brought.
StoreAttribute(r) ==
    /\ wreq[r].at = "attribute"
    /\ attribute' = wreq[r].content
    /\ wreq' = [wreq EXCEPT ![r] = NoRequest]
    /\ UNCHANGED <<page, revisions, shown, wanted, merged, disturbed, wikiBounds>>

-----------------------------------------------------------------------------

RevisionDelete(n, flag) ==
    /\ deletions < MaxDeletions
    /\ ~(flag /\ page.revision = n)
    /\ deletions' = deletions + 1
    /\ revisions[n].deleted # flag
    /\ revisions' = [revisions EXCEPT ![n].deleted = flag]
    /\ UNCHANGED <<page, shown, attribute, wreq, wanted, merged, disturbed, wikiCrashes>>

RequestDies(r) ==
    /\ wreq[r].at # "idle"
    /\ wikiCrashes < MaxWikiCrashes
    /\ wikiCrashes' = wikiCrashes + 1
    /\ wreq' = [wreq EXCEPT ![r] = NoRequest]
    /\ disturbed' = (disturbed \/ wreq[r].at = "attribute")
    /\ UNCHANGED <<page, revisions, shown, attribute, wanted, merged, deletions>>

WikiNext ==
    \/ \E r \in WikiRequests :
          \/ \E n \in 0..Len(revisions) : WikiEdit(r, n) \/ Overwrite(r, n)
          \/ CreatePage(r) \/ Unchanged(r) \/ EditConflict(r) \/ CreateRevision(r)
          \/ CommitPage(r) \/ StoreAttribute(r) \/ RequestDies(r)
    \/ \E n \in 1..Len(revisions), flag \in BOOLEAN : RevisionDelete(n, flag)

WikiSpec == WikiInit /\ [][WikiNext]_wikiVars

-----------------------------------------------------------------------------
(* Properties                                                              *)

(***************************************************************************)
(* No edit that was accepted is lost: while requests do not overlap, the   *)
(* page reads as all the accepted edits ask for, whichever revisions they  *)
(* started from, whatever was deleted or reverted between, and though a    *)
(* request may die after storing its revision and before saving the page.  *)
(***************************************************************************)
EditsSurvive == ~disturbed => page.content = wanted

(***************************************************************************)
(* controllers/wiki.py:455 "continue storing the special pages as data     *)
(* attributes on the subreddit object": when no request is in progress the *)
(* attribute reads as the page does, after edits, reverts and edits that   *)
(* change nothing.  Not after a merge: the attribute is then given what    *)
(* the request brought, without what it was merged with.                   *)
(***************************************************************************)
AttributeFollows ==
    (~disturbed /\ ~merged /\ \A r \in WikiRequests : wreq[r].at = "idle")
        => attribute = page.content

(***************************************************************************)
(* What was edited is what is read, from the page and from the subreddit's *)
(* attribute that the controller keeps.                                    *)
(***************************************************************************)
EditsKept == EditsSurvive /\ AttributeFollows

=============================================================================
