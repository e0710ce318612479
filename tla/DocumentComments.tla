-------------------------- MODULE DocumentComments --------------------------
(***************************************************************************)
(* Comments on a document version during its preparation, composed with    *)
(* the workflow that decides when and by whom they may be made.  Comments  *)
(* of the Word file are taken over by a synchronisation that may be run    *)
(* again after every new upload; comments on the PDF are made in the       *)
(* application.  Each operation runs under the mutation lock of the        *)
(* service and in one transaction.                                         *)
(*                                                                         *)
(* updated_at is the number of the writing operation: two operations never *)
(* share an instant.  It is also the token a status change must present.   *)
(***************************************************************************)
EXTENDS DocumentsWorkflow, Sequences, SequencesExt

CONSTANTS
    DocxComments,  \* content of a DOCX -> its comments [word, text], in file order
    MaxComments,   \* bound: comment rows
    MaxWrites      \* bound: writing operations

FileComments == UNION {ToSet(DocxComments[c]) : c \in Contents}

\* The reader skips comments without an id; within one file ids are unique.
ASSUME CommentAssumption ==
    /\ DOMAIN DocxComments = Contents
    /\ \A c \in Contents :
          /\ DocxComments[c] \in Seq(FileComments)
          /\ \A j, k \in DOMAIN DocxComments[c] :
                DocxComments[c][j].word = DocxComments[c][k].word => j = k
    /\ \A f \in FileComments : f = [word |-> f.word, text |-> f.text] /\ f.word # None
    /\ MaxComments \in Nat
    /\ MaxWrites \in Nat

VARIABLES
    comments,  \* rows of document_workflow_comments, in the order of insertion
    writes,    \* writing operations so far
    view       \* the row a client has read last, with its position; None before

commentVars == <<comments, writes, view>>

Contexts == {"DOCX_EDIT", "PDF_REVIEW", "PDF_APPROVAL"}

CommentStatus == {"ACTIVE", "RESOLVED", "INACTIVE"}

WorkflowCommentRecord ==
    [version   : VersionNumbers,
     context   : Contexts,
     word      : {f.word : f \in FileComments} \cup {None},  \* id in the Word file
     ref       : 1..MaxComments,                             \* number in ref_no
     text      : {f.text : f \in FileComments} \cup {None},
     status    : CommentStatus,
     updatedAt : 1..MaxWrites]

CommentsTypeOK ==
    /\ comments \in Seq(WorkflowCommentRecord)
    /\ writes \in 0..MaxWrites
    /\ view = None \/ view \in [at : DOMAIN comments, row : WorkflowCommentRecord]

-----------------------------------------------------------------------------
(* Who may comment *)

\* The policy's action "comments".
CommentsOpen(s) == s.status \in {"PLANNED", "IN_PROGRESS", "IN_REVIEW", "IN_APPROVAL"}

Readers(s, context) ==
    CASE context = "DOCX_EDIT"    -> s.assignments.editors \cup {s.owner}
      [] context = "PDF_REVIEW"   -> s.assignments.reviewers
      [] context = "PDF_APPROVAL" -> s.assignments.approvers

CommentReadAccess(u, s, context) == IsQMB(u) \/ u \in Readers(s, context)

\* Writing also asks for the phase, but not of a QMB.
CommentAccess(u, s, context) ==
    \/ IsQMB(u)
    \/ /\ u \in Readers(s, context)
       /\ context = "PDF_REVIEW"   => s.status = "IN_REVIEW"
       /\ context = "PDF_APPROVAL" => s.status = "IN_APPROVAL"

-----------------------------------------------------------------------------
Rows(v, context) ==
    {i \in DOMAIN comments : comments[i].version = v /\ comments[i].context = context}

NewComment(v, context, word, ref, text) ==
    [version |-> v, context |-> context, word |-> word, ref |-> ref, text |-> text,
     status |-> "ACTIVE", updatedAt |-> writes + 1]

\* One writing operation of u on version v, allowed by the policy.
WriteComments(u, v) ==
    /\ HasReadAccess(u, versions[v])
    /\ CommentsOpen(versions[v])
    /\ writes < MaxWrites
    /\ writes' = writes + 1
    /\ UNCHANGED <<versions, view>>

\* Mutant: only the active comments are counted.
NextRefOfActive(v, context) ==
    Cardinality({i \in Rows(v, context) : comments[i].status = "ACTIVE"}) + 1

\* The number of a comment made in the application: one more than there are.
NextRef(v, context) == Cardinality(Rows(v, context)) + 1

CreatePdfComment(u, v, context) ==
    /\ WriteComments(u, v)
    /\ CommentAccess(u, versions[v], context)
    /\ Len(comments) < MaxComments
    /\ comments' = Append(comments, NewComment(v, context, None, NextRef(v, context), None))

-----------------------------------------------------------------------------
(* Synchronisation with the Word file *)

\* The highest number given to a comment of the Word file.
HighestDocxRef(v) ==
    LET refs == {comments[i].ref : i \in {j \in Rows(v, "DOCX_EDIT") : comments[j].word # None}}
    IN  IF refs = {} THEN 0 ELSE CHOOSE n \in refs : \A k \in refs : k <= n

\* The row of the comment f of the file, found by its Word id.
MatchExisting(v, f) == {i \in Rows(v, "DOCX_EDIT") : comments[i].word = f.word}

\* Mutant: a comment that is still in the file is taken as new.
ReopenedRow(row, f) ==
    [row EXCEPT !.text = f.text, !.status = "ACTIVE", !.updatedAt = writes + 1]

\* Mutant: the row counts as unchanged.
QuietlySyncedRow(row, f) == [row EXCEPT !.text = f.text]

\* What becomes of a row whose comment is in the file: number and status stay.
SyncedRow(row, f) == [row EXCEPT !.text = f.text, !.updatedAt = writes + 1]

\* The places of the file's comments that have no row yet ...
NewPlaces(v, file) == {k \in DOMAIN file : MatchExisting(v, file[k]) = {}}

\* ... and the k-th place in a set of places.
Nth(places, k) == CHOOSE p \in places : Cardinality({j \in places : j <= p}) = k

\* Rows whose comment has gone from the file are left alone.
SyncDocxComments(u, v) ==
    LET file == DocxComments[versions[v].sourceDocx]
        new  == NewPlaces(v, file)
        Fresh(k) == file[Nth(new, k)]
        From(i) == {f \in ToSet(file) : i \in MatchExisting(v, f)}
    IN  /\ WriteComments(u, v)
        /\ CommentReadAccess(u, versions[v], "DOCX_EDIT")
        /\ versions[v].sourceDocx # None
        /\ Len(comments) + Cardinality(new) <= MaxComments
        /\ comments' =
              [i \in DOMAIN comments |->
                  IF From(i) = {} THEN comments[i]
                  ELSE SyncedRow(comments[i], CHOOSE f \in From(i) : TRUE)]
              \o [k \in 1..Cardinality(new) |->
                     NewComment(v, "DOCX_EDIT", Fresh(k).word, HighestDocxRef(v) + k,
                                Fresh(k).text)]

-----------------------------------------------------------------------------
(* Dealing with a comment *)

\* A client reads a row; its updated_at is the token of a later status change.
ReadComment(u, i) ==
    /\ CommentReadAccess(u, versions[comments[i].version], comments[i].context)
    /\ view' = [at |-> i, row |-> comments[i]]
    /\ UNCHANGED <<versions, comments, writes>>

SetWorkflowCommentStatus(u, i, status, expected) ==
    LET s == versions[comments[i].version]
    IN  /\ comments[i].updatedAt = expected
        /\ CommentsOpen(s)
        /\ CommentReadAccess(u, s, comments[i].context)
        /\ writes < MaxWrites
        /\ writes' = writes + 1
        /\ comments' = [comments EXCEPT ![i].status = status, ![i].updatedAt = writes + 1]
        /\ UNCHANGED <<versions, view>>

-----------------------------------------------------------------------------
CommentsInit ==
    /\ Init
    /\ comments = <<>>
    /\ writes = 0
    /\ view = None

CommentsNext ==
    \/ Next /\ UNCHANGED commentVars
    \/ \E u \in Users, v \in VersionNumbers :
          \/ \E context \in Contexts : CreatePdfComment(u, v, context)
          \/ SyncDocxComments(u, v)
    \/ \E u \in Users, i \in DOMAIN comments :
          \/ ReadComment(u, i)
          \/ \E status \in CommentStatus, expected \in 1..MaxWrites :
                SetWorkflowCommentStatus(u, i, status, expected)

CommentsSpec == CommentsInit /\ [][CommentsNext]_<<versions, commentVars>>

-----------------------------------------------------------------------------
(* Properties *)

\* The number a comment is quoted by names one comment, however comments made
\* in the application, synchronisations of changed files and status changes
\* follow each other.  (create_pdf_comment, _next_docx_ref_index)
RefNosUnique ==
    \A i, j \in DOMAIN comments :
        (/\ comments[i].version = comments[j].version
         /\ comments[i].context = comments[j].context
         /\ (comments[i].word = None) = (comments[j].word = None)
         /\ comments[i].ref = comments[j].ref) => i = j

\* A token that still fits means that the client has seen the row as it is: its
\* decision is about the text that is there now, also after a synchronisation
\* that put another text into the row.  (set_workflow_comment_status_if_current)
TokenMeansSeen ==
    view # None =>
        (comments[view.at].updatedAt = view.row.updatedAt => comments[view.at] = view.row)

\* What was decided about a comment is undone by nobody but a user who decides
\* anew about that one comment, with a token that fits it: a status changes in
\* no other step, and in no synchronisation of the file, whether it finds the
\* text changed or unchanged; and no step renumbers a row, gives it another Word
\* id or drops it.  (sync_docx_comments, set_workflow_comment_status_if_current)
DecisionsSurviveSync ==
    [][/\ \A i \in DOMAIN comments :
             /\ i \in DOMAIN comments'
             /\ comments'[i].ref = comments[i].ref
             /\ comments'[i].word = comments[i].word
             /\ comments'[i].status # comments[i].status =>
                   \E u \in Users : SetWorkflowCommentStatus(u, i, comments'[i].status,
                                                           comments[i].updatedAt)
       /\ \A u \in Users, v \in VersionNumbers :
             SyncDocxComments(u, v) =>
                \A i \in DOMAIN comments : comments'[i].status = comments[i].status
      ]_comments

=============================================================================
