---------------------------- MODULE PdfReading ----------------------------
(***************************************************************************)
(* Read confirmation of released documents (modules/documents/service.py   *)
(* and pdf_read_tracking_service.py).  A user either confirms a released   *)
(* version in one call, or reads it page by page in a tracked session that *)
(* is finalized when the viewer closes.  Both leave a read receipt, one    *)
(* per user and version; only the first publishes the event that other     *)
(* modules subscribe to (see Training).                                    *)
(*                                                                         *)
(* One document is modelled; approved is its released version, 0 for none. *)
(* Seconds on a page count up to the threshold, beyond which they make no  *)
(* difference.  Each repository call is a transaction of its own, so a     *)
(* crash or a failing second call leaves what was written before it.       *)
(***************************************************************************)
EXTENDS Naturals, Sequences, FiniteSets

CONSTANTS Users,        \* user ids
          MaxVersion,   \* number of versions of the document
          Pages,        \* the page numbers of its PDF
          Threshold,    \* seconds after which a page counts as read
          Dwells,       \* the dwell times a viewer reports
          MaxReads      \* bound on tracked sessions

ASSUME ReadingConstants ==
    /\ MaxVersion \in Nat \ {0}
    /\ Pages # {}
    /\ Threshold \in Nat \ {0}
    /\ Dwells \subseteq Nat
    /\ MaxReads \in Nat

VARIABLES approved,      \* the released version, 0 for none
          released,      \* the versions released so far
          readSessions,  \* document_pdf_read_sessions with their pages
          receipts       \* document_read_receipts: <<user, version>>

releases == <<approved, released>>
readVars == <<releases, readSessions, receipts>>

Versions == 1 .. MaxVersion

TrackedPdfReadSession ==
    [user : Users, version : Versions, seconds : [Pages -> 0 .. Threshold],
     result : {"OPEN", "INCOMPLETE", "COMPLETE"}]

ReadingTypeOK ==
    /\ approved \in 0 .. MaxVersion
    /\ released \subseteq Versions
    /\ readSessions \in Seq(TrackedPdfReadSession)
    /\ receipts \subseteq Users \X Versions

ReadingInit ==
    /\ approved = 0
    /\ released = {}
    /\ readSessions = <<>>
    /\ receipts = {}

(***************************************************************************)
(* A version is released and supersedes whichever is released now, a newer *)
(* one as well as an older one; an archived version is never released      *)
(* again (the workflow itself is DocumentsWorkflow).                       *)
(***************************************************************************)
ReleaseVersion ==
    /\ \E v \in Versions \ released : approved' = v /\ released' = released \cup {v}
    /\ UNCHANGED <<readSessions, receipts>>

\* archive_approved: the document has no released version any more.
ArchiveApproved ==
    /\ approved # 0
    /\ approved' = 0
    /\ UNCHANGED <<released, readSessions, receipts>>

CreateReadReceipt(u, v) == receipts' = receipts \cup {<<u, v>>}

(***************************************************************************)
(* confirm_released_document_read up to the publication of the event:      *)
(* refused unless the version is approved.                                 *)
(***************************************************************************)
ConfirmReleasedDocumentRead(u, v) ==
    /\ approved = v
    /\ CreateReadReceipt(u, v)
    /\ UNCHANGED <<releases, readSessions>>

(***************************************************************************)
(* start: a session for any version; nothing asks whether it is released.  *)
(***************************************************************************)
StartTrackedPdfRead(u, v) ==
    /\ Len(readSessions) < MaxReads
    /\ readSessions' = Append(readSessions,
           [user |-> u, version |-> v, seconds |-> [p \in Pages |-> 0],
            result |-> "OPEN"])
    /\ UNCHANGED <<releases, receipts>>

(***************************************************************************)
(* record_page_dwell: adds to the page, also after finalize.               *)
(***************************************************************************)
RecordPageDwell(s, p, dwell) ==
    LET updated == readSessions[s].seconds[p] + dwell
    IN  /\ readSessions' = [readSessions EXCEPT ![s].seconds[p] =
               IF updated >= Threshold THEN Threshold ELSE updated]
        /\ UNCHANGED <<releases, receipts>>

\* get_pdf_read_progress: is_complete when no page is missing.
IsComplete(s) == \A p \in Pages : readSessions[s].seconds[p] >= Threshold

(***************************************************************************)
(* finalize: the session is closed first and the receipt written next; an  *)
(* incomplete one gets no receipt, nor does one whose call is cut short.   *)
(* It may be called again later.                                           *)
(***************************************************************************)
Finalize(s, crash) ==
    /\ readSessions' = [readSessions EXCEPT ![s].result =
           IF IsComplete(s) THEN "COMPLETE" ELSE "INCOMPLETE"]
    /\ IF IsComplete(s) /\ ~crash
          THEN CreateReadReceipt(readSessions[s].user, readSessions[s].version)
          ELSE UNCHANGED receipts
    /\ UNCHANGED releases
=============================================================================
