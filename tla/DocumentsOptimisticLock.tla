---------------------- MODULE DocumentsOptimisticLock ----------------------
(***************************************************************************)
(* Clients of the document routes.  A client loads a version together with *)
(* its ETag (the last event id), works on it, and sends the ETag back as   *)
(* If-Match; the service compares it with the stored row under its lock.   *)
(* All other clients are one environment that may perform any mutation at  *)
(* any time: whatever a stale client does successfully is such a mutation. *)
(*                                                                         *)
(* One route is not a compare-and-set: a template upload for a version     *)
(* that did not exist when the request arrived.  It runs in three steps,   *)
(* outside the mutation lock.                                              *)
(***************************************************************************)
EXTENDS DocumentsWorkflow

CONSTANT Clients     \* clients whose loaded state is tracked

VARIABLES
    clients,   \* client -> what it loaded, and (history) whether that is still so
    upload,    \* the template upload in progress
    lost       \* history: a write with If-Match replaced an update its author had not seen

lockVars == <<versions, clients, upload, lost>>

NoClient == [user |-> None, version |-> 0, etag |-> None, current |-> FALSE]

NoUpload == [phase |-> "idle", user |-> None, version |-> 0, row |-> Absent]

\* The converted source PDF is not part of what a client decides on.
View(s) == [s EXCEPT !.sourcePdf = None]

\* Files live in a table of their own: a row write does not touch them.
Row(s) == [s EXCEPT !.sourceDocx = None, !.sourcePdf = None, !.signedPdf = None,
                    !.releasedPdf = None]

(* Rows, client copies and the upload in progress hold only values of their   *)
(* kinds.                                                                     *)
LockTypeOK ==
    /\ TypeOK
    /\ clients \in [Clients -> [user : Users \cup {None}, version : VersionNumbers \cup {0},
                                etag : EventIds \cup {None}, current : BOOLEAN]]
    /\ upload \in [phase : {"idle", "uploading", "ensured"}, user : Users \cup {None},
                   version : VersionNumbers \cup {0}, row : DocumentVersionState]
    /\ lost \in BOOLEAN

HeldEvents ==
    {versions[v].lastEvent : v \in VersionNumbers} \cup {clients[c].etag : c \in Clients}
        \cup {upload.row.lastEvent}

\* UUIDs do not run out: whatever ids are stored, loaded and kept by the upload,
\* there is another one.
ASSUME EventAssumption ==
    \A stored \in [VersionNumbers -> EventIds \cup {None}],
       loaded \in [Clients -> EventIds \cup {None}], kept \in EventIds \cup {None} :
          \E e \in EventIds : e \notin {stored[v] : v \in VersionNumbers}
                                     \cup {loaded[c] : c \in Clients} \cup {kept}

\* Event ids are UUIDs: a new one equals none that is still held anywhere, and
\* since ids are only compared, it does not matter which one it is.
NewEvent == CHOOSE e \in EventIds : e \notin HeldEvents

\* What the clients know after a step that changed the stored rows.
Noticed ==
    [c \in Clients |->
        IF clients[c].version = 0 THEN clients[c]
        ELSE [clients[c] EXCEPT !.current =
                 @ /\ LET v == clients[c].version IN View(versions'[v]) = View(versions[v])]]

-----------------------------------------------------------------------------
GetVersion(c, u, v) ==
    /\ Exists(v)
    /\ HasReadAccess(u, versions[v])
    /\ clients' = [clients EXCEPT ![c] = [user |-> u, version |-> v, current |-> TRUE,
                                          etag |-> versions[v].lastEvent]]
    /\ UNCHANGED <<versions, upload, lost>>

\* Everything a route does to an existing version.
Mutation(u, v, e) ==
    \/ VersionMutation(u, v, e)
    \/ Exists(v) /\ \E x \in Contents : CreateFromTemplate(u, v, x, e)
    \/ EnsureSourcePdf(u, v)

EtagMatches(c) == clients[c].etag = versions[clients[c].version].lastEvent

\* A superseded version was archived without an event, so its ETag stayed.
Superseded(s) == s.status = "ARCHIVED" /\ s.supersededBy # 0

\* The mutation is applied and the client continues with the returned ETag.
Submit(c, e) ==
    LET u == clients[c].user
        v == clients[c].version
    IN  /\ v # 0
        /\ EtagMatches(c)
        /\ Mutation(u, v, e)
        /\ clients' = [Noticed EXCEPT ![c] = [user |-> u, version |-> v, current |-> TRUE,
                                              etag |-> versions'[v].lastEvent]]
        /\ lost' = (lost \/ ~ (clients[c].current \/ Superseded(versions[v])))
        /\ UNCHANGED upload

OtherClient(u, v, e) ==
    /\ \/ Mutation(u, v, e)
       \/ \E owner \in Users : CreateDocumentVersion(u, v, owner)
    /\ clients' = Noticed
    /\ UNCHANGED <<upload, lost>>

-----------------------------------------------------------------------------
\* The route finds no version, so it asks for no If-Match, and awaits the body.
TemplateUpload(u, v) ==
    /\ upload.phase = "idle"
    /\ ~Exists(v)
    /\ upload' = [phase |-> "uploading", user |-> u, version |-> v, row |-> Absent]
    /\ UNCHANGED <<versions, clients, lost>>

\* The version is created, or the one created meanwhile is taken as it is.
TemplateEnsureVersion ==
    LET u == upload.user
        v == upload.version
    IN  /\ upload.phase = "uploading"
        /\ \/ /\ Exists(v)
              /\ OwnerOrPrivileged(u, versions[v])
              /\ upload' = [upload EXCEPT !.phase = "ensured", !.row = Row(versions[v])]
              /\ UNCHANGED versions
           \/ /\ ~Exists(v)
              /\ ControlClass = "CONTROLLED"
              /\ CreateDocumentVersion(u, v, u)
              /\ upload' = [upload EXCEPT !.phase = "ensured", !.row = NewVersion(u)]
        /\ clients' = Noticed
        /\ UNCHANGED lost

\* The row read before is written back, stamped; the template becomes the DOCX.
TemplateStore(x, e) ==
    LET v   == upload.version
        now == versions[v]
    IN  /\ upload.phase = "ensured"
        /\ StoreVersion(v, Stamp([upload.row EXCEPT !.sourceDocx = x,
                                                    !.sourcePdf = now.sourcePdf,
                                                    !.signedPdf = now.signedPdf,
                                                    !.releasedPdf = now.releasedPdf], e))
        /\ upload' = NoUpload
        /\ clients' = Noticed
        /\ UNCHANGED lost

\* No permission, not the owner, or the write is refused.
TemplateFails ==
    /\ upload.phase # "idle"
    /\ upload' = NoUpload
    /\ UNCHANGED <<versions, clients, lost>>

-----------------------------------------------------------------------------
LockInit ==
    /\ Init
    /\ clients = [c \in Clients |-> NoClient]
    /\ upload = NoUpload
    /\ lost = FALSE

LockNext ==
    \/ \E c \in Clients, u \in Users, v \in VersionNumbers : GetVersion(c, u, v)
    \/ \E u \in Users, v \in VersionNumbers : TemplateUpload(u, v)
    \/ TemplateEnsureVersion
    \/ TemplateFails
    \/ \E c \in Clients : Submit(c, NewEvent)
    \/ \E u \in Users, v \in VersionNumbers : OtherClient(u, v, NewEvent)
    \/ \E x \in Contents : TemplateStore(x, NewEvent)

LockSpec == LockInit /\ [][LockNext]_lockVars

-----------------------------------------------------------------------------
(* A mutation that carries a matching If-Match is applied to the very version *)
(* its client loaded: no update in between is overwritten.  The exception is  *)
(* a version that was superseded meanwhile, whose ETag does not change.       *)
NoLostUpdate == ~ lost

=============================================================================
