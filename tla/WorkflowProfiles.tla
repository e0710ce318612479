-------------------------- MODULE WorkflowProfiles --------------------------
(***************************************************************************)
(* Workflow profiles of the documents module.  A profile is kept as rows   *)
(* "from_status -> to_status" that form one chain from editing (DRAFT in   *)
(* the store, IN_PROGRESS at run time) to APPROVED.  The chain is the      *)
(* function `next' below, so the following phase is an application.        *)
(***************************************************************************)
EXTENDS FiniteSets

\* The phases in which somebody has to act, and the states around them.
WorkPhases == {"IN_PROGRESS", "IN_REVIEW", "IN_APPROVAL"}

DocumentStatus == WorkPhases \cup {"PLANNED", "APPROVED", "ARCHIVED"}

ControlClasses == {"CONTROLLED", "CONTROLLED_SHORT", "EXTERNAL", "RECORD"}

\* The three keys the engine asks for when it decides whether a transition
\* needs a signature; the first one is asked for whatever phase follows editing.
SignatureTransitions ==
    {"IN_PROGRESS->IN_REVIEW", "IN_REVIEW->IN_APPROVAL", "IN_APPROVAL->APPROVED"}

\* What a chain of enabled transitions may look like: every phase but the last
\* is left exactly once, the first one is editing, and the chain ends in APPROVED.
\* The store also accepts rows behind an earlier APPROVED; they are never reached.
IsChain(next) ==
    /\ DOMAIN next \subseteq WorkPhases
    /\ "IN_PROGRESS" \in DOMAIN next
    /\ \A s \in DOMAIN next : next[s] \in (DOMAIN next \ {"IN_PROGRESS", s}) \cup {"APPROVED"}
    /\ \A s, t \in DOMAIN next : next[s] = next[t] => s = t
    /\ next["IN_PROGRESS"] = "APPROVED" => DOMAIN next = {"IN_PROGRESS"}

WorkflowProfile ==
    [next : UNION {[D -> WorkPhases \cup {"APPROVED"}] : D \in SUBSET WorkPhases},
     controlClass      : ControlClasses,
     fourEyes          : BOOLEAN,
     signatureRequired : SUBSET SignatureTransitions,
     requiresEditors   : BOOLEAN,
     requiresReviewers : BOOLEAN,
     requiresApprovers : BOOLEAN]

\* The definitions the profile store accepts.
ValidDefinition(p) == p \in WorkflowProfile /\ IsChain(p.next)

Requires(editors, reviewers, approvers, p) ==
    [p EXCEPT !.requiresEditors = editors, !.requiresReviewers = reviewers,
              !.requiresApprovers = approvers]

Profile(next, class, fourEyes, signatures) ==
    [next |-> next, controlClass |-> class, fourEyes |-> fourEyes,
     signatureRequired |-> signatures, requiresEditors |-> FALSE,
     requiresReviewers |-> FALSE, requiresApprovers |-> FALSE]

FullChain ==
    [s \in WorkPhases |-> CASE s = "IN_PROGRESS" -> "IN_REVIEW"
                            [] s = "IN_REVIEW"   -> "IN_APPROVAL"
                            [] s = "IN_APPROVAL" -> "APPROVED"]

ShortChain ==
    [s \in {"IN_PROGRESS", "IN_APPROVAL"} |->
        IF s = "IN_PROGRESS" THEN "IN_APPROVAL" ELSE "APPROVED"]

DirectChain == [s \in {"IN_PROGRESS"} |-> "APPROVED"]

\* The bundled profiles.
LongRelease ==
    Requires(TRUE, TRUE, TRUE, Profile(FullChain, "CONTROLLED", TRUE, SignatureTransitions))

FastPath ==
    Requires(TRUE, FALSE, TRUE,
             Profile(ShortChain, "CONTROLLED_SHORT", FALSE, {"IN_APPROVAL->APPROVED"}))

ExternalControl == Profile(DirectChain, "EXTERNAL", FALSE, {})

RecordLight ==
    Requires(TRUE, FALSE, FALSE, Profile(DirectChain, "RECORD", FALSE, {}))

ShortNoSig ==
    Requires(TRUE, TRUE, TRUE, Profile(FullChain, "CONTROLLED_SHORT", TRUE, {}))

=============================================================================
