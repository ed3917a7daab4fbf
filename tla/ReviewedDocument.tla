-------------------------- MODULE ReviewedDocument --------------------------
(***************************************************************************)
(* A document that is uploaded and reviewed at the same time: DocumentReview *)
(* and Knowledge share the rows of document_chunks, which the activity       *)
(* summarize_document (activities.py) reads.  Starting a review does not     *)
(* look at the document's status.                                           *)
(***************************************************************************)
EXTENDS DocumentReview, Knowledge

CONSTANTS
  Unread,    \* an attempt of the activity that has read nothing yet
  MaxRead    \* the LIMIT of its query

ASSUME ReviewedAssumption == MaxRead \in Nat

VARIABLE read   \* the chunks each attempt of summarize_document has read

reviewedVars == <<vars, knowledgeVars, read>>

ReviewedInit == Init /\ KnowledgeInit /\ read = [n \in Tries |-> Unread]

Summarizing(n) == Is("summarize", n, "running")

(* ORDER BY chunk_index LIMIT 20, in one statement. *)
ReadChunks(n) ==
  /\ Summarizing(n)
  /\ read[n] = Unread
  /\ read' = [read EXCEPT ![n] = {k \in chunks : k <= MaxRead}]
  /\ UNCHANGED <<vars, knowledgeVars>>

(* A step of the review: it starts once the document's id is known, an attempt
   reports a summary of what it has read, and what it read is gone with it. *)
ReviewStep ==
  /\ Next
  /\ starter' # starter => doc # "none"
  /\ wf'.pc = "set_status" /\ wf.pc = "summarize" => read[wf.try] # Unread
  /\ read' = [n \in Tries |-> IF Summarizing(n)' THEN read[n] ELSE Unread]
  /\ UNCHANGED knowledgeVars

UploadStep == KnowledgeStep /\ UNCHANGED <<vars, read>>

ReviewedNext == ReviewStep \/ UploadStep \/ \E n \in Tries : ReadChunks(n)

(* As in DocumentReview; a live attempt reads, too.  Nothing is assumed of the
   upload. *)
ReviewedSpec ==
  /\ ReviewedInit /\ [][ReviewedNext]_reviewedVars
  /\ Fairness
  /\ WF_reviewedVars(\E n \in Tries : Current("summarize", n) /\ ReadChunks(n))

(* A summary is never made of a half-stored document: however the attempts fall
   between the inserts, an attempt has read nothing, or the first chunks of all
   that the upload ever stores, up to the LIMIT of its query.  (A longer document,
   or one with fewer vectors than chunks, is summarised from that part of it.) *)
SummaryNotTorn ==
  \A n \in Tries : read[n] \in {Unread, {}, {k \in Embedded : k <= MaxRead}}
=============================================================================
