----------------------------- MODULE Knowledge -----------------------------
(***************************************************************************)
(* The upload of one document to services/knowledge (main.py): the row, the *)
(* chunks with their embeddings, written in one transaction, the status and  *)
(* the audit event.  Storage, parsing and the embedding model are calls that *)
(* succeed or fail; the handler may die at any point.                       *)
(*                                                                         *)
(* Names are chosen so that the module can be extended together with the    *)
(* one of a reader.  Operators named after a definition with a fault         *)
(* appended are faulty variants that the properties must notice.            *)
(***************************************************************************)
EXTENDS Naturals, FiniteSets

CONSTANT Sizes   \* how many chunks a document may be parsed into

ASSUME KnowledgeAssumption == Sizes \subseteq Nat

VARIABLES
  doc,      \* the documents row: its status, "none" before it is inserted
  chunks,   \* the committed rows of document_chunks
  upload,   \* the handler: where it is, how many chunks and vectors it has, what
            \* it has inserted
  told      \* the audit event of the upload

knowledgeVars == <<doc, chunks, upload, told>>

NoEvent == [status |-> "none", chunks |-> 0]
(* The chunks that got a vector: zip stops at the shorter list. *)
Embedded == 1 .. upload.vectors

KnowledgeInit ==
  /\ doc = "none"
  /\ chunks = {}
  /\ upload = [pc |-> "idle", size |-> 0, vectors |-> 0, staged |-> {},
               status |-> "none", stored |-> 0]
  /\ told = NoEvent

At(pc)  == upload.pc = pc
On(u)   == upload' = u
Over    == On([upload EXCEPT !.pc = "ended", !.staged = {}, !.status = "none", !.stored = 0])

(* put_object, then the row; parsing and chunking follow, touching nothing that
   is shared.  A document without text has no chunks. *)
InsertDocument ==
  /\ At("idle")
  /\ doc' = "processing"
  /\ \E n \in Sizes :
       On([upload EXCEPT !.pc = IF n = 0 THEN "status" ELSE "embed", !.size = n,
                         !.status = "processed"])
  /\ UNCHANGED <<chunks, told>>

UnembeddedAsProcessed == On([upload EXCEPT !.pc = "status", !.staged = {}])
(* The except clause around embedding and storing: what was staged is rolled back,
   and the vectors are gone. *)
Unembedded ==
  On([upload EXCEPT !.pc = "status", !.staged = {}, !.vectors = 0,
                    !.status = "stored_without_embeddings"])

(* The model answers with as many vectors as it likes; nobody counts them. *)
Embed ==
  /\ At("embed")
  /\ \/ \E v \in 0 .. upload.size : On([upload EXCEPT !.pc = "insert", !.vectors = v])
     \/ Unembedded
  /\ UNCHANGED <<doc, chunks, told>>

InsertChunkCommitted ==
  /\ At("insert")
  /\ Cardinality(upload.staged) < upload.vectors
  /\ LET next == Cardinality(upload.staged) + 1 IN
       /\ On([upload EXCEPT !.staged = @ \cup {next}])
       /\ chunks' = chunks \cup {next}
  /\ UNCHANGED <<doc, told>>

(* One INSERT per pair of chunk and vector, in order, all in one transaction. *)
InsertChunk ==
  /\ At("insert")
  /\ Cardinality(upload.staged) < upload.vectors
  /\ On([upload EXCEPT !.staged = @ \cup {Cardinality(@) + 1}]) \/ Unembedded
  /\ UNCHANGED <<doc, chunks, told>>

(* The commit may take effect and still raise, which is taken for a failure.
   Whatever was inserted, `stored` is the number of chunks. *)
CommitChunks ==
  /\ At("insert")
  /\ upload.staged = Embedded
  /\ \/ /\ chunks' = upload.staged
        /\ \/ On([upload EXCEPT !.pc = "status", !.staged = {}, !.stored = upload.size])
           \/ On([upload EXCEPT !.pc = "status", !.staged = {},
                                !.status = "stored_without_embeddings"])
     \/ Unembedded /\ UNCHANGED chunks
  /\ UNCHANGED <<doc, told>>

UpdateStatus ==
  /\ At("status")
  /\ doc' = upload.status
  /\ On([upload EXCEPT !.pc = "emit"])
  /\ UNCHANGED <<chunks, told>>

(* emit fails silently. *)
EmitUpload ==
  /\ At("emit")
  /\ told' \in {told, [status |-> upload.status, chunks |-> upload.stored]}
  /\ Over
  /\ UNCHANGED <<doc, chunks>>

(* An exception that is not caught, or the process dies: nobody takes the
   document up again. *)
BreakUpload ==
  /\ upload.pc \notin {"idle", "ended"}
  /\ Over
  /\ UNCHANGED <<doc, chunks, told>>

KnowledgeStep ==
  \/ InsertDocument \/ Embed \/ InsertChunk \/ CommitChunks
  \/ UpdateStatus \/ EmitUpload \/ BreakUpload

-----------------------------------------------------------------------------
(* What the platform says of a document is so, also after a commit whose answer
   was lost or a handler that died: the chunks are those that got a vector, or
   none; a processed document has them; and an audit event that counts chunks
   counts those the document was parsed into, of one that has its vectors. *)
StatusIsTrue ==
  /\ chunks \in {{}, Embedded}
  /\ doc = "processed" => chunks = Embedded
  /\ told # NoEvent =>
       /\ told.status = doc
       /\ told.chunks > 0 => chunks = Embedded /\ told.chunks = upload.size
=============================================================================
