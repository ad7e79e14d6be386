-------------------------- MODULE KnowledgeIngestion --------------------------
(***************************************************************************)
(* The company's knowledge: documents that are uploaded, cut into chunks   *)
(* and indexed, replaced by a newer version, retried after a failure,      *)
(* deleted, and searched (rag/ingestion.py, repository.py, retrieval.py).  *)
(*                                                                         *)
(* A call of the API owns one database session.  It commits several times  *)
(* and speaks to the index between the commits, so every commit, every     *)
(* locked section and every index operation is a step of its own.  The     *)
(* session keeps the row it has read (mem) and writes back only the        *)
(* columns it changes.  The index is external: an operation on it succeeds *)
(* or fails after its retries, and a failed one may have taken effect in   *)
(* part.                                                                   *)
(***************************************************************************)
EXTENDS Integers, FiniteSets

CONSTANTS MaxDocuments,  \* rows that may be created
          Files,         \* the files that are uploaded, told apart by checksum
          Chunks,        \* Chunks[f]: the records a file is cut into
          BatchSize,     \* UPSERT_BATCH_SIZE
          Calls,         \* API calls that run at once
          MaxCalls,      \* bound on the calls that are made
          MaxRestarts    \* bound on the restarts of the server

ASSUME KnowledgeAssumption ==
    /\ MaxDocuments \in Nat /\ MaxCalls \in Nat /\ MaxRestarts \in Nat /\ BatchSize \in Nat \ {0}
    /\ Chunks \in [Files -> Nat \ {0}]
    /\ IsFiniteSet(Calls)

VARIABLES documents,  \* id -> row of knowledge_documents
          index,      \* records in the company's namespace: <<document, chunk>>
          calls,      \* call -> what it is doing
          uploads,    \* calls whose temporary file is on disk
          retried,    \* history: documents whose ingestion was retried
          left,       \* history: documents whose removal failed or was cut off
          leaked,     \* history: a temporary file outlived its call
          made,       \* calls made so far
          restarts

vars == <<documents, index, calls, uploads, retried, left, leaked, made, restarts>>

Ids == 1..MaxDocuments
Rows == DOMAIN documents
NoDocument == 0

KnowledgeDocumentStatus == {"draft", "active", "inactive", "superseded", "deleted"}
KnowledgeIngestionStatus == {"pending", "processing", "completed", "failed"}

Row == [file : Files, version : Nat \ {0}, supersedes : Ids \cup {NoDocument},
        status : KnowledgeDocumentStatus, is_active : BOOLEAN,
        ingestion : KnowledgeIngestionStatus, chunks : Nat]

Records(d, n) == {d} \X (1..n)

\* The stages of a call, and what the call has read or was given.
Idle == [at |-> "idle"]
Creating == [at : {"insert"}, file : Files, previous : {NoDocument}, version : Nat \ {0}]
Locking == [at : {"lock"}, file : Files, previous : Ids, version : Nat \ {0}]
Replacing == [at : {"insert"}, file : Files, previous : Ids, version : Nat \ {0}, old : Row]
Ingesting == [at : {"begin", "upsert", "verify", "complete", "cleanup", "compensate", "fail"},
              doc : Ids, mem : Row, previous : Ids \cup {NoDocument}, old : Row, sent : Nat]
Retrying == [at : {"retry_lock"}, doc : Ids]
Removing == [at : {"retry_delete", "retry_again", "remove", "mark"}, doc : Ids, chunks : Nat]
Searching == [at : {"filter"}, hits : SUBSET Ids]

Call == {Idle} \cup Creating \cup Locking \cup Replacing \cup Ingesting
               \cup Retrying \cup Removing \cup Searching

Busy(c) == calls[c].at # "idle"

-------------------------------------------------------------------------------
(* Rows: what the repository reads and writes.                             *)

\* find_active_duplicate
Duplicate(f) == \E d \in Rows : /\ documents[d].file = f /\ documents[d].is_active
                                /\ documents[d].ingestion = "completed"

\* active_by_ids
Active(d) == /\ d \in Rows /\ documents[d].is_active
             /\ documents[d].status = "active" /\ documents[d].ingestion = "completed"

Pending(f, version, previous) ==
    [file |-> f, version |-> version, supersedes |-> previous, status |-> "draft",
     is_active |-> FALSE, ingestion |-> "pending", chunks |-> 0]

Processing(mem) == [mem EXCEPT !.ingestion = "processing"]

\* Mutant of Failed: the status is not reset.
Bug_KeepsProcessing(mem) == [mem EXCEPT !.status = "draft", !.is_active = FALSE]

Completed(mem, n) == [mem EXCEPT !.status = "active", !.is_active = TRUE,
                                 !.ingestion = "completed", !.chunks = n]
Failed(mem) == [mem EXCEPT !.status = "draft", !.is_active = FALSE, !.ingestion = "failed"]
Superseded(mem) == [mem EXCEPT !.status = "superseded", !.is_active = FALSE]
Deleted(mem) == [mem EXCEPT !.status = "deleted", !.is_active = FALSE]

\* A flush writes the columns that differ from the ones the session has read.
Written(row, mem, new) ==
    [col \in DOMAIN row |-> IF new[col] = mem[col] THEN row[col] ELSE new[col]]

\* A row is locked for longer than one step only by a replacement of it.
Locked(d) == \E c \in Calls : calls[c].at = "insert" /\ calls[c].previous = d

-------------------------------------------------------------------------------
(* Steps of a call: from one stage to the next, or to its end.             *)

Goes(c, call) == calls' = [calls EXCEPT ![c] = call]
At(c, stage) == Goes(c, [calls[c] EXCEPT !.at = stage])

\* The call is over and has unlinked its file.
Ends(c) == /\ Goes(c, Idle)
           /\ uploads' = uploads \ {c}
           /\ UNCHANGED leaked

\* The call is over and its file stays where it is.
Leaves(c) == /\ Goes(c, Idle)
             /\ uploads' = uploads \ {c}
             /\ leaked' = (leaked \/ c \in uploads)

Keeps == UNCHANGED <<uploads, leaked>>
Quiet == UNCHANGED <<made, restarts>>

Starts(c) == ~Busy(c) /\ made < MaxCalls /\ made' = made + 1 /\ UNCHANGED restarts

\* A call that ingests document d, which replaces previous (read as old).
Ingests(stage, d, mem, previous, old) ==
    [at |-> stage, doc |-> d, mem |-> mem, previous |-> previous, old |-> old, sent |-> 0]

\* A new call with a saved upload.
Uploads(c, call) == /\ Goes(c, call)
                    /\ uploads' = uploads \cup {c}
                    /\ UNCHANGED leaked

-------------------------------------------------------------------------------
(* create and replace                                                      *)

\* Bound: every insertion under way has a row left for it.
Room == Cardinality(Rows) + Cardinality({c \in Calls : calls[c].at \in {"lock", "insert"}})
        < MaxDocuments

\* A document that is active already is refused before anything is written.
Create(c, f) ==
    /\ Starts(c) /\ Room
    /\ ~Duplicate(f)
    /\ Uploads(c, [at |-> "insert", file |-> f, previous |-> NoDocument, version |-> 1])
    /\ UNCHANGED <<documents, index, retried, left>>

Replace(c, d, f) ==
    /\ Starts(c) /\ Room
    /\ d \in Rows /\ documents[d].status # "deleted"
    /\ Uploads(c, [at |-> "lock", file |-> f, previous |-> d,
                   version |-> documents[d].version])
    /\ UNCHANGED <<documents, index, retried, left>>

\* The row is read again FOR UPDATE and stays locked until the insertion.
ReplaceLock(c) ==
    LET d == calls[c].previous
        changed == \/ documents[d].status # "active"
                   \/ documents[d].version # calls[c].version
    IN /\ calls[c].at = "lock"
       /\ ~Locked(d)
       /\ \/ /\ changed \/ Duplicate(calls[c].file)
             /\ Ends(c)
          \/ /\ ~changed /\ ~Duplicate(calls[c].file)
             /\ Goes(c, [at |-> "insert", file |-> calls[c].file, previous |-> d,
                         version |-> calls[c].version + 1, old |-> documents[d]])
             /\ Keeps
       /\ Quiet /\ UNCHANGED <<documents, index, retried, left>>

\* create_pending and its commit; a document is replaced at most once (unique).
Insert(c) ==
    LET previous == calls[c].previous
        row == Pending(calls[c].file, calls[c].version, previous)
        id == Cardinality(Rows) + 1
    IN /\ calls[c].at = "insert"
       /\ \/ /\ previous # NoDocument
             /\ \E d \in Rows : documents[d].supersedes = previous
             /\ Ends(c)
             /\ UNCHANGED documents
          \/ /\ previous = NoDocument \/ \A d \in Rows : documents[d].supersedes # previous
             /\ documents' = [d \in Rows \cup {id} |-> IF d = id THEN row ELSE documents[d]]
             /\ Goes(c, Ingests("begin", id, row, previous,
                                IF previous = NoDocument THEN row ELSE calls[c].old))
             /\ Keeps
       /\ Quiet /\ UNCHANGED <<index, retried, left>>

-------------------------------------------------------------------------------
(* _ingest_saved                                                           *)

Size(c) == Chunks[calls[c].mem.file]
Own(c) == Records(calls[c].doc, Size(c))

\* mark_processing and its commit; then the text is extracted and cut.
Begin(c) ==
    LET d == calls[c].doc
        new == Processing(calls[c].mem)
    IN /\ calls[c].at = "begin"
       /\ ~Locked(d)
       /\ documents' = [documents EXCEPT ![d] = Written(@, calls[c].mem, new)]
       /\ \E stage \in {"upsert", "fail"} : Goes(c, [calls[c] EXCEPT !.at = stage, !.mem = new])
       /\ Keeps /\ Quiet /\ UNCHANGED <<index, retried, left>>

\* The records of the next batch.
Batch(c) == {r \in Own(c) : calls[c].sent < r[2] /\ r[2] <= calls[c].sent + BatchSize}

Upsert(c) ==
    LET sent == calls[c].sent + Cardinality(Batch(c))
    IN /\ calls[c].at = "upsert"
       /\ \/ /\ index' = index \cup Batch(c)
             /\ Goes(c, IF sent = Size(c) THEN [calls[c] EXCEPT !.at = "verify", !.sent = 0]
                                          ELSE [calls[c] EXCEPT !.sent = sent])
          \/ /\ index' \in {index, index \cup Batch(c)}
             /\ Goes(c, [calls[c] EXCEPT !.at = "compensate", !.sent = 0])
       /\ Keeps /\ Quiet /\ UNCHANGED <<documents, retried, left>>

\* Every record must be found in the index before the document is activated.
Confirmed(c) == Own(c) \subseteq index

Verify(c) ==
    /\ calls[c].at = "verify"
    /\ \/ Confirmed(c) /\ At(c, "complete")
       \/ At(c, "compensate")
    /\ Keeps /\ Quiet /\ UNCHANGED <<documents, index, retried, left>>

\* Mutant of Activated: the replaced document is not retired.
Bug_ActivateOnly(c) ==
    [documents EXCEPT ![calls[c].doc] =
        Written(@, calls[c].mem, Completed(calls[c].mem, Size(c)))]

\* One commit activates the document and retires the one it replaces.
Activated(c) ==
    LET d == calls[c].doc
        p == calls[c].previous
    IN [x \in Rows |->
          IF x = d THEN Written(documents[d], calls[c].mem, Completed(calls[c].mem, Size(c)))
          ELSE IF x = p THEN Written(documents[p], calls[c].old, Superseded(calls[c].old))
          ELSE documents[x]]

Complete(c) ==
    /\ calls[c].at = "complete"
    /\ ~Locked(calls[c].doc) /\ ~(calls[c].previous # NoDocument /\ Locked(calls[c].previous))
    /\ documents' = Activated(c)
    /\ IF calls[c].previous = NoDocument
       THEN Ends(c)
       ELSE At(c, "cleanup") /\ Keeps
    /\ Quiet /\ UNCHANGED <<index, retried, left>>

\* A removal from the index: all of it, or a failure after a part of it.
Removes(d, records, failed) ==
    IF failed THEN /\ \E part \in SUBSET records : index' = index \ part
                   /\ left' = left \cup {d}
              ELSE /\ index' = index \ records
                   /\ UNCHANGED left

\* The records of the replaced document; a failure is only logged.
Cleanup(c) ==
    LET p == calls[c].previous
    IN /\ calls[c].at = "cleanup"
       /\ \E failed \in BOOLEAN : Removes(p, Records(p, calls[c].old.chunks), failed)
       /\ Ends(c)
       /\ Quiet /\ UNCHANGED <<documents, retried>>

\* Mutant of Compensate: nothing is taken back.
Bug_NoCompensation(c) ==
    /\ calls[c].at = "compensate"
    /\ At(c, "fail")
    /\ Keeps /\ Quiet /\ UNCHANGED <<documents, retried, index, left>>

\* The call's own records are taken back; a failure is only logged.
Compensate(c) ==
    /\ calls[c].at = "compensate"
    /\ \E failed \in BOOLEAN : Removes(calls[c].doc, Own(c), failed)
    /\ At(c, "fail")
    /\ Keeps /\ Quiet /\ UNCHANGED <<documents, retried>>

\* mark_failed and its commit
Fail(c) ==
    LET d == calls[c].doc
    IN /\ calls[c].at = "fail"
       /\ ~Locked(d)
       /\ documents' = [documents EXCEPT ![d] = Written(@, calls[c].mem, Failed(calls[c].mem))]
       /\ Ends(c)
       /\ Quiet /\ UNCHANGED <<index, retried, left>>

-------------------------------------------------------------------------------
(* retry                                                                   *)

\* Only a failed ingestion, and only with the file it failed on.
Retry(c, d) ==
    /\ Starts(c)
    /\ d \in Rows /\ documents[d].ingestion = "failed"
    /\ Uploads(c, [at |-> "retry_lock", doc |-> d])
    /\ UNCHANGED <<documents, index, retried, left>>

\* Mutant of StillFailed: what was read before is trusted.
Bug_NoRecheck(d) == TRUE

StillFailed(d) == documents[d].ingestion = "failed"

\* The lock is given up again before the index is called.
RetryLock(c) ==
    LET d == calls[c].doc
    IN /\ calls[c].at = "retry_lock"
       /\ ~Locked(d)
       /\ IF StillFailed(d)
          THEN /\ Goes(c, [at |-> "retry_delete", doc |-> d, chunks |-> documents[d].chunks])
               /\ Keeps
          ELSE Ends(c)
       /\ Quiet /\ UNCHANGED <<documents, index, retried, left>>

\* An index that cannot be reached ends the call before its file is unlinked.
RetryDelete(c) ==
    LET d == calls[c].doc
    IN /\ calls[c].at = "retry_delete"
       /\ \E failed \in BOOLEAN :
            /\ Removes(d, Records(d, calls[c].chunks), failed)
            /\ IF failed THEN Leaves(c) ELSE At(c, "retry_again") /\ Keeps
       /\ Quiet /\ UNCHANGED <<documents, retried>>

\* The row is locked and checked again; the lock is held until it is processing.
RetryAgain(c) ==
    LET d == calls[c].doc
        mem == documents[d]
    IN /\ calls[c].at = "retry_again"
       /\ ~Locked(d)
       /\ IF StillFailed(d)
          THEN /\ documents' = [documents EXCEPT ![d] = Processing(mem)]
               /\ retried' = retried \cup {d}
               /\ \E stage \in {"upsert", "fail"} :
                    Goes(c, Ingests(stage, d, Processing(mem), NoDocument, mem))
               /\ Keeps
          ELSE Ends(c) /\ UNCHANGED <<documents, retried>>
       /\ Quiet /\ UNCHANGED <<index, left>>

-------------------------------------------------------------------------------
(* delete                                                                  *)

\* The records to remove are the ones the row counts when it is read.
Delete(c, d) ==
    /\ Starts(c)
    /\ d \in Rows /\ documents[d].status # "deleted"
    /\ ~Locked(d)
    /\ Goes(c, [at |-> "remove", doc |-> d, chunks |-> documents[d].chunks])
    /\ Keeps /\ UNCHANGED <<documents, index, retried, left>>

Remove(c) ==
    LET d == calls[c].doc
    IN /\ calls[c].at = "remove"
       /\ \E failed \in BOOLEAN :
            /\ Removes(d, Records(d, calls[c].chunks), failed)
            /\ IF failed THEN Ends(c) ELSE At(c, "mark") /\ Keeps
       /\ Quiet /\ UNCHANGED <<documents, retried>>

MarkDeleted(c) ==
    LET d == calls[c].doc
    IN /\ calls[c].at = "mark"
       /\ ~Locked(d)
       /\ documents' = [documents EXCEPT ![d] = IF @.status = "deleted" THEN @ ELSE Deleted(@)]
       /\ Ends(c)
       /\ Quiet /\ UNCHANGED <<index, retried, left>>

-------------------------------------------------------------------------------
(* search: the index answers first, the rows decide what may be returned.  *)

\* The widest answer of the index: top_k and the query leave a part of it.
Search(c) ==
    /\ Starts(c)
    /\ index # {}
    /\ Goes(c, [at |-> "filter", hits |-> {r[1] : r \in index}])
    /\ Keeps /\ UNCHANGED <<documents, index, retried, left>>

\* The call then ends with Returned(calls[c].hits) as its answer.
Returned(hits) == {d \in hits : Active(d)}

Filter(c) ==
    /\ calls[c].at = "filter"
    /\ Goes(c, Idle)
    /\ Keeps /\ Quiet /\ UNCHANGED <<documents, index, retried, left>>

-------------------------------------------------------------------------------
\* The document a call writes to.
Works(c) == IF calls[c].at \in {"begin", "upsert", "verify", "complete", "compensate", "fail"}
            THEN {calls[c].doc} ELSE {}

\* The document whose records a call is removing.
Clears(c) == CASE calls[c].at = "cleanup" -> {calls[c].previous}
               [] calls[c].at \in {"remove", "retry_delete"} -> {calls[c].doc}
               [] OTHER -> {}

\* The server dies with every call it was serving.
Restart ==
    /\ restarts < MaxRestarts
    /\ restarts' = restarts + 1
    /\ \E c \in Calls : Busy(c)
    /\ left' = left \cup UNION {Works(c) \cup Clears(c) : c \in Calls}
    /\ leaked' = (leaked \/ uploads # {})
    /\ uploads' = {}
    /\ calls' = [c \in Calls |-> Idle]
    /\ UNCHANGED <<documents, index, retried, made>>

Init ==
    /\ documents = [d \in {} |-> Idle]
    /\ index = {}
    /\ calls = [c \in Calls |-> Idle]
    /\ uploads = {} /\ retried = {} /\ left = {}
    /\ leaked = FALSE
    /\ made = 0 /\ restarts = 0

\* What a call that is under way does next.
Step(c) ==
    \/ ReplaceLock(c) \/ Insert(c)
    \/ Begin(c) \/ Upsert(c) \/ Verify(c) \/ Complete(c) \/ Cleanup(c)
    \/ Compensate(c) \/ Fail(c)
    \/ RetryLock(c) \/ RetryDelete(c) \/ RetryAgain(c)
    \/ Remove(c) \/ MarkDeleted(c)
    \/ Filter(c)

Next ==
    \/ \E c \in Calls :
        \/ \E f \in Files : Create(c, f)
        \/ \E d \in Ids, f \in Files : Replace(c, d, f)
        \/ \E d \in Ids : Retry(c, d) \/ Delete(c, d)
        \/ Search(c)
        \/ Step(c)
    \/ Restart

\* A call that was accepted runs on: the index operations time out and their
\* retries are counted.
Spec == Init /\ [][Next]_vars /\ \A c \in Calls : WF_vars(Step(c))

-------------------------------------------------------------------------------
(* Properties                                                              *)

\* The variables have their types; a row of the table satisfies its checks
\* (positive version, chunks that are not negative).
TypeOK ==
    /\ Rows \subseteq Ids
    /\ documents \in [Rows -> Row]
    /\ index \subseteq Ids \X Nat
    /\ calls \in [Calls -> Call]
    /\ uploads \subseteq {c \in Calls : Busy(c)}
    /\ retried \subseteq Ids /\ left \subseteq Ids
    /\ leaked \in BOOLEAN /\ made \in 0..MaxCalls /\ restarts \in 0..MaxRestarts

\* The table's check: only a completed document of status active is active.
\* Sessions write single columns over rows that others have changed since.
ActiveIsCompleted ==
    \A d \in Rows : documents[d].is_active =>
        documents[d].status = "active" /\ documents[d].ingestion = "completed"

\* At most one call ingests a document: two retries that both found it failed
\* do not both go on.
OneIngestion ==
    \A b, c \in Calls : b # c => Works(b) \cap Works(c) = {}

\* A document that waits for its ingestion or is being ingested has a call that
\* works on it, unless a restart cut that call off.
IngestedBySomeone ==
    \A d \in Rows : documents[d].ingestion \in {"pending", "processing"} =>
        d \in left \/ \E c \in Calls : d \in Works(c)

\* A document and its replacement are active together only when the replacement
\* failed first and was retried: a retry does not retire what it replaces.
OneVersionActive ==
    \A d \in Rows : LET p == documents[d].supersedes IN
        documents[d].is_active /\ p # NoDocument /\ documents[p].is_active => d \in retried

\* An answer never mixes a document with its replacement, though the index may
\* hold both: the rows are read at once, after the index.
AnswersOneVersion ==
    \A c \in Calls : calls[c].at = "filter" =>
        \A d \in Returned(calls[c].hits) :
            documents[d].supersedes \in Returned(calls[c].hits) => d \in retried

\* Only a retry whose records cannot be removed, and a restart, leave a
\* temporary file behind.
FilesRemoved == leaked => left # {} \/ restarts > 0

\* The rows, the index, the files and the calls under way agree with one another.
StoresAgree ==
    /\ TypeOK
    /\ ActiveIsCompleted /\ OneIngestion /\ IngestedBySomeone
    /\ OneVersionActive /\ AnswersOneVersion
    /\ FilesRemoved

\* A failed ingestion leaves nothing in the index, unless taking it back failed.
FailureLeavesNothing ==
    \A d \in Rows : documents[d].ingestion = "failed" /\ d \notin left =>
        \A r \in index : r[1] # d

\* A step that activates a document finds all its records in the index.
ActivatedWhenIndexed ==
    [][\A d \in DOMAIN documents' :
         documents'[d].is_active /\ (d \in Rows => ~documents[d].is_active) =>
            Records(d, Chunks[documents'[d].file]) \subseteq index']_vars

\* A document stops being active only when it is deleted, or in the very step in
\* which its replacement becomes active: a failed replacement costs nothing.
ReplacedOrDeleted ==
    [][\A d \in Rows : documents[d].is_active /\ ~documents'[d].is_active =>
         \/ documents'[d].status = "deleted"
         \/ \E e \in Rows : documents[e].supersedes = d /\ documents'[e].is_active]_vars

\* A completed ingestion stays completed, with the number of its records.
CompletedIsKept ==
    [][\A d \in Rows : documents[d].ingestion = "completed" =>
         /\ documents'[d].ingestion = "completed"
         /\ documents'[d].chunks = Chunks[documents[d].file]]_vars

\* What was ingested is kept: a document is answered from when all of it is in the
\* index, until it is deleted or replaced, and its ingestion is never undone.
DocumentsAreKept == ActivatedWhenIndexed /\ ReplacedOrDeleted /\ CompletedIsKept

\* Every ingestion ends, completed or failed, unless a restart cuts it off (or what it
\* had indexed could not be removed: `left` holds both).
IngestionEnds ==
    \A d \in Ids :
        (d \in Rows /\ documents[d].ingestion \in {"pending", "processing"})
          ~> (d \in left \/ (d \in Rows /\ documents[d].ingestion \in {"completed", "failed"}))

\* A deleted document stays deleted (the code does not keep this: an ingestion
\* that is under way, or a retry, activates it again).
DeletedIsFinal ==
    [][\A d \in Rows : documents[d].status = "deleted" => documents'[d].status = "deleted"]_vars

\* No two active documents hold the same file (the code does not keep this: two
\* uploads may both pass the check, and a retry does not check).
NoDuplicates ==
    \A d, e \in Rows : documents[d].is_active /\ documents[e].is_active
                        /\ documents[d].file = documents[e].file => d = e
===============================================================================
