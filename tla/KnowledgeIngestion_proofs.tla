----------------------- MODULE KnowledgeIngestion_proofs -----------------------
(***************************************************************************)
(* Proofs about KnowledgeIngestion: the rows, the index and the calls      *)
(* agree though sessions write single columns over rows that others have   *)
(* changed; a failed ingestion leaves nothing behind; what is active is    *)
(* wholly indexed, and stays so until it is deleted or replaced.           *)
(***************************************************************************)
EXTENDS KnowledgeIngestion, FiniteSetTheorems, TLAPS

-----------------------------------------------------------------------------
(* The inductive invariant.                                                *)

AtWork == {"begin", "upsert", "verify", "complete", "compensate", "fail"}

Inserting == {c \in Calls : calls[c].at \in {"lock", "insert"}}

\* Rows are numbered from one on, and every insertion under way has its number.
RoomKept ==
  /\ Rows = 1..Cardinality(Rows)
  /\ Cardinality(Rows) + Cardinality(Inserting) <= MaxDocuments

\* What is true of a row whoever writes to it: only a completed document was ever
\* active, it counts its records, and only a completed one is replaced.
RowAgrees(d) ==
  /\ documents[d].is_active <=> documents[d].status = "active"
  /\ IF documents[d].ingestion = "completed"
     THEN documents[d].chunks = Chunks[documents[d].file]
     ELSE documents[d].status \in {"draft", "deleted"} /\ documents[d].chunks = 0
  /\ documents[d].supersedes # NoDocument =>
       /\ documents[d].supersedes \in Rows \ {d}
       /\ documents[documents[d].supersedes].ingestion = "completed"

NothingIn(d) == \A r \in index : r[1] # d

\* A call that ingests: what it has read still decides what its writes change.
WorkAgrees(c) ==
  LET d == calls[c].doc
      mem == calls[c].mem
  IN calls[c].at \in AtWork =>
       /\ d \in Rows
       /\ mem.file = documents[d].file /\ mem.chunks = 0
       /\ ~mem.is_active /\ mem.status \in {"draft", "deleted"}
       /\ mem.ingestion = documents[d].ingestion
       /\ mem.ingestion = IF calls[c].at = "begin" THEN "pending" ELSE "processing"
       /\ IF calls[c].previous = NoDocument
          THEN documents[d].supersedes = NoDocument \/ d \in retried
          ELSE documents[d].supersedes = calls[c].previous
       /\ calls[c].at \in {"begin", "fail"} => d \in left \/ NothingIn(d)
       /\ calls[c].at = "complete" => Records(d, Chunks[mem.file]) \subseteq index

\* A call that replaces a document read it active; a call that removes records
\* counts none of a document that is not completed.
CallAgrees(c) ==
  /\ calls[c].at = "lock" => calls[c].previous \in Rows
  /\ calls[c].at \in AtWork \cup {"insert", "cleanup"} /\ calls[c].previous # NoDocument =>
       /\ calls[c].previous \in Rows
       /\ documents[calls[c].previous].ingestion = "completed"
       /\ calls[c].old.status = "active" /\ calls[c].old.is_active
  /\ calls[c].at = "cleanup" => calls[c].previous # NoDocument
  /\ calls[c].at \in {"retry_lock", "retry_delete", "retry_again", "remove", "mark"} =>
       calls[c].doc \in Rows
  /\ calls[c].at \in {"retry_delete", "remove"} /\ calls[c].chunks # 0 =>
       documents[calls[c].doc].ingestion = "completed"
  /\ calls[c].at \in {"filter", "remove", "mark"} => c \notin uploads

\* Every record of the index belongs to a row and is one of its file's.
IndexAgrees ==
  \A r \in index : r[1] \in Rows /\ r[2] \in 1..Chunks[documents[r[1]].file]

IInv ==
  /\ TypeOK /\ RoomKept /\ IndexAgrees
  /\ \A d \in Rows : RowAgrees(d)
  /\ \A c \in Calls : WorkAgrees(c) /\ CallAgrees(c)
  /\ OneIngestion /\ IngestedBySomeone /\ OneVersionActive
  /\ FilesRemoved /\ FailureLeavesNothing

-----------------------------------------------------------------------------
(* Facts about the types.                                                  *)

LEMMA RowShapes ==
  ASSUME NEW row \in Row
  PROVE  /\ row.file \in Files /\ row.version \in Nat \ {0}
         /\ row.supersedes \in Ids \cup {NoDocument}
         /\ row.status \in {"draft", "active", "inactive", "superseded", "deleted"}
         /\ row.is_active \in BOOLEAN
         /\ row.ingestion \in {"pending", "processing", "completed", "failed"}
         /\ row.chunks \in Nat
BY DEF Row, KnowledgeDocumentStatus, KnowledgeIngestionStatus

\* The stage of a call says what the call carries.
LEMMA CallShapes ==
  ASSUME TypeOK, NEW c \in Calls
  PROVE  /\ calls[c].at = "idle" => calls[c] = Idle
         /\ calls[c].at = "insert" => calls[c] \in Creating \/ calls[c] \in Replacing
         /\ calls[c].at = "lock" => calls[c] \in Locking
         /\ calls[c].at \in AtWork \cup {"cleanup"} => calls[c] \in Ingesting
         /\ calls[c].at = "retry_lock" => calls[c] \in Retrying
         /\ calls[c].at \in {"retry_delete", "retry_again", "remove", "mark"} => calls[c] \in Removing
         /\ calls[c].at = "filter" => calls[c] \in Searching
<1>1. calls[c] \in Call
  BY DEF TypeOK
<1>2. CASE calls[c] = Idle
  BY <1>2 DEF Idle, AtWork
<1>3. CASE calls[c] \in Creating
  BY <1>3 DEF Creating, AtWork
<1>4. CASE calls[c] \in Locking
  BY <1>4 DEF Locking, AtWork
<1>5. CASE calls[c] \in Replacing
  BY <1>5 DEF Replacing, AtWork
<1>6. CASE calls[c] \in Ingesting
  BY <1>6 DEF Ingesting, AtWork
<1>7. CASE calls[c] \in Retrying
  BY <1>7 DEF Retrying, AtWork
<1>8. CASE calls[c] \in Removing
  BY <1>8 DEF Removing, AtWork
<1>9. CASE calls[c] \in Searching
  BY <1>9 DEF Searching, AtWork
<1> QED
  BY <1>1, <1>2, <1>3, <1>4, <1>5, <1>6, <1>7, <1>8, <1>9 DEF Call

\* A flush changes exactly the columns that differ from what was read.
LEMMA WrittenShape ==
  ASSUME NEW row \in Row, NEW mem \in Row, NEW new \in Row
  PROVE  /\ Written(row, mem, new) \in Row
         /\ Written(row, mem, new).file = IF new.file = mem.file THEN row.file ELSE new.file
         /\ Written(row, mem, new).supersedes =
               IF new.supersedes = mem.supersedes THEN row.supersedes ELSE new.supersedes
         /\ Written(row, mem, new).status = IF new.status = mem.status THEN row.status ELSE new.status
         /\ Written(row, mem, new).is_active =
               IF new.is_active = mem.is_active THEN row.is_active ELSE new.is_active
         /\ Written(row, mem, new).ingestion =
               IF new.ingestion = mem.ingestion THEN row.ingestion ELSE new.ingestion
         /\ Written(row, mem, new).chunks = IF new.chunks = mem.chunks THEN row.chunks ELSE new.chunks
<1> DEFINE w == Written(row, mem, new)
<1>1. DOMAIN row = {"file", "version", "supersedes", "status", "is_active", "ingestion", "chunks"}
  BY DEF Row
<1>2. w = [col \in {"file", "version", "supersedes", "status", "is_active", "ingestion", "chunks"} |->
             IF new[col] = mem[col] THEN row[col] ELSE new[col]]
  BY <1>1 DEF Written
<1>3. /\ w.file = IF new.file = mem.file THEN row.file ELSE new.file
      /\ w.version = IF new.version = mem.version THEN row.version ELSE new.version
      /\ w.supersedes = IF new.supersedes = mem.supersedes THEN row.supersedes ELSE new.supersedes
      /\ w.status = IF new.status = mem.status THEN row.status ELSE new.status
      /\ w.is_active = IF new.is_active = mem.is_active THEN row.is_active ELSE new.is_active
      /\ w.ingestion = IF new.ingestion = mem.ingestion THEN row.ingestion ELSE new.ingestion
      /\ w.chunks = IF new.chunks = mem.chunks THEN row.chunks ELSE new.chunks
  BY <1>2
<1>4. /\ w.file \in Files /\ w.version \in Nat \ {0} /\ w.supersedes \in Ids \cup {NoDocument}
      /\ w.status \in KnowledgeDocumentStatus /\ w.is_active \in BOOLEAN
      /\ w.ingestion \in KnowledgeIngestionStatus /\ w.chunks \in Nat
  BY <1>3 DEF Row
<1>5. w = [file |-> w.file, version |-> w.version, supersedes |-> w.supersedes, status |-> w.status,
           is_active |-> w.is_active, ingestion |-> w.ingestion, chunks |-> w.chunks]
  BY <1>2
<1>6. w \in Row
  BY <1>4, <1>5 DEF Row
<1> QED
  BY <1>3, <1>6

\* What a call has read is a row, and the rows it makes of it are.
LEMMA NewRows ==
  ASSUME NEW mem \in Row, NEW n \in Nat
  PROVE  /\ Processing(mem) \in Row /\ Processing(mem) = [mem EXCEPT !.ingestion = "processing"]
         /\ Completed(mem, n) \in Row /\ Failed(mem) \in Row
         /\ Superseded(mem) \in Row /\ Deleted(mem) \in Row
BY DEF Row, KnowledgeDocumentStatus, KnowledgeIngestionStatus, Processing, Completed, Failed, Superseded, Deleted

-----------------------------------------------------------------------------
(* What the calls that do not move rely on.                                *)

\* Rows are never lost; whom they replace, their file and a completion are kept.
RowsKept ==
  \A d \in Rows : /\ d \in DOMAIN documents' /\ documents'[d].file = documents[d].file
                  /\ documents'[d].supersedes = documents[d].supersedes
                  /\ documents[d].ingestion = "completed" => documents'[d].ingestion = "completed"

\* Every step but an activation: nothing becomes active, and what stops being active is
\* deleted.
NothingActivated ==
  /\ RowsKept
  /\ \A d \in DOMAIN documents' : documents'[d].is_active => d \in Rows /\ documents[d].is_active
  /\ \A d \in Rows : documents[d].is_active /\ ~documents'[d].is_active =>
       documents'[d].status = "deleted"

LEMMA UnchangedRows ==
  ASSUME UNCHANGED documents
  PROVE  NothingActivated
BY DEF NothingActivated, RowsKept, Rows

\* A call that does not move agrees with the rows and the index as long as nobody else
\* touches the ingestion and the records of its document.
LEMMA OtherCallStays ==
  ASSUME NEW b \in Calls, calls'[b] = calls[b], TypeOK, WorkAgrees(b), CallAgrees(b), RowsKept,
         \A d \in Works(b) : /\ documents'[d].ingestion = documents[d].ingestion
                             /\ \A r : r[1] = d => (r \in index' <=> r \in index),
         left \subseteq left', retried \subseteq retried', b \in uploads' => b \in uploads
  PROVE  WorkAgrees(b)' /\ CallAgrees(b)'
<1>1. WorkAgrees(b)'
  <2>1. SUFFICES ASSUME calls[b].at \in AtWork  PROVE WorkAgrees(b)'
    BY DEF WorkAgrees
  <2>2. PICK d : d = calls[b].doc /\ d \in Works(b)
    BY <2>1 DEF Works, AtWork
  <2>3. d \in Rows /\ documents'[d].ingestion = documents[d].ingestion
        /\ documents'[d].file = documents[d].file /\ documents'[d].supersedes = documents[d].supersedes
        /\ d \in DOMAIN documents'
    BY <2>1, <2>2 DEF WorkAgrees, RowsKept
  <2>4. \A n : Records(d, n) \subseteq index => Records(d, n) \subseteq index'
    <3>1. \A n : \A r \in Records(d, n) : r[1] = d
      BY DEF Records
    <3> QED
      BY <2>2, <3>1
  <2>5. NothingIn(d) => \A r \in index' : r[1] # d
    BY <2>2 DEF NothingIn
  <2> QED
    BY <2>1, <2>2, <2>3, <2>4, <2>5 DEF WorkAgrees, NothingIn, Rows
<1>2. CallAgrees(b)'
  BY DEF CallAgrees, RowsKept, Rows
<1> QED
  BY <1>1, <1>2

\* Insertions under way after a step of one call.
LEMMA RoomStays ==
  ASSUME TypeOK, RoomKept, NEW c \in Calls, Rows' = Rows,
         \A b \in Calls : b # c => calls'[b] = calls[b],
         calls'[c].at \in {"lock", "insert"} =>
           calls[c].at \in {"lock", "insert"} \/ Cardinality(Rows) + Cardinality(Inserting) < MaxDocuments
  PROVE  RoomKept'
<1>1. IsFiniteSet(Calls) /\ MaxDocuments \in Nat
  BY KnowledgeAssumption
<1>2. Inserting \subseteq Calls /\ IsFiniteSet(Inserting) /\ Inserting' \subseteq Inserting \cup {c}
      /\ IsFiniteSet(Inserting')
  BY <1>1, FS_Subset DEF Inserting
<1>3. Cardinality(Rows) \in Nat
  <2>1. IsFiniteSet(Ids)
    BY <1>1, FS_Interval DEF Ids
  <2> QED
    BY <2>1, FS_Subset, FS_CardinalityType DEF TypeOK
<1>4. Cardinality(Inserting) \in Nat /\ Cardinality(Inserting') \in Nat
  BY <1>2, FS_CardinalityType
<1>5. CASE Inserting' \subseteq Inserting
  <2>1. Cardinality(Inserting') <= Cardinality(Inserting)
    BY <1>2, <1>5, FS_Subset
  <2> QED
    BY <1>1, <1>3, <1>4, <2>1 DEF RoomKept
<1>6. CASE ~(Inserting' \subseteq Inserting)
  <2>1. c \in Inserting' /\ c \notin Inserting
    BY <1>2, <1>6
  <2>2. Cardinality(Rows) + Cardinality(Inserting) < MaxDocuments
    BY <2>1 DEF Inserting
  <2>3. /\ Cardinality(Inserting \cup {c}) = Cardinality(Inserting) + 1
        /\ IsFiniteSet(Inserting \cup {c})
    BY <1>2, <2>1, FS_AddElement
  <2>4. Cardinality(Inserting') <= Cardinality(Inserting \cup {c})
    BY <1>2, <2>3, FS_Subset
  <2> QED
    BY <1>1, <1>3, <1>4, <2>2, <2>3, <2>4 DEF RoomKept
<1> QED
  BY <1>5, <1>6

\* A step of one call that leaves the rows alone: it keeps its document, adds records
\* to that document only and removes none of a document another call works on.
LEMMA RowsStayKeeps ==
  ASSUME IInv, NEW c \in Calls, NEW k \in Call, calls' = [calls EXCEPT ![c] = k],
         UNCHANGED <<documents, retried, restarts>>, made' \in 0..MaxCalls,
         index' \subseteq Ids \X Nat,
         \A r \in index' : r \in index \/ (r[1] \in Works(c) /\ r[2] \in 1..Chunks[documents[r[1]].file]),
         \A b \in Calls : b # c => \A d \in Works(b) : \A r \in index : r[1] = d => r \in index',
         left \subseteq left', left' \subseteq Ids, leaked' \in BOOLEAN, leaked' => leaked \/ left' # {},
         uploads' \subseteq uploads \cup {c}, c \in uploads' => k.at # "idle",
         k.at \in {"lock", "insert"} =>
           calls[c].at \in {"lock", "insert"} \/ Cardinality(Rows) + Cardinality(Inserting) < MaxDocuments,
         Works(c)' = Works(c), WorkAgrees(c)', CallAgrees(c)'
  PROVE  IInv'
<1> TypeOK /\ RoomKept /\ IndexAgrees /\ OneIngestion /\ IngestedBySomeone /\ OneVersionActive
      /\ FilesRemoved /\ FailureLeavesNothing
  BY DEF IInv
<1>1. /\ calls' \in [Calls -> Call] /\ calls'[c] = k
      /\ \A b \in Calls : b # c => calls'[b] = calls[b]
  BY DEF TypeOK
<1>2. TypeOK'
  <2>1. uploads' \subseteq {b \in Calls : calls'[b].at # "idle"}
    BY <1>1 DEF TypeOK, Busy
  <2> QED
    BY <1>1, <2>1 DEF TypeOK, Busy, Rows
<1>3. RoomKept'
  BY <1>1, RoomStays DEF Rows
<1>4. \A b \in Calls : Works(b)' = Works(b)
  BY <1>1 DEF Works
<1>5. \A d \in Works(c) : d \in Rows /\ documents[d].ingestion \in {"pending", "processing"}
  <2>1. WorkAgrees(c)
    BY DEF IInv
  <2> QED
    BY <2>1 DEF WorkAgrees, Works, AtWork
<1>6. IndexAgrees'
  BY <1>5 DEF IndexAgrees, Rows
<1>7. \A d \in Rows : RowAgrees(d)'
  BY DEF IInv, RowAgrees, Rows
<1>8. ASSUME NEW b \in Calls  PROVE WorkAgrees(b)' /\ CallAgrees(b)'
  <2>1. CASE b = c
    BY <2>1
  <2>2. CASE b # c
    <3>1. \A d \in Works(b) : d \notin Works(c)
      BY <2>2 DEF OneIngestion
    <3>2. \A d \in Works(b) : /\ documents'[d].ingestion = documents[d].ingestion
                             /\ \A r : r[1] = d => (r \in index' <=> r \in index)
      BY <2>2, <3>1
    <3>3. calls'[b] = calls[b] /\ RowsKept /\ (b \in uploads' => b \in uploads)
      BY <1>1, <2>2 DEF RowsKept, Rows
    <3>4. WorkAgrees(b) /\ CallAgrees(b)
      BY DEF IInv
    <3> QED
      BY <3>2, <3>3, <3>4, OtherCallStays
  <2> QED
    BY <2>1, <2>2
<1>9. OneIngestion'
  BY <1>4 DEF OneIngestion
<1>10. IngestedBySomeone'
  BY <1>4 DEF IngestedBySomeone, Rows
<1>11. OneVersionActive'
  BY DEF OneVersionActive, Rows
<1>12. FilesRemoved'
  BY DEF FilesRemoved
<1>13. FailureLeavesNothing'
  <2>1. ASSUME NEW d \in Rows, documents[d].ingestion = "failed", d \notin left', NEW r \in index'
        PROVE  r[1] # d
    <3>1. d \notin Works(c) /\ d \notin left
      BY <1>5, <2>1
    <3> QED
      BY <2>1, <3>1 DEF FailureLeavesNothing
  <2> QED
    BY <2>1 DEF FailureLeavesNothing, Rows
<1> QED
  BY <1>2, <1>3, <1>6, <1>7, <1>8, <1>9, <1>10, <1>11, <1>12, <1>13 DEF IInv, Rows

\* A step of one call that commits rows and leaves the index alone.
LEMMA IndexStaysKeeps ==
  ASSUME IInv, NEW c \in Calls, NEW k \in Call, calls' = [calls EXCEPT ![c] = k],
         UNCHANGED <<index, left, leaked, made, restarts>>,
         DOMAIN documents' \subseteq Ids, documents' \in [DOMAIN documents' -> Row],
         retried \subseteq retried', retried' \subseteq Ids,
         uploads' \subseteq uploads, c \in uploads' => k.at # "idle",
         RowsKept, RoomKept', \A d \in DOMAIN documents' : RowAgrees(d)',
         \A b \in Calls : b # c =>
           /\ \A d \in Works(b) : documents'[d].ingestion = documents[d].ingestion
           /\ Works(c)' \cap Works(b) = {},
         \A d \in DOMAIN documents' : documents'[d].ingestion \in {"pending", "processing"} =>
           d \in Works(c)' \/ (d \in Rows /\ documents[d].ingestion \in {"pending", "processing"}
                                /\ d \notin Works(c)),
         \A d \in DOMAIN documents' : documents'[d].ingestion = "failed" =>
           (d \in Rows /\ documents[d].ingestion = "failed") \/ d \in left \/ NothingIn(d),
         OneVersionActive', WorkAgrees(c)', CallAgrees(c)'
  PROVE  IInv'
<1> TypeOK /\ IndexAgrees /\ OneIngestion /\ IngestedBySomeone /\ FilesRemoved /\ FailureLeavesNothing
  BY DEF IInv
<1>1. /\ calls' \in [Calls -> Call] /\ calls'[c] = k
      /\ \A b \in Calls : b # c => calls'[b] = calls[b]
  BY DEF TypeOK
<1>2. TypeOK'
  <2>1. uploads' \subseteq {b \in Calls : calls'[b].at # "idle"}
    BY <1>1 DEF TypeOK, Busy
  <2> QED
    BY <1>1, <2>1 DEF TypeOK, Busy, Rows
<1>3. \A b \in Calls : b # c => Works(b)' = Works(b)
  BY <1>1 DEF Works
<1>4. IndexAgrees'
  BY DEF IndexAgrees, RowsKept, Rows
<1>5. ASSUME NEW b \in Calls  PROVE WorkAgrees(b)' /\ CallAgrees(b)'
  <2>1. CASE b = c
    BY <2>1
  <2>2. CASE b # c
    <3>1. \A d \in Works(b) : /\ documents'[d].ingestion = documents[d].ingestion
                             /\ \A r : r[1] = d => (r \in index' <=> r \in index)
      BY <2>2
    <3>2. calls'[b] = calls[b] /\ (b \in uploads' => b \in uploads) /\ left \subseteq left'
      BY <1>1, <2>2
    <3>3. WorkAgrees(b) /\ CallAgrees(b)
      BY DEF IInv
    <3> QED
      BY <3>1, <3>2, <3>3, OtherCallStays
  <2> QED
    BY <2>1, <2>2
<1>6. OneIngestion'
  BY <1>3 DEF OneIngestion
<1>7. IngestedBySomeone'
  <2>1. ASSUME NEW d \in DOMAIN documents', documents'[d].ingestion \in {"pending", "processing"}, d \notin left
        PROVE  \E b \in Calls : d \in Works(b)'
    <3>1. CASE d \in Works(c)'
      BY <3>1
    <3>2. CASE d \notin Works(c)'
      <4>1. d \in Rows /\ documents[d].ingestion \in {"pending", "processing"} /\ d \notin Works(c)
        BY <2>1, <3>2
      <4>2. PICK b \in Calls : d \in Works(b)
        BY <2>1, <4>1 DEF IngestedBySomeone
      <4> QED
        BY <1>3, <4>1, <4>2
    <3> QED
      BY <3>1, <3>2
  <2> QED
    BY <2>1 DEF IngestedBySomeone, Rows
<1>8. FilesRemoved'
  BY DEF FilesRemoved
<1>9. FailureLeavesNothing'
  BY DEF FailureLeavesNothing, NothingIn, Rows
<1> QED
  BY <1>2, <1>4, <1>5, <1>6, <1>7, <1>8, <1>9 DEF IInv, Rows

-----------------------------------------------------------------------------
(* Calls that begin.                                                       *)

\* The new call writes nothing yet.
LEMMA StartKeeps ==
  ASSUME IInv, NEW c \in Calls, NEW k \in Call, Starts(c), Goes(c, k),
         UNCHANGED <<documents, index, retried, left, leaked>>,
         uploads' \subseteq uploads \cup {c}, k.at \notin AtWork \cup {"idle"},
         k.at \in {"lock", "insert"} => Room, CallAgrees(c)'
  PROVE  IInv'
<1> TypeOK
  BY DEF IInv
<1>1. calls'[c] = k /\ calls' = [calls EXCEPT ![c] = k]
  BY DEF Goes, TypeOK
<1>2. made' \in 0..MaxCalls /\ restarts' = restarts /\ calls[c].at = "idle"
  BY KnowledgeAssumption DEF Starts, Busy, TypeOK
<1>3. Works(c) = {} /\ Works(c)' = {}
  BY <1>1, <1>2 DEF Works, AtWork
<1>4. WorkAgrees(c)'
  BY <1>1 DEF WorkAgrees
<1>5. k.at \in {"lock", "insert"} => Cardinality(Rows) + Cardinality(Inserting) < MaxDocuments
  BY DEF Room, Inserting
<1>6. /\ index' \subseteq Ids \X Nat /\ left' \subseteq Ids /\ leaked' \in BOOLEAN
      /\ leaked' => leaked \/ left' # {}
  BY DEF TypeOK
<1>7. UNCHANGED <<documents, retried, restarts>>
  BY <1>2
<1> QED
  BY <1>1, <1>2, <1>3, <1>4, <1>5, <1>6, <1>7, RowsStayKeeps

LEMMA CreateKeeps ==
  ASSUME IInv, NEW c \in Calls, NEW f \in Files, Create(c, f)
  PROVE  IInv'
<1>1. PICK k : k = [at |-> "insert", file |-> f, previous |-> NoDocument, version |-> 1]
  OBVIOUS
<1>2. k \in Call /\ k.at = "insert" /\ k.previous = NoDocument
  BY <1>1 DEF Call, Creating
<1>3. /\ Starts(c) /\ Goes(c, k) /\ UNCHANGED <<documents, index, retried, left, leaked>> /\ Room
      /\ uploads' \subseteq uploads \cup {c}
  BY <1>1 DEF Create, Uploads
<1>4. CallAgrees(c)'
  BY <1>2, <1>3 DEF CallAgrees, Goes, IInv, TypeOK
<1> QED
  BY <1>2, <1>3, <1>4, StartKeeps DEF AtWork

LEMMA ReplaceKeeps ==
  ASSUME IInv, NEW c \in Calls, NEW d \in Ids, NEW f \in Files, Replace(c, d, f)
  PROVE  IInv'
<1>1. PICK k : k = [at |-> "lock", file |-> f, previous |-> d, version |-> documents[d].version]
  OBVIOUS
<1>2. d \in Rows /\ documents[d] \in Row
  BY DEF Replace, IInv, TypeOK
<1>3. k \in Call /\ k.at = "lock" /\ k.previous = d
  BY <1>1, <1>2, RowShapes DEF Call, Locking
<1>4. /\ Starts(c) /\ Goes(c, k) /\ UNCHANGED <<documents, index, retried, left, leaked>> /\ Room
      /\ uploads' \subseteq uploads \cup {c}
  BY <1>1 DEF Replace, Uploads
<1>5. CallAgrees(c)'
  BY <1>2, <1>3, <1>4 DEF CallAgrees, Goes, IInv, TypeOK, Rows, AtWork
<1> QED
  BY <1>3, <1>4, <1>5, StartKeeps DEF AtWork

LEMMA RetryKeeps ==
  ASSUME IInv, NEW c \in Calls, NEW d \in Ids, Retry(c, d)
  PROVE  IInv'
<1>1. PICK k : k = [at |-> "retry_lock", doc |-> d]
  OBVIOUS
<1>2. k \in Call /\ k.at = "retry_lock" /\ k.doc = d
  BY <1>1 DEF Call, Retrying
<1>3. /\ Starts(c) /\ Goes(c, k) /\ UNCHANGED <<documents, index, retried, left, leaked>> /\ d \in Rows
      /\ uploads' \subseteq uploads \cup {c}
  BY <1>1 DEF Retry, Uploads
<1>4. CallAgrees(c)'
  BY <1>2, <1>3 DEF CallAgrees, Goes, IInv, TypeOK, Rows, AtWork
<1> QED
  BY <1>2, <1>3, <1>4, StartKeeps DEF AtWork

\* The records to remove are counted by the row: none before it is completed.
LEMMA DeleteKeeps ==
  ASSUME IInv, NEW c \in Calls, NEW d \in Ids, Delete(c, d)
  PROVE  IInv'
<1>1. PICK k : k = [at |-> "remove", doc |-> d, chunks |-> documents[d].chunks]
  OBVIOUS
<1>2. d \in Rows /\ documents[d] \in Row /\ RowAgrees(d)
  BY DEF Delete, IInv, TypeOK
<1>3. k \in Call /\ k.at = "remove" /\ k.doc = d /\ k.chunks = documents[d].chunks
  BY <1>1, <1>2, RowShapes DEF Call, Removing
<1>4. /\ Starts(c) /\ Goes(c, k) /\ UNCHANGED <<documents, index, retried, left, leaked, uploads>>
  BY <1>1 DEF Delete, Keeps
<1>5. c \notin uploads
  BY <1>4 DEF Starts, IInv, TypeOK
<1>6. CallAgrees(c)'
  BY <1>2, <1>3, <1>4, <1>5 DEF CallAgrees, RowAgrees, Goes, IInv, TypeOK, Rows, AtWork
<1> QED
  BY <1>3, <1>4, <1>6, StartKeeps DEF AtWork

LEMMA SearchKeeps ==
  ASSUME IInv, NEW c \in Calls, Search(c)
  PROVE  IInv'
<1>1. PICK k : k = [at |-> "filter", hits |-> {r[1] : r \in index}]
  OBVIOUS
<1>2. {r[1] : r \in index} \subseteq Ids
  BY DEF IInv, TypeOK
<1>3. k \in Call /\ k.at = "filter"
  BY <1>1, <1>2 DEF Call, Searching
<1>4. /\ Starts(c) /\ Goes(c, k) /\ UNCHANGED <<documents, index, retried, left, leaked, uploads>>
  BY <1>1 DEF Search, Keeps
<1>5. c \notin uploads
  BY <1>4 DEF Starts, IInv, TypeOK
<1>6. CallAgrees(c)'
  BY <1>3, <1>4, <1>5 DEF CallAgrees, Goes, IInv, TypeOK, AtWork
<1> QED
  BY <1>3, <1>4, <1>6, StartKeeps DEF AtWork

-----------------------------------------------------------------------------
(* Steps of a call that leave the rows alone.                              *)

\* A call that does not ingest goes on without touching the index, or ends.
LEMMA QuietKeeps ==
  ASSUME IInv, NEW c \in Calls, NEW k \in Call, Goes(c, k), Quiet,
         UNCHANGED <<documents, index, retried, left, leaked>>,
         calls[c].at \notin AtWork, k.at \notin AtWork,
         uploads' \subseteq uploads, c \in uploads' => k.at # "idle",
         k.at \in {"lock", "insert"} => calls[c].at \in {"lock", "insert"}, CallAgrees(c)'
  PROVE  IInv'
<1> TypeOK
  BY DEF IInv
<1>1. calls'[c] = k /\ calls' = [calls EXCEPT ![c] = k]
  BY DEF Goes, TypeOK
<1>2. Works(c) = {} /\ Works(c)' = {}
  BY <1>1 DEF Works, AtWork
<1>3. WorkAgrees(c)'
  BY <1>1 DEF WorkAgrees
<1>4. /\ index' \subseteq Ids \X Nat /\ left' \subseteq Ids /\ leaked' \in BOOLEAN
      /\ leaked' => leaked \/ left' # {}
      /\ made' \in 0..MaxCalls /\ UNCHANGED <<documents, retried, restarts>>
  BY DEF TypeOK, Quiet
<1> QED
  BY <1>1, <1>2, <1>3, <1>4, RowsStayKeeps

\* A call that ends keeps nothing.
LEMMA IdleAgrees ==
  ASSUME TypeOK, NEW c \in Calls, Goes(c, Idle)
  PROVE  CallAgrees(c)' /\ Idle \in Call /\ Idle.at = "idle"
BY DEF Goes, TypeOK, CallAgrees, Idle, Call, AtWork

LEMMA ReplaceLockKeeps ==
  ASSUME IInv, NEW c \in Calls, ReplaceLock(c)
  PROVE  IInv'
<1> TypeOK /\ CallAgrees(c)
  BY DEF IInv
<1>1. /\ calls[c].at = "lock" /\ calls[c] \in Locking /\ Quiet
      /\ UNCHANGED <<documents, index, retried, left>>
  BY CallShapes DEF ReplaceLock
<1>2. CASE Ends(c)
  BY <1>1, <1>2, IdleAgrees, QuietKeeps DEF Ends, AtWork
<1>3. CASE ~Ends(c)
  <2>1. PICK d : d = calls[c].previous
    OBVIOUS
  <2>2. d \in Rows /\ documents[d] \in Row /\ RowAgrees(d) /\ d \in Ids
    BY <1>1, <2>1 DEF CallAgrees, IInv, TypeOK
  <2>3. PICK k : k = [at |-> "insert", file |-> calls[c].file, previous |-> d,
                      version |-> calls[c].version + 1, old |-> documents[d]]
    OBVIOUS
  <2>4. documents[d].status = "active" /\ Goes(c, k) /\ UNCHANGED <<uploads, leaked>>
    BY <1>3, <2>1, <2>3 DEF ReplaceLock, Keeps
  <2>5. calls[c].file \in Files /\ calls[c].version + 1 \in Nat \ {0}
    BY <1>1 DEF Locking
  <2>6. k \in Replacing /\ k.at = "insert" /\ k.previous = d /\ k.old = documents[d]
    BY <2>2, <2>3, <2>5 DEF Replacing
  <2>7. documents[d].ingestion = "completed" /\ documents[d].is_active
    BY <2>2, <2>4 DEF RowAgrees
  <2>8. CallAgrees(c)'
    BY <1>1, <2>2, <2>4, <2>6, <2>7 DEF CallAgrees, Goes, TypeOK, Rows, AtWork
  <2> QED
    BY <1>1, <2>4, <2>6, <2>8, QuietKeeps DEF Call, AtWork
<1> QED
  BY <1>2, <1>3

LEMMA RetryLockKeeps ==
  ASSUME IInv, NEW c \in Calls, RetryLock(c)
  PROVE  IInv'
<1> TypeOK /\ CallAgrees(c)
  BY DEF IInv
<1>1. /\ calls[c].at = "retry_lock" /\ Quiet /\ UNCHANGED <<documents, index, retried, left>>
  BY DEF RetryLock
<1>2. PICK d : d = calls[c].doc
  OBVIOUS
<1>3. CASE ~StillFailed(d)
  BY <1>1, <1>2, <1>3, IdleAgrees, QuietKeeps DEF RetryLock, Ends, AtWork
<1>4. CASE StillFailed(d)
  <2>1. d \in Rows /\ documents[d] \in Row /\ RowAgrees(d) /\ d \in Ids
    BY <1>1, <1>2 DEF CallAgrees, IInv, TypeOK
  <2>2. documents[d].chunks = 0
    BY <1>4, <2>1 DEF StillFailed, RowAgrees
  <2>3. PICK k : k = [at |-> "retry_delete", doc |-> d, chunks |-> documents[d].chunks]
    OBVIOUS
  <2>4. k \in Removing /\ k.at = "retry_delete" /\ k.doc = d /\ k.chunks = 0
    BY <2>1, <2>2, <2>3 DEF Removing
  <2>5. Goes(c, k) /\ UNCHANGED <<uploads, leaked>>
    BY <1>2, <1>4, <2>3 DEF RetryLock, Keeps
  <2>6. CallAgrees(c)'
    BY <1>1, <2>1, <2>4, <2>5 DEF CallAgrees, Goes, TypeOK, Rows, AtWork
  <2> QED
    BY <1>1, <2>4, <2>5, <2>6, QuietKeeps DEF Call, AtWork
<1> QED
  BY <1>3, <1>4

LEMMA FilterKeeps ==
  ASSUME IInv, NEW c \in Calls, Filter(c)
  PROVE  IInv'
<1> TypeOK /\ CallAgrees(c)
  BY DEF IInv
<1>1. /\ calls[c].at = "filter" /\ Quiet /\ Goes(c, Idle)
      /\ UNCHANGED <<documents, index, retried, left, uploads, leaked>>
  BY DEF Filter, Keeps
<1>2. c \notin uploads
  BY <1>1 DEF CallAgrees
<1> QED
  BY <1>1, <1>2, IdleAgrees, QuietKeeps DEF AtWork

-----------------------------------------------------------------------------
(* Steps on the index.                                                     *)

\* A removal takes records of one document; it is complete, or the document is noted.
LEMMA RemovesShape ==
  ASSUME TypeOK, NEW d \in Ids, NEW n \in Nat, NEW failed \in BOOLEAN,
         Removes(d, Records(d, n), failed)
  PROVE  /\ index' \subseteq index /\ index' \subseteq Ids \X Nat
         /\ left \subseteq left' /\ left' \subseteq Ids
         /\ \A r \in index : r[1] # d \/ n = 0 => r \in index'
         /\ IF failed THEN d \in left' ELSE index' = index \ Records(d, n)
<1>1. \A r \in Records(d, n) : r[1] = d /\ n # 0
  BY DEF Records
<1>2. CASE failed
  <2>1. PICK part \in SUBSET Records(d, n) : index' = index \ part
    BY <1>2 DEF Removes
  <2>2. left' = left \cup {d}
    BY <1>2 DEF Removes
  <2> QED
    BY <1>1, <1>2, <2>1, <2>2 DEF TypeOK
<1>3. CASE ~failed
  <2>1. index' = index \ Records(d, n) /\ left' = left
    BY <1>3 DEF Removes
  <2> QED
    BY <1>1, <1>3, <2>1 DEF TypeOK
<1> QED
  BY <1>2, <1>3

\* A document that is completed, or not counted, is nobody's work.
LEMMA NotWorkedOn ==
  ASSUME IInv, NEW b \in Calls, NEW d \in Works(b)
  PROVE  d \in Rows /\ documents[d].ingestion \in {"pending", "processing"} /\ d = calls[b].doc
         /\ calls[b].at \in AtWork
<1>1. WorkAgrees(b)
  BY DEF IInv
<1> QED
  BY <1>1 DEF WorkAgrees, Works, AtWork

\* A call that does not ingest removes records of a completed document, or none.
LEMMA RemovalKeeps ==
  ASSUME IInv, NEW c \in Calls, NEW k \in Call, Goes(c, k), Quiet,
         UNCHANGED <<documents, retried>>,
         calls[c].at \notin AtWork, k.at \notin AtWork \cup {"lock", "insert"},
         NEW d \in Ids, NEW n \in Nat, NEW failed \in BOOLEAN, Removes(d, Records(d, n), failed),
         n # 0 => documents[d].ingestion = "completed",
         leaked' \in BOOLEAN, leaked' => leaked \/ left' # {},
         uploads' \subseteq uploads, c \in uploads' => k.at # "idle", CallAgrees(c)'
  PROVE  IInv'
<1> TypeOK
  BY DEF IInv
<1>1. calls'[c] = k /\ calls' = [calls EXCEPT ![c] = k]
  BY DEF Goes, TypeOK
<1>2. Works(c) = {} /\ Works(c)' = {}
  BY <1>1 DEF Works, AtWork
<1>3. WorkAgrees(c)'
  BY <1>1 DEF WorkAgrees
<1>4. /\ index' \subseteq index /\ index' \subseteq Ids \X Nat
      /\ left \subseteq left' /\ left' \subseteq Ids
      /\ \A r \in index : r[1] # d \/ n = 0 => r \in index'
  BY RemovesShape
<1>5. \A b \in Calls : b # c => \A e \in Works(b) : \A r \in index : r[1] = e => r \in index'
  BY <1>4, NotWorkedOn
<1>6. made' \in 0..MaxCalls /\ UNCHANGED <<documents, retried, restarts>>
  BY DEF TypeOK, Quiet
<1>7. \A r \in index' : r \in index \/ (r[1] \in Works(c) /\ r[2] \in 1..Chunks[documents[r[1]].file])
  BY <1>4
<1>8. uploads' \subseteq uploads \cup {c}
  OBVIOUS
<1>9. k.at \notin {"lock", "insert"}
  OBVIOUS
<1> QED
  BY <1>1, <1>2, <1>3, <1>4, <1>5, <1>6, <1>7, <1>8, <1>9, RowsStayKeeps

LEMMA CleanupKeeps ==
  ASSUME IInv, NEW c \in Calls, Cleanup(c)
  PROVE  IInv'
<1> TypeOK /\ CallAgrees(c)
  BY DEF IInv
<1>1. PICK p, n : p = calls[c].previous /\ n = calls[c].old.chunks
  OBVIOUS
<1>2. PICK failed \in BOOLEAN : Removes(p, Records(p, n), failed)
  BY <1>1 DEF Cleanup
<1>3. calls[c].at = "cleanup" /\ calls[c] \in Ingesting /\ Ends(c) /\ Quiet /\ UNCHANGED <<documents, retried>>
  BY CallShapes DEF Cleanup
<1>4. n \in Nat
  <2>1. calls[c].old \in Row
    BY <1>3 DEF Ingesting
  <2> QED
    BY <1>1, <2>1, RowShapes
<1>5. p \in Ids /\ documents[p].ingestion = "completed"
  BY <1>1, <1>3 DEF CallAgrees, TypeOK
<1>6. Goes(c, Idle) /\ leaked' = leaked /\ uploads' \subseteq uploads /\ c \notin uploads' /\ leaked \in BOOLEAN
  BY <1>3 DEF Ends, TypeOK
<1>7. CallAgrees(c)' /\ Idle \in Call /\ Idle.at = "idle"
  BY <1>6, IdleAgrees
<1> QED
  BY <1>2, <1>3, <1>4, <1>5, <1>6, <1>7, RemovalKeeps DEF AtWork

LEMMA RetryDeleteKeeps ==
  ASSUME IInv, NEW c \in Calls, RetryDelete(c)
  PROVE  IInv'
<1> TypeOK /\ CallAgrees(c)
  BY DEF IInv
<1>1. PICK d, n : d = calls[c].doc /\ n = calls[c].chunks
  OBVIOUS
<1>2. PICK failed \in BOOLEAN : /\ Removes(d, Records(d, n), failed)
                               /\ IF failed THEN Leaves(c) ELSE At(c, "retry_again") /\ Keeps
  BY <1>1 DEF RetryDelete
<1>3. calls[c].at = "retry_delete" /\ calls[c] \in Removing /\ Quiet /\ UNCHANGED <<documents, retried>>
  BY CallShapes DEF RetryDelete
<1>4. d \in Rows /\ d \in Ids /\ n \in Nat /\ (n # 0 => documents[d].ingestion = "completed")
  BY <1>1, <1>3 DEF CallAgrees, TypeOK, Removing
<1>5. CASE failed
  <2>1. Goes(c, Idle) /\ uploads' \subseteq uploads /\ c \notin uploads' /\ leaked' = (leaked \/ c \in uploads)
    BY <1>2, <1>5 DEF Leaves
  <2>2. CallAgrees(c)' /\ Idle \in Call /\ Idle.at = "idle"
    BY <2>1, IdleAgrees
  <2>3. d \in left'
    BY <1>2, <1>4, <1>5, RemovesShape
  <2>4. leaked' \in BOOLEAN /\ (leaked' => leaked \/ left' # {})
    BY <2>1, <2>3 DEF TypeOK
  <2> QED
    BY <1>2, <1>3, <1>4, <2>1, <2>2, <2>4, RemovalKeeps DEF AtWork
<1>6. CASE ~failed
  <2>1. PICK k : k = [calls[c] EXCEPT !.at = "retry_again"]
    OBVIOUS
  <2>2. k \in Removing /\ k.at = "retry_again" /\ k.doc = d
    BY <1>1, <1>3, <2>1 DEF Removing
  <2>3. Goes(c, k) /\ UNCHANGED <<uploads, leaked>> /\ leaked \in BOOLEAN
    BY <1>2, <1>6, <2>1 DEF At, Keeps, TypeOK
  <2>4. CallAgrees(c)'
    BY <1>3, <1>4, <2>2, <2>3 DEF CallAgrees, Goes, TypeOK, Rows, AtWork
  <2>5. k \in Call
    BY <2>2 DEF Call
  <2> QED
    BY <1>2, <1>3, <1>4, <2>2, <2>3, <2>4, <2>5, RemovalKeeps DEF AtWork
<1> QED
  BY <1>5, <1>6

LEMMA RemoveKeeps ==
  ASSUME IInv, NEW c \in Calls, Remove(c)
  PROVE  IInv'
<1> TypeOK /\ CallAgrees(c)
  BY DEF IInv
<1>1. PICK d, n : d = calls[c].doc /\ n = calls[c].chunks
  OBVIOUS
<1>2. PICK failed \in BOOLEAN : /\ Removes(d, Records(d, n), failed)
                               /\ IF failed THEN Ends(c) ELSE At(c, "mark") /\ Keeps
  BY <1>1 DEF Remove
<1>3. calls[c].at = "remove" /\ calls[c] \in Removing /\ Quiet /\ UNCHANGED <<documents, retried>>
  BY CallShapes DEF Remove
<1>4. d \in Rows /\ d \in Ids /\ n \in Nat /\ (n # 0 => documents[d].ingestion = "completed")
      /\ c \notin uploads
  BY <1>1, <1>3 DEF CallAgrees, TypeOK, Removing
<1>5. CASE failed
  <2>1. Goes(c, Idle) /\ uploads' \subseteq uploads /\ c \notin uploads' /\ leaked' = leaked /\ leaked \in BOOLEAN
    BY <1>2, <1>5 DEF Ends, TypeOK
  <2>2. CallAgrees(c)' /\ Idle \in Call /\ Idle.at = "idle"
    BY <2>1, IdleAgrees
  <2> QED
    BY <1>2, <1>3, <1>4, <2>1, <2>2, RemovalKeeps DEF AtWork
<1>6. CASE ~failed
  <2>1. PICK k : k = [calls[c] EXCEPT !.at = "mark"]
    OBVIOUS
  <2>2. k \in Removing /\ k.at = "mark" /\ k.doc = d
    BY <1>1, <1>3, <2>1 DEF Removing
  <2>3. Goes(c, k) /\ UNCHANGED <<uploads, leaked>> /\ leaked \in BOOLEAN
    BY <1>2, <1>6, <2>1 DEF At, Keeps, TypeOK
  <2>4. CallAgrees(c)'
    BY <1>3, <1>4, <2>2, <2>3 DEF CallAgrees, Goes, TypeOK, Rows, AtWork
  <2>5. k \in Call
    BY <2>2 DEF Call
  <2> QED
    BY <1>2, <1>3, <1>4, <2>2, <2>3, <2>4, <2>5, RemovalKeeps DEF AtWork
<1> QED
  BY <1>5, <1>6

\* An ingestion goes from one stage to the next; the index changes for its document only.
LEMMA IngestionMoves ==
  ASSUME IInv, NEW c \in Calls, calls[c].at \in AtWork \ {"begin"},
         NEW stage \in AtWork \ {"begin"}, NEW sent \in Nat,
         Goes(c, [calls[c] EXCEPT !.at = stage, !.sent = sent]),
         UNCHANGED <<documents, retried, uploads, leaked>>, Quiet,
         index' \subseteq Ids \X Nat,
         \A r \in index' : r \in index \/ (r[1] = calls[c].doc /\ r[2] \in 1..Chunks[calls[c].mem.file]),
         \A r \in index : r[1] # calls[c].doc => r \in index',
         left \subseteq left', left' \subseteq Ids,
         stage = "fail" => calls[c].doc \in left' \/ \A r \in index' : r[1] # calls[c].doc,
         stage = "complete" => Records(calls[c].doc, Chunks[calls[c].mem.file]) \subseteq index'
  PROVE  IInv'
<1> TypeOK /\ CallAgrees(c) /\ WorkAgrees(c)
  BY DEF IInv
<1>1. calls[c] \in Ingesting
  BY CallShapes
<1>2. PICK k : k = [calls[c] EXCEPT !.at = stage, !.sent = sent]
  OBVIOUS
<1>3. /\ k \in Ingesting /\ k.at = stage /\ k.doc = calls[c].doc /\ k.mem = calls[c].mem
      /\ k.previous = calls[c].previous /\ k.old = calls[c].old
  BY <1>1, <1>2 DEF Ingesting, AtWork
<1>4. calls'[c] = k /\ calls' = [calls EXCEPT ![c] = k] /\ k \in Call
  BY <1>2, <1>3 DEF Goes, TypeOK, Call
<1>5. Works(c) = {calls[c].doc} /\ Works(c)' = Works(c)
  BY <1>3, <1>4 DEF Works, AtWork
<1>6. WorkAgrees(c)'
  BY <1>3, <1>4 DEF WorkAgrees, NothingIn, Rows, AtWork
<1>7. CallAgrees(c)'
  BY <1>3, <1>4 DEF CallAgrees, Rows, AtWork
<1>8. \A r \in index' : r \in index \/ (r[1] \in Works(c) /\ r[2] \in 1..Chunks[documents[r[1]].file])
  BY <1>5 DEF WorkAgrees
<1>9. \A b \in Calls : b # c => \A e \in Works(b) : \A r \in index : r[1] = e => r \in index'
  BY <1>5 DEF IInv, OneIngestion
<1>10. /\ made' \in 0..MaxCalls /\ UNCHANGED <<documents, retried, restarts>>
       /\ leaked' \in BOOLEAN /\ (leaked' => leaked \/ left' # {})
       /\ uploads' \subseteq uploads \cup {c} /\ (c \in uploads' => k.at # "idle")
       /\ k.at \notin {"lock", "insert"}
  BY <1>3 DEF TypeOK, Quiet, AtWork
<1> QED
  BY <1>4, <1>5, <1>6, <1>7, <1>8, <1>9, <1>10, RowsStayKeeps

LEMMA UpsertKeeps ==
  ASSUME IInv, NEW c \in Calls, Upsert(c)
  PROVE  IInv'
<1> TypeOK /\ WorkAgrees(c)
  BY DEF IInv
<1>1. calls[c].at = "upsert" /\ calls[c] \in Ingesting /\ calls[c].sent \in Nat
  BY CallShapes DEF Upsert, AtWork, Ingesting
<1>2. PICK n : n = calls[c].sent + Cardinality(Batch(c))
  OBVIOUS
<1>3. calls[c].doc \in Ids /\ Chunks[calls[c].mem.file] \in Nat
  BY <1>1, KnowledgeAssumption DEF Ingesting, Row
<1>4. n \in Nat
  <2>1. PICK m \in Nat : m = Chunks[calls[c].mem.file]
    BY <1>3
  <2>2. IsFiniteSet({calls[c].doc}) /\ IsFiniteSet(1..m)
    <3>1. IsFiniteSet({calls[c].doc})
      BY FS_Singleton
    <3>2. 1 \in Int /\ m \in Int
      OBVIOUS
    <3>3. IsFiniteSet(1..m)
      BY <3>2, FS_Interval
    <3> QED
      BY <3>1, <3>3
  <2>3. IsFiniteSet({calls[c].doc} \X (1..m))
    BY <2>2, FS_Product
  <2>4. Batch(c) \subseteq {calls[c].doc} \X (1..m)
    BY <2>1 DEF Batch, Own, Size, Records
  <2>5. IsFiniteSet(Batch(c))
    BY <2>3, <2>4, FS_Subset
  <2>6. Cardinality(Batch(c)) \in Nat
    BY <2>5, FS_CardinalityType
  <2> QED
    BY <1>1, <1>2, <2>6
<1>5. /\ Batch(c) \subseteq Ids \X Nat
      /\ \A r \in Batch(c) : r[1] = calls[c].doc /\ r[2] \in 1..Chunks[calls[c].mem.file]
  BY <1>3 DEF Batch, Own, Size, Records
<1>6. index' = index \/ index' = index \cup Batch(c)
  BY DEF Upsert
<1>7. \E stage \in {"upsert", "verify", "compensate"}, sent \in Nat :
        Goes(c, [calls[c] EXCEPT !.at = stage, !.sent = sent])
  <2>1. CASE Goes(c, [calls[c] EXCEPT !.at = "verify", !.sent = 0])
    BY <2>1
  <2>2. CASE Goes(c, [calls[c] EXCEPT !.sent = n])
    <3>1. [calls[c] EXCEPT !.sent = n] = [calls[c] EXCEPT !.at = "upsert", !.sent = n]
      BY <1>1 DEF Ingesting
    <3> QED
      BY <1>4, <2>2, <3>1
  <2>3. CASE Goes(c, [calls[c] EXCEPT !.at = "compensate", !.sent = 0])
    BY <2>3
  <2> QED
    BY <1>2, <2>1, <2>2, <2>3 DEF Upsert
<1>8. PICK stage \in {"upsert", "verify", "compensate"}, sent \in Nat :
        Goes(c, [calls[c] EXCEPT !.at = stage, !.sent = sent])
  BY <1>7
<1>9. /\ UNCHANGED <<documents, retried, uploads, leaked>> /\ Quiet
      /\ left' = left /\ left \subseteq Ids /\ index' \subseteq Ids \X Nat
  BY <1>5, <1>6 DEF Upsert, Keeps, TypeOK
<1>10. /\ \A r \in index' : r \in index \/ (r[1] = calls[c].doc /\ r[2] \in 1..Chunks[calls[c].mem.file])
       /\ \A r \in index : r \in index'
  BY <1>5, <1>6
<1>11. stage \in AtWork \ {"begin"} /\ calls[c].at \in AtWork \ {"begin"}
  BY <1>1 DEF AtWork
<1> QED
  BY <1>8, <1>9, <1>10, <1>11, IngestionMoves

LEMMA VerifyKeeps ==
  ASSUME IInv, NEW c \in Calls, Verify(c)
  PROVE  IInv'
<1> TypeOK
  BY DEF IInv
<1>1. calls[c].at = "verify" /\ calls[c] \in Ingesting /\ calls[c].sent \in Nat
  BY CallShapes DEF Verify, AtWork, Ingesting
<1>2. \A stage : [calls[c] EXCEPT !.at = stage] = [calls[c] EXCEPT !.at = stage, !.sent = calls[c].sent]
  BY <1>1 DEF Ingesting
<1>3. PICK stage \in {"complete", "compensate"} :
        At(c, stage) /\ (stage = "complete" => Confirmed(c))
  BY DEF Verify
<1>4. Goes(c, [calls[c] EXCEPT !.at = stage, !.sent = calls[c].sent])
  BY <1>2, <1>3 DEF At
<1>5. /\ UNCHANGED <<documents, index, left, retried, uploads, leaked>> /\ Quiet
      /\ left \subseteq Ids /\ index \subseteq Ids \X Nat
  BY DEF Verify, Keeps, TypeOK
<1>6. stage = "complete" => Records(calls[c].doc, Chunks[calls[c].mem.file]) \subseteq index'
  BY <1>3, <1>5 DEF Confirmed, Own, Size
<1>7. stage \in AtWork \ {"begin"} /\ calls[c].at \in AtWork \ {"begin"}
  BY <1>1 DEF AtWork
<1> QED
  BY <1>1, <1>3, <1>4, <1>5, <1>6, <1>7, IngestionMoves

\* What an ingestion has sent is a part of what the compensation removes.
LEMMA CompensateKeeps ==
  ASSUME IInv, NEW c \in Calls, Compensate(c)
  PROVE  IInv'
<1> TypeOK /\ WorkAgrees(c) /\ IndexAgrees
  BY DEF IInv
<1>1. calls[c].at = "compensate" /\ calls[c] \in Ingesting /\ calls[c].sent \in Nat
  BY CallShapes DEF Compensate, AtWork, Ingesting
<1>2. PICK d, n : d = calls[c].doc /\ n = Chunks[calls[c].mem.file]
  OBVIOUS
<1>3. d \in Ids /\ n \in Nat /\ n = Chunks[documents[d].file]
  BY <1>1, <1>2, KnowledgeAssumption DEF Ingesting, Row, WorkAgrees, AtWork
<1>4. PICK failed \in BOOLEAN : Removes(d, Records(d, n), failed)
  BY <1>2 DEF Compensate, Own, Size
<1>5. /\ index' \subseteq index /\ index' \subseteq Ids \X Nat
      /\ left \subseteq left' /\ left' \subseteq Ids
      /\ \A r \in index : r[1] # d => r \in index'
      /\ IF failed THEN d \in left' ELSE index' = index \ Records(d, n)
  BY <1>3, <1>4, RemovesShape
<1>6. \A r \in index : r[1] = d => r \in Records(d, n)
  <2>1. \A r \in index : r = <<r[1], r[2]>>
    BY DEF TypeOK
  <2> QED
    BY <1>3, <2>1 DEF IndexAgrees, Records
<1>7. d \in left' \/ \A r \in index' : r[1] # d
  BY <1>5, <1>6
<1>8. [calls[c] EXCEPT !.at = "fail"] = [calls[c] EXCEPT !.at = "fail", !.sent = calls[c].sent]
  BY <1>1 DEF Ingesting
<1>9. /\ Goes(c, [calls[c] EXCEPT !.at = "fail", !.sent = calls[c].sent])
      /\ UNCHANGED <<documents, retried, uploads, leaked>> /\ Quiet
  BY <1>8 DEF Compensate, At, Keeps
<1>10. "fail" \in AtWork \ {"begin"} /\ calls[c].at \in AtWork \ {"begin"}
  BY <1>1 DEF AtWork
<1> QED
  BY <1>1, <1>2, <1>5, <1>7, <1>9, <1>10, IngestionMoves

-----------------------------------------------------------------------------
(* Steps that commit a row.                                                *)

\* One row is written: its file and whom it replaces stay, and what is true of every
\* row is true of it.
LEMMA OneRowWritten ==
  ASSUME IInv, NEW d \in Rows, NEW w \in Row, documents' = [documents EXCEPT ![d] = w],
         w.file = documents[d].file, w.supersedes = documents[d].supersedes,
         documents[d].ingestion # "completed" => w.ingestion # "completed",
         documents[d].ingestion = "completed" => w.ingestion = "completed" /\ w.chunks = documents[d].chunks,
         w.is_active <=> w.status = "active",
         w.ingestion # "completed" => w.status \in {"draft", "deleted"} /\ w.chunks = 0,
         w.is_active => documents[d].is_active,
         documents[d].is_active => w.is_active \/ w.status = "deleted"
  PROVE  /\ DOMAIN documents' = Rows /\ DOMAIN documents' \subseteq Ids
         /\ documents' \in [DOMAIN documents' -> Row]
         /\ documents'[d] = w /\ \A e \in Rows : e # d => documents'[e] = documents[e]
         /\ RowsKept /\ \A e \in DOMAIN documents' : RowAgrees(e)'
         /\ retried \subseteq retried' => OneVersionActive'
         /\ NothingActivated
<1> TypeOK
  BY DEF IInv
<1>1. /\ DOMAIN documents' = Rows /\ DOMAIN documents' \subseteq Ids
      /\ documents' \in [DOMAIN documents' -> Row]
      /\ documents'[d] = w /\ \A e \in Rows : e # d => documents'[e] = documents[e]
  BY DEF TypeOK, Rows
<1>2. RowsKept
  BY <1>1 DEF RowsKept
<1>3. ASSUME NEW e \in Rows  PROVE RowAgrees(e)'
  <2>1. RowAgrees(e)
    BY DEF IInv
  <2>2. \A x \in Rows : documents[x].ingestion = "completed" => documents'[x].ingestion = "completed"
    BY <1>1
  <2>3. CASE e = d
    BY <1>1, <2>1, <2>2, <2>3 DEF RowAgrees, Rows
  <2>4. CASE e # d
    BY <1>1, <2>1, <2>2, <2>4 DEF RowAgrees, Rows
  <2> QED
    BY <2>3, <2>4
<1>4. retried \subseteq retried' => OneVersionActive'
  <2>1. \A e \in Rows : /\ documents'[e].is_active => documents[e].is_active
                        /\ documents'[e].supersedes = documents[e].supersedes
    BY <1>1
  <2>2. \A e \in Rows : documents[e].supersedes # NoDocument => documents[e].supersedes \in Rows
    BY DEF IInv, RowAgrees
  <2>3. OneVersionActive
    BY DEF IInv
  <2> QED
    BY <1>1, <2>1, <2>2, <2>3 DEF OneVersionActive, Rows
<1>5. NothingActivated
  BY <1>1, <1>2 DEF NothingActivated
<1> QED
  BY <1>1, <1>2, <1>3, <1>4, <1>5

\* The same rows, and no insertion that begins.
LEMMA RoomIsKept ==
  ASSUME IInv, NEW c \in Calls, NEW k \in Call, Goes(c, k), k.at \notin {"lock", "insert"},
         DOMAIN documents' = Rows
  PROVE  RoomKept'
<1>1. /\ TypeOK /\ RoomKept /\ calls'[c] = k /\ \A b \in Calls : b # c => calls'[b] = calls[b]
  BY DEF IInv, TypeOK, Goes
<1> QED
  BY <1>1, RoomStays DEF Rows

LEMMA BeginKeeps ==
  ASSUME IInv, NEW c \in Calls, Begin(c)
  PROVE  IInv' /\ NothingActivated
<1> TypeOK /\ WorkAgrees(c) /\ CallAgrees(c)
  BY DEF IInv
<1>1. calls[c].at = "begin" /\ calls[c] \in Ingesting
  BY CallShapes DEF Begin, AtWork
<1>2. PICK d, mem : d = calls[c].doc /\ mem = calls[c].mem
  OBVIOUS
<1>3. PICK new : new = Processing(mem)
  OBVIOUS
<1>4. mem \in Row /\ d \in Rows /\ d \in Ids /\ documents[d] \in Row /\ RowAgrees(d)
      /\ mem.ingestion = "pending" /\ documents[d].ingestion = "pending"
  BY <1>1, <1>2 DEF Ingesting, WorkAgrees, AtWork, TypeOK, IInv
<1>5. /\ new \in Row /\ new.ingestion = "processing" /\ new.file = mem.file /\ new.supersedes = mem.supersedes
      /\ new.status = mem.status /\ new.is_active = mem.is_active /\ new.chunks = mem.chunks
  <2>1. new \in Row /\ new = [mem EXCEPT !.ingestion = "processing"]
    BY <1>3, <1>4, NewRows
  <2> QED
    BY <1>4, <2>1 DEF Row
<1>6. PICK w : w = Written(documents[d], mem, new)
  OBVIOUS
<1>7. /\ w \in Row /\ w.file = documents[d].file /\ w.supersedes = documents[d].supersedes
      /\ w.status = documents[d].status /\ w.is_active = documents[d].is_active
      /\ w.chunks = documents[d].chunks /\ w.ingestion = "processing"
  BY <1>4, <1>5, <1>6, WrittenShape
<1>8. documents' = [documents EXCEPT ![d] = w]
  BY <1>2, <1>3, <1>6 DEF Begin
<1>9. /\ DOMAIN documents' = Rows /\ DOMAIN documents' \subseteq Ids
      /\ documents' \in [DOMAIN documents' -> Row]
      /\ documents'[d] = w /\ \A e \in Rows : e # d => documents'[e] = documents[e]
      /\ RowsKept /\ \A e \in DOMAIN documents' : RowAgrees(e)'
      /\ retried \subseteq retried' => OneVersionActive'
      /\ NothingActivated
  BY <1>4, <1>7, <1>8, OneRowWritten DEF RowAgrees
<1>10. PICK stage \in {"upsert", "fail"} : Goes(c, [calls[c] EXCEPT !.at = stage, !.mem = new])
  BY <1>2, <1>3 DEF Begin
<1>11. PICK k : k = [calls[c] EXCEPT !.at = stage, !.mem = new]
  OBVIOUS
<1>12. /\ k \in Ingesting /\ k.at = stage /\ k.doc = d /\ k.mem = new
       /\ k.previous = calls[c].previous /\ k.old = calls[c].old
  BY <1>1, <1>2, <1>5, <1>11 DEF Ingesting
<1>13. /\ k \in Call /\ calls' = [calls EXCEPT ![c] = k] /\ calls'[c] = k /\ Goes(c, k)
       /\ k.at \notin {"lock", "insert", "idle"}
  BY <1>10, <1>11, <1>12 DEF Call, Goes, TypeOK
<1>14. /\ UNCHANGED <<index, left, leaked, made, restarts, retried, uploads>>
  BY DEF Begin, Keeps, Quiet
<1>15. RoomKept'
  BY <1>9, <1>13, RoomIsKept
<1>16. Works(c) = {d} /\ Works(c)' = {d}
  BY <1>1, <1>2, <1>12, <1>13 DEF Works
<1>17. WorkAgrees(c)'
  BY <1>1, <1>2, <1>4, <1>5, <1>7, <1>9, <1>12, <1>13, <1>14 DEF WorkAgrees, AtWork, NothingIn, Rows
<1>18. CallAgrees(c)'
  BY <1>1, <1>9, <1>12, <1>13 DEF CallAgrees, AtWork, RowsKept, Rows
<1>19. \A b \in Calls : b # c =>
         /\ \A e \in Works(b) : documents'[e].ingestion = documents[e].ingestion
         /\ Works(c)' \cap Works(b) = {}
  BY <1>9, <1>16, NotWorkedOn DEF IInv, OneIngestion
<1>20. \A e \in DOMAIN documents' : documents'[e].ingestion \in {"pending", "processing"} =>
         e \in Works(c)' \/ (e \in Rows /\ documents[e].ingestion \in {"pending", "processing"}
                              /\ e \notin Works(c))
  BY <1>9, <1>16
<1>21. \A e \in DOMAIN documents' : documents'[e].ingestion = "failed" =>
         (e \in Rows /\ documents[e].ingestion = "failed") \/ e \in left \/ NothingIn(e)
  BY <1>7, <1>9
<1>22. retried' \subseteq Ids
  BY <1>14 DEF TypeOK
<1> QED
  BY <1>9, <1>13, <1>14, <1>15, <1>17, <1>18, <1>19, <1>20, <1>21, <1>22, IndexStaysKeeps

\* A call that ends with the commit of one row, which it did not read before the index
\* was called: the columns it does not change are the row's.
LEMMA FailKeeps ==
  ASSUME IInv, NEW c \in Calls, Fail(c)
  PROVE  IInv' /\ NothingActivated
<1> TypeOK /\ WorkAgrees(c) /\ CallAgrees(c)
  BY DEF IInv
<1>1. calls[c].at = "fail" /\ calls[c] \in Ingesting
  BY CallShapes DEF Fail, AtWork
<1>2. PICK d, mem : d = calls[c].doc /\ mem = calls[c].mem
  OBVIOUS
<1>3. PICK new : new = Failed(mem)
  OBVIOUS
<1>4. /\ mem \in Row /\ d \in Rows /\ d \in Ids /\ documents[d] \in Row /\ RowAgrees(d)
      /\ mem.ingestion = "processing" /\ documents[d].ingestion = "processing"
      /\ ~mem.is_active /\ mem.is_active \in BOOLEAN
      /\ d \in left \/ NothingIn(d)
  BY <1>1, <1>2 DEF Ingesting, WorkAgrees, AtWork, TypeOK, IInv, Row
<1>5. /\ new \in Row /\ new.ingestion = "failed" /\ new.file = mem.file /\ new.supersedes = mem.supersedes
      /\ new.status = "draft" /\ new.is_active = mem.is_active /\ new.chunks = mem.chunks
  <2>1. new \in Row /\ new = [mem EXCEPT !.status = "draft", !.is_active = FALSE, !.ingestion = "failed"]
    <3>1. new \in Row
      BY <1>3, <1>4, NewRows
    <3> QED
      BY <1>3, <3>1 DEF Failed
  <2>2. mem.is_active = FALSE
    BY <1>4
  <2> QED
    BY <1>4, <2>1, <2>2 DEF Row
<1>6. PICK w : w = Written(documents[d], mem, new)
  OBVIOUS
<1>7. /\ w \in Row /\ w.file = documents[d].file /\ w.supersedes = documents[d].supersedes
      /\ w.status \in {documents[d].status, "draft"} /\ w.is_active = documents[d].is_active
      /\ w.chunks = documents[d].chunks /\ w.ingestion = "failed"
  BY <1>4, <1>5, <1>6, WrittenShape
<1>8. documents' = [documents EXCEPT ![d] = w]
  BY <1>2, <1>3, <1>6 DEF Fail
<1>9. documents[d].status \in {"draft", "deleted"} /\ ~documents[d].is_active /\ documents[d].chunks = 0
  BY <1>4 DEF RowAgrees
<1>10. /\ DOMAIN documents' = Rows /\ DOMAIN documents' \subseteq Ids
       /\ documents' \in [DOMAIN documents' -> Row]
       /\ documents'[d] = w /\ \A e \in Rows : e # d => documents'[e] = documents[e]
       /\ RowsKept /\ \A e \in DOMAIN documents' : RowAgrees(e)'
       /\ retried \subseteq retried' => OneVersionActive'
       /\ NothingActivated
  BY <1>4, <1>7, <1>8, <1>9, OneRowWritten
<1>11. /\ Goes(c, Idle) /\ uploads' \subseteq uploads /\ c \notin uploads'
       /\ UNCHANGED <<index, left, leaked, made, restarts, retried>>
  BY DEF Fail, Ends, Quiet
<1>12. Idle \in Call /\ Idle.at = "idle" /\ CallAgrees(c)'
  BY <1>11, IdleAgrees
<1>13. calls' = [calls EXCEPT ![c] = Idle] /\ calls'[c] = Idle
  BY <1>11 DEF Goes, TypeOK
<1>14. RoomKept'
  BY <1>10, <1>11, <1>12, RoomIsKept
<1>15. Works(c) = {d} /\ Works(c)' = {}
  BY <1>1, <1>2, <1>12, <1>13 DEF Works
<1>16. WorkAgrees(c)'
  BY <1>12, <1>13 DEF WorkAgrees, AtWork
<1>17. \A b \in Calls : b # c =>
         /\ \A e \in Works(b) : documents'[e].ingestion = documents[e].ingestion
         /\ Works(c)' \cap Works(b) = {}
  BY <1>10, <1>15, NotWorkedOn DEF IInv, OneIngestion
<1>18. \A e \in DOMAIN documents' : documents'[e].ingestion \in {"pending", "processing"} =>
         e \in Works(c)' \/ (e \in Rows /\ documents[e].ingestion \in {"pending", "processing"}
                              /\ e \notin Works(c))
  BY <1>7, <1>10, <1>15
<1>19. \A e \in DOMAIN documents' : documents'[e].ingestion = "failed" =>
         (e \in Rows /\ documents[e].ingestion = "failed") \/ e \in left \/ NothingIn(e)
  BY <1>4, <1>10
<1>20. retried' \subseteq Ids
  BY <1>11 DEF TypeOK
<1> QED
  BY <1>10, <1>11, <1>12, <1>13, <1>14, <1>16, <1>17, <1>18, <1>19, <1>20, IndexStaysKeeps

\* A deletion leaves the ingestion of the row alone.
LEMMA MarkDeletedKeeps ==
  ASSUME IInv, NEW c \in Calls, MarkDeleted(c)
  PROVE  IInv' /\ NothingActivated
<1> TypeOK /\ CallAgrees(c)
  BY DEF IInv
<1>1. calls[c].at = "mark"
  BY DEF MarkDeleted
<1>2. PICK d : d = calls[c].doc
  OBVIOUS
<1>3. d \in Rows /\ d \in Ids /\ documents[d] \in Row /\ RowAgrees(d)
  BY <1>1, <1>2 DEF CallAgrees, TypeOK, IInv
<1>4. PICK w : w = IF documents[d].status = "deleted" THEN documents[d] ELSE Deleted(documents[d])
  OBVIOUS
<1>5. /\ w \in Row /\ w.file = documents[d].file /\ w.supersedes = documents[d].supersedes
      /\ w.status = "deleted" /\ ~w.is_active
      /\ w.chunks = documents[d].chunks /\ w.ingestion = documents[d].ingestion
  <2>1. CASE documents[d].status = "deleted"
    BY <1>3, <1>4, <2>1 DEF RowAgrees
  <2>2. CASE documents[d].status # "deleted"
    <3>1. w \in Row
      BY <1>3, <1>4, <2>2, NewRows
    <3>2. w = [documents[d] EXCEPT !.status = "deleted", !.is_active = FALSE]
      BY <1>4, <2>2 DEF Deleted
    <3> QED
      BY <1>3, <3>1, <3>2 DEF Row
  <2> QED
    BY <2>1, <2>2
<1>6. documents' = [documents EXCEPT ![d] = w]
  BY <1>2, <1>4 DEF MarkDeleted
<1>7. /\ DOMAIN documents' = Rows /\ DOMAIN documents' \subseteq Ids
      /\ documents' \in [DOMAIN documents' -> Row]
      /\ documents'[d] = w /\ \A e \in Rows : e # d => documents'[e] = documents[e]
      /\ RowsKept /\ \A e \in DOMAIN documents' : RowAgrees(e)'
      /\ retried \subseteq retried' => OneVersionActive'
      /\ NothingActivated
  BY <1>3, <1>5, <1>6, OneRowWritten DEF RowAgrees
<1>8. /\ Goes(c, Idle) /\ uploads' \subseteq uploads /\ c \notin uploads'
      /\ UNCHANGED <<index, left, leaked, made, restarts, retried>>
  BY DEF MarkDeleted, Ends, Quiet
<1>9. Idle \in Call /\ Idle.at = "idle" /\ CallAgrees(c)'
  BY <1>8, IdleAgrees
<1>10. calls' = [calls EXCEPT ![c] = Idle] /\ calls'[c] = Idle
  BY <1>8 DEF Goes, TypeOK
<1>11. RoomKept'
  BY <1>7, <1>8, <1>9, RoomIsKept
<1>12. Works(c) = {} /\ Works(c)' = {}
  BY <1>1, <1>9, <1>10 DEF Works
<1>13. WorkAgrees(c)'
  BY <1>9, <1>10 DEF WorkAgrees, AtWork
<1>14. \A e \in Rows : documents'[e].ingestion = documents[e].ingestion
  BY <1>5, <1>7
<1>15. \A b \in Calls : b # c =>
         /\ \A e \in Works(b) : documents'[e].ingestion = documents[e].ingestion
         /\ Works(c)' \cap Works(b) = {}
  BY <1>12, <1>14, NotWorkedOn
<1>16. retried' \subseteq Ids
  BY <1>8 DEF TypeOK
<1> QED
  BY <1>7, <1>8, <1>9, <1>10, <1>11, <1>12, <1>13, <1>14, <1>15, <1>16, IndexStaysKeeps

\* A retry goes on only with a document that is failed still: it is nobody's work, and
\* its failure left nothing in the index.
LEMMA RetryAgainKeeps ==
  ASSUME IInv, NEW c \in Calls, RetryAgain(c)
  PROVE  IInv' /\ NothingActivated
<1> TypeOK /\ CallAgrees(c)
  BY DEF IInv
<1>1. calls[c].at = "retry_again" /\ Quiet /\ UNCHANGED <<index, left>>
  BY DEF RetryAgain
<1>2. PICK d, mem : d = calls[c].doc /\ mem = documents[d]
  OBVIOUS
<1>3. CASE ~StillFailed(d)
  <2>1. Ends(c) /\ UNCHANGED <<documents, retried>>
    BY <1>2, <1>3 DEF RetryAgain
  <2> QED
    BY <1>1, <2>1, IdleAgrees, QuietKeeps, UnchangedRows DEF Ends, AtWork
<1>4. CASE StillFailed(d)
  <2>1. d \in Rows /\ d \in Ids /\ mem \in Row /\ RowAgrees(d) /\ mem.ingestion = "failed"
    BY <1>1, <1>2, <1>4 DEF CallAgrees, IInv, TypeOK, StillFailed
  <2>2. mem.status \in {"draft", "deleted"} /\ ~mem.is_active /\ mem.chunks = 0
    BY <1>2, <2>1 DEF RowAgrees
  <2>3. d \in left \/ NothingIn(d)
    BY <1>2, <2>1 DEF IInv, FailureLeavesNothing, NothingIn
  <2>4. PICK w : w = Processing(mem)
    OBVIOUS
  <2>5. /\ w \in Row /\ w.ingestion = "processing" /\ w.file = mem.file /\ w.supersedes = mem.supersedes
        /\ w.status = mem.status /\ w.is_active = mem.is_active /\ w.chunks = mem.chunks
    <3>1. w \in Row /\ w = [mem EXCEPT !.ingestion = "processing"]
      BY <2>1, <2>4, NewRows
    <3> QED
      BY <2>1, <3>1 DEF Row
  <2>6. documents' = [documents EXCEPT ![d] = w] /\ retried' = retried \cup {d}
        /\ UNCHANGED <<uploads, leaked>>
    BY <1>2, <1>4, <2>4 DEF RetryAgain, Keeps
  <2>7. /\ DOMAIN documents' = Rows /\ DOMAIN documents' \subseteq Ids
        /\ documents' \in [DOMAIN documents' -> Row]
        /\ documents'[d] = w /\ \A e \in Rows : e # d => documents'[e] = documents[e]
        /\ RowsKept /\ \A e \in DOMAIN documents' : RowAgrees(e)'
        /\ retried \subseteq retried' => OneVersionActive'
        /\ NothingActivated
    <3>1. ~w.is_active /\ w.status \in {"draft", "deleted"} /\ w.chunks = 0
      BY <2>2, <2>5
    <3>2. /\ documents[d].ingestion # "completed" /\ w.ingestion # "completed"
          /\ w.file = documents[d].file /\ w.supersedes = documents[d].supersedes
          /\ ~documents[d].is_active
      BY <1>2, <2>1, <2>2, <2>5
    <3>3. w.is_active <=> w.status = "active"
      BY <3>1
    <3> QED
      BY <2>1, <2>5, <2>6, <3>1, <3>2, <3>3, OneRowWritten
  <2>8. PICK stage \in {"upsert", "fail"} : Goes(c, Ingests(stage, d, w, NoDocument, mem))
    BY <1>2, <1>4, <2>4 DEF RetryAgain
  <2>9. PICK k : k = Ingests(stage, d, w, NoDocument, mem)
    OBVIOUS
  <2>10. k \in Ingesting /\ k.at = stage /\ k.doc = d /\ k.mem = w /\ k.previous = NoDocument
    BY <2>1, <2>5, <2>9 DEF Ingesting, Ingests
  <2>11. /\ k \in Call /\ calls' = [calls EXCEPT ![c] = k] /\ calls'[c] = k /\ Goes(c, k)
         /\ k.at \notin {"lock", "insert", "idle"}
    BY <2>8, <2>9, <2>10 DEF Call, Goes, TypeOK
  <2>12. UNCHANGED <<index, left, leaked, made, restarts>> /\ uploads' \subseteq uploads
         /\ retried \subseteq retried' /\ retried' \subseteq Ids
    BY <1>1, <2>1, <2>6 DEF Quiet, TypeOK
  <2>13. RoomKept'
    BY <2>7, <2>11, RoomIsKept
  <2>14. Works(c) = {} /\ Works(c)' = {d}
    BY <1>1, <2>10, <2>11 DEF Works
  <2>15. WorkAgrees(c)'
    BY <1>2, <2>2, <2>3, <2>5, <2>6, <2>7, <2>10, <2>11, <2>12 DEF WorkAgrees, AtWork, NothingIn, Rows
  <2>16. CallAgrees(c)'
    BY <2>10, <2>11 DEF CallAgrees, AtWork
  <2>17. \A b \in Calls : d \notin Works(b)
    BY <1>2, <2>1, NotWorkedOn
  <2>18. \A b \in Calls : b # c =>
           /\ \A e \in Works(b) : documents'[e].ingestion = documents[e].ingestion
           /\ Works(c)' \cap Works(b) = {}
    BY <2>7, <2>14, <2>17, NotWorkedOn
  <2>19. \A e \in DOMAIN documents' : documents'[e].ingestion \in {"pending", "processing"} =>
           e \in Works(c)' \/ (e \in Rows /\ documents[e].ingestion \in {"pending", "processing"}
                                /\ e \notin Works(c))
    BY <2>7, <2>14
  <2>20. \A e \in DOMAIN documents' : documents'[e].ingestion = "failed" =>
           (e \in Rows /\ documents[e].ingestion = "failed") \/ e \in left \/ NothingIn(e)
    BY <2>5, <2>7
  <2> QED
    BY <2>7, <2>11, <2>12, <2>13, <2>15, <2>16, <2>18, <2>19, <2>20, IndexStaysKeeps
<1> QED
  BY <1>3, <1>4

\* The new row takes the next number, which the bound on insertions kept free.
LEMMA NextNumber ==
  ASSUME IInv, NEW c \in Calls, calls[c].at \in {"lock", "insert"}, NEW id, id = Cardinality(Rows) + 1
  PROVE  /\ id \in Ids /\ id \notin Rows /\ Rows \cup {id} = 1..id
         /\ Cardinality(Rows \cup {id}) = id
         /\ id + Cardinality(Inserting \ {c}) <= MaxDocuments
<1>1. IsFiniteSet(Calls) /\ MaxDocuments \in Nat
  BY KnowledgeAssumption
<1>2. TypeOK /\ RoomKept
  BY DEF IInv
<1>3. IsFiniteSet(Rows)
  <2>1. 1 \in Int /\ MaxDocuments \in Int
    BY <1>1
  <2>2. IsFiniteSet(Ids)
    BY <2>1, FS_Interval DEF Ids
  <2> QED
    BY <1>2, <2>2, FS_Subset DEF TypeOK
<1>4. PICK n \in Nat : n = Cardinality(Rows)
  BY <1>3, FS_CardinalityType
<1>5. Rows = 1..n /\ id = n + 1
  BY <1>2, <1>4 DEF RoomKept
<1>6. id \notin Rows /\ Rows \cup {id} = 1..id
  BY <1>5
<1>7. Cardinality(Rows \cup {id}) = id
  BY <1>3, <1>4, <1>5, <1>6, FS_AddElement
<1>8. c \in Inserting /\ IsFiniteSet(Inserting)
  <2>1. Inserting \subseteq Calls
    BY DEF Inserting
  <2> QED
    BY <1>1, <2>1, FS_Subset DEF Inserting
<1>9. PICK m \in Nat : m = Cardinality(Inserting \ {c})
  BY <1>8, FS_RemoveElement, FS_CardinalityType
<1>10. Cardinality(Inserting) = m + 1
  <2>1. Cardinality(Inserting) \in Nat /\ Cardinality(Inserting \ {c}) = Cardinality(Inserting) - 1
    BY <1>8, FS_RemoveElement, FS_CardinalityType
  <2> QED
    BY <1>9, <2>1
<1>11. n + (m + 1) <= MaxDocuments
  BY <1>2, <1>4, <1>10 DEF RoomKept
<1> QED
  BY <1>1, <1>4, <1>5, <1>6, <1>7, <1>9, <1>11 DEF Ids

LEMMA InsertKeeps ==
  ASSUME IInv, NEW c \in Calls, Insert(c)
  PROVE  IInv' /\ NothingActivated
<1> TypeOK /\ CallAgrees(c)
  BY DEF IInv
<1>1. calls[c].at = "insert" /\ Quiet /\ UNCHANGED <<index, retried, left>>
  BY DEF Insert
<1>2. CASE Ends(c) /\ UNCHANGED documents
  BY <1>1, <1>2, IdleAgrees, QuietKeeps, UnchangedRows DEF Ends, AtWork
<1>3. CASE ~(Ends(c) /\ UNCHANGED documents)
  <2>1. PICK p, row, id : /\ p = calls[c].previous /\ id = Cardinality(Rows) + 1
                          /\ row = Pending(calls[c].file, calls[c].version, p)
    OBVIOUS
  <2>2. PICK old : old = IF p = NoDocument THEN row ELSE calls[c].old
    OBVIOUS
  <2>3. /\ documents' = [d \in Rows \cup {id} |-> IF d = id THEN row ELSE documents[d]]
        /\ Goes(c, Ingests("begin", id, row, p, old)) /\ UNCHANGED <<uploads, leaked>>
    BY <1>3, <2>1, <2>2 DEF Insert, Keeps
  <2>4. /\ p \in Ids \cup {NoDocument} /\ calls[c].file \in Files /\ calls[c].version \in Nat \ {0}
        /\ p # NoDocument => calls[c].old \in Row
    <3>1. CASE calls[c] \in Creating
      BY <2>1, <3>1 DEF Creating
    <3>2. CASE calls[c] \in Replacing
      BY <2>1, <3>2 DEF Replacing
    <3> QED
      BY <1>1, <3>1, <3>2, CallShapes
  <2>5. /\ row \in Row /\ row.supersedes = p /\ row.status = "draft" /\ row.is_active = FALSE
        /\ row.ingestion = "pending" /\ row.chunks = 0
    BY <2>1, <2>4 DEF Pending, Row, KnowledgeDocumentStatus, KnowledgeIngestionStatus
  <2>6. old \in Row
    BY <2>2, <2>4, <2>5
  <2>7. /\ id \in Ids /\ id \notin Rows /\ Rows \cup {id} = 1..id /\ Cardinality(Rows \cup {id}) = id
        /\ id + Cardinality(Inserting \ {c}) <= MaxDocuments
    BY <1>1, <2>1, NextNumber
  <2>8. /\ DOMAIN documents' = Rows \cup {id} /\ DOMAIN documents' \subseteq Ids
        /\ documents' \in [DOMAIN documents' -> Row]
        /\ documents'[id] = row /\ \A e \in Rows : documents'[e] = documents[e]
    BY <2>3, <2>5, <2>7 DEF TypeOK
  <2>9. RowsKept
    BY <2>8 DEF RowsKept
  <2>10. PICK k : k = Ingests("begin", id, row, p, old)
    OBVIOUS
  <2>11. /\ k \in Ingesting /\ k.at = "begin" /\ k.doc = id /\ k.mem = row /\ k.previous = p /\ k.old = old
    BY <2>4, <2>5, <2>6, <2>7, <2>10 DEF Ingesting, Ingests
  <2>12. /\ k \in Call /\ calls' = [calls EXCEPT ![c] = k] /\ calls'[c] = k
         /\ \A b \in Calls : b # c => calls'[b] = calls[b]
    BY <2>3, <2>10, <2>11 DEF Call, Goes, TypeOK
  <2>13. UNCHANGED <<index, left, leaked, made, restarts>> /\ uploads' \subseteq uploads
         /\ retried \subseteq retried' /\ retried' \subseteq Ids
    BY <1>1, <2>3 DEF Quiet, TypeOK
  <2>14. RoomKept'
    <3>1. Inserting' = Inserting \ {c}
      BY <2>11, <2>12 DEF Inserting
    <3> QED
      BY <2>7, <2>8, <3>1 DEF RoomKept, Rows
  <2>15. p # NoDocument => /\ p \in Rows /\ documents[p].ingestion = "completed"
                           /\ calls[c].old.status = "active" /\ calls[c].old.is_active
    BY <1>1, <2>1 DEF CallAgrees
  <2>16. ASSUME NEW e \in DOMAIN documents'  PROVE RowAgrees(e)'
    <3>1. CASE e = id
      BY <2>5, <2>7, <2>8, <2>15, <3>1 DEF RowAgrees, Rows
    <3>2. CASE e # id
      <4>1. e \in Rows /\ RowAgrees(e)
        BY <2>8, <3>2 DEF IInv
      <4> QED
        BY <2>8, <4>1 DEF RowAgrees, Rows
    <3> QED
      BY <3>1, <3>2
  <2>17. Works(c) = {} /\ Works(c)' = {id}
    BY <1>1, <2>11, <2>12 DEF Works
  <2>18. OneVersionActive'
    <3>1. \A e \in Rows : documents[e].supersedes # NoDocument => documents[e].supersedes \in Rows
      BY DEF IInv, RowAgrees
    <3>2. OneVersionActive
      BY DEF IInv
    <3> QED
      BY <2>5, <2>8, <2>13, <3>1, <3>2 DEF OneVersionActive, Rows
  <2>19. NothingIn(id)
    BY <2>7 DEF IInv, IndexAgrees, NothingIn
  <2>20. WorkAgrees(c)'
    BY <1>1, <2>5, <2>8, <2>11, <2>12, <2>13, <2>19 DEF WorkAgrees, AtWork, NothingIn, Rows
  <2>21. CallAgrees(c)'
    BY <2>2, <2>8, <2>11, <2>12, <2>15 DEF CallAgrees, AtWork, Rows
  <2>22. \A b \in Calls : b # c =>
           /\ \A e \in Works(b) : documents'[e].ingestion = documents[e].ingestion
           /\ Works(c)' \cap Works(b) = {}
    BY <2>7, <2>8, <2>17, NotWorkedOn
  <2>23. \A e \in DOMAIN documents' : documents'[e].ingestion \in {"pending", "processing"} =>
           e \in Works(c)' \/ (e \in Rows /\ documents[e].ingestion \in {"pending", "processing"}
                                /\ e \notin Works(c))
    BY <2>8, <2>17
  <2>24. \A e \in DOMAIN documents' : documents'[e].ingestion = "failed" =>
           (e \in Rows /\ documents[e].ingestion = "failed") \/ e \in left \/ NothingIn(e)
    BY <2>5, <2>8
  <2>25. k.at # "idle"
    BY <2>11
  <2>26. NothingActivated
    BY <2>5, <2>8, <2>9 DEF NothingActivated
  <2> QED
    BY <2>8, <2>9, <2>12, <2>13, <2>14, <2>16, <2>18, <2>20, <2>21, <2>22, <2>23, <2>24, <2>25, <2>26, IndexStaysKeeps
<1> QED
  BY <1>2, <1>3

\* One commit activates a document and retires the one it replaces: the columns
\* that the two sessions' copies change are the ones that had to change.
LEMMA ActivatedShape ==
  ASSUME IInv, NEW c \in Calls, Complete(c), NEW d, d = calls[c].doc, NEW p, p = calls[c].previous
  PROVE  /\ d \in Rows /\ documents[d].ingestion = "processing"
         /\ DOMAIN documents' = Rows /\ documents' \in [DOMAIN documents' -> Row]
         /\ documents'[d].file = documents[d].file
         /\ documents'[d].supersedes = documents[d].supersedes
         /\ documents'[d].status = "active" /\ documents'[d].is_active
         /\ documents'[d].ingestion = "completed"
         /\ documents'[d].chunks = Chunks[documents[d].file]
         /\ Records(d, Chunks[documents[d].file]) \subseteq index
         /\ p # NoDocument =>
              /\ p \in Rows \ {d} /\ documents[p].ingestion = "completed" /\ documents[d].supersedes = p
              /\ documents'[p].file = documents[p].file /\ documents'[p].supersedes = documents[p].supersedes
              /\ documents'[p].status = "superseded" /\ ~documents'[p].is_active
              /\ documents'[p].ingestion = "completed" /\ documents'[p].chunks = documents[p].chunks
         /\ p = NoDocument => documents[d].supersedes = NoDocument \/ d \in retried
         /\ \A e \in Rows : e # d /\ e # p => documents'[e] = documents[e]
<1> TypeOK /\ WorkAgrees(c) /\ CallAgrees(c)
  BY DEF IInv
<1>1. calls[c].at = "complete" /\ calls[c] \in Ingesting
  BY CallShapes DEF Complete, AtWork
<1>2. PICK mem, old, n : mem = calls[c].mem /\ old = calls[c].old /\ n = Chunks[calls[c].mem.file]
  OBVIOUS
<1>3. /\ mem \in Row /\ old \in Row /\ d \in Rows /\ documents[d] \in Row
      /\ p \in Ids \cup {NoDocument} /\ NoDocument \notin Rows
  BY <1>1, <1>2 DEF Ingesting, WorkAgrees, AtWork, TypeOK, Ids, NoDocument
<1>4. /\ mem.file = documents[d].file /\ mem.chunks = 0 /\ mem.is_active = FALSE
      /\ mem.status \in {"draft", "deleted"} /\ mem.ingestion = "processing"
      /\ documents[d].ingestion = "processing" /\ Records(d, n) \subseteq index
      /\ IF p = NoDocument THEN documents[d].supersedes = NoDocument \/ d \in retried
                           ELSE documents[d].supersedes = p
  <2>1. mem.is_active \in BOOLEAN
    BY <1>3, RowShapes
  <2> QED
    BY <1>1, <1>2, <2>1 DEF WorkAgrees, AtWork
<1>5. n \in Nat \ {0} /\ n = Chunks[documents[d].file]
  BY <1>2, <1>3, <1>4, RowShapes, KnowledgeAssumption
<1>6. PICK new, w : new = Completed(mem, n) /\ w = Written(documents[d], mem, new)
  OBVIOUS
<1>7. /\ new \in Row /\ new.file = mem.file /\ new.supersedes = mem.supersedes /\ new.status = "active"
      /\ new.is_active = TRUE /\ new.ingestion = "completed" /\ new.chunks = n
  <2>1. new \in Row
    BY <1>3, <1>5, <1>6, NewRows
  <2>2. new = [mem EXCEPT !.status = "active", !.is_active = TRUE, !.ingestion = "completed", !.chunks = n]
    BY <1>6 DEF Completed
  <2> QED
    BY <1>3, <2>1, <2>2 DEF Row
<1>8. /\ w \in Row /\ w.file = documents[d].file /\ w.supersedes = documents[d].supersedes
      /\ w.status = "active" /\ w.is_active /\ w.ingestion = "completed" /\ w.chunks = n
  <2>1. /\ w \in Row /\ w.file = documents[d].file /\ w.supersedes = documents[d].supersedes
        /\ w.status = "active" /\ w.is_active = TRUE
    BY <1>3, <1>4, <1>6, <1>7, WrittenShape
  <2>2. /\ w.ingestion = IF new.ingestion = mem.ingestion THEN documents[d].ingestion ELSE new.ingestion
        /\ w.chunks = IF new.chunks = mem.chunks THEN documents[d].chunks ELSE new.chunks
    BY <1>3, <1>6, <1>7, WrittenShape
  <2>3. w.ingestion = "completed" /\ w.chunks = n
    BY <1>4, <1>5, <1>7, <2>2
  <2> QED
    BY <2>1, <2>3
<1>9. PICK gone, v : gone = Superseded(old) /\ v = Written(documents[p], old, gone)
  OBVIOUS
<1>10. p # NoDocument =>
         /\ p \in Rows \ {d} /\ documents[p].ingestion = "completed" /\ documents[p] \in Row
         /\ old.status = "active" /\ old.is_active
  BY <1>1, <1>2, <1>4 DEF CallAgrees, AtWork, TypeOK
<1>11. p # NoDocument =>
         /\ v \in Row /\ v.file = documents[p].file /\ v.supersedes = documents[p].supersedes
         /\ v.status = "superseded" /\ ~v.is_active /\ v.ingestion = "completed"
         /\ v.chunks = documents[p].chunks
  <2>1. SUFFICES ASSUME p # NoDocument
        PROVE  /\ v \in Row /\ v.file = documents[p].file /\ v.supersedes = documents[p].supersedes
               /\ v.status = "superseded" /\ ~v.is_active /\ v.ingestion = "completed"
               /\ v.chunks = documents[p].chunks
    OBVIOUS
  <2>2. gone \in Row
    BY <1>3, <1>9, NewRows
  <2>3. /\ gone.file = old.file /\ gone.supersedes = old.supersedes /\ gone.status = "superseded"
        /\ gone.is_active = FALSE /\ gone.ingestion = old.ingestion /\ gone.chunks = old.chunks
    <3>1. gone = [old EXCEPT !.status = "superseded", !.is_active = FALSE]
      BY <1>9 DEF Superseded
    <3> QED
      BY <1>3, <2>2, <3>1 DEF Row
  <2> QED
    BY <1>3, <1>9, <1>10, <2>1, <2>2, <2>3, WrittenShape
<1>12. documents' = [x \in Rows |-> IF x = d THEN w ELSE IF x = p THEN v ELSE documents[x]]
  BY <1>2, <1>6, <1>9 DEF Complete, Activated, Size
<1>13. DOMAIN documents' = Rows /\ documents' \in [DOMAIN documents' -> Row]
  BY <1>3, <1>8, <1>11, <1>12 DEF TypeOK
<1>14. documents'[d] = w /\ (p # NoDocument => documents'[p] = v)
       /\ \A e \in Rows : e # d /\ e # p => documents'[e] = documents[e]
  BY <1>3, <1>10, <1>12
<1> QED
  BY <1>3, <1>4, <1>5, <1>8, <1>10, <1>11, <1>13, <1>14

LEMMA CompleteKeeps ==
  ASSUME IInv, NEW c \in Calls, Complete(c)
  PROVE  IInv'
<1> TypeOK
  BY DEF IInv
<1>1. calls[c].at = "complete" /\ calls[c] \in Ingesting /\ UNCHANGED <<index, retried, left, made, restarts>>
  BY CallShapes DEF Complete, AtWork, Quiet
<1>2. PICK d, p : d = calls[c].doc /\ p = calls[c].previous
  OBVIOUS
<1>3. /\ d \in Rows /\ documents[d].ingestion = "processing"
      /\ DOMAIN documents' = Rows /\ documents' \in [DOMAIN documents' -> Row]
      /\ documents'[d].file = documents[d].file
      /\ documents'[d].supersedes = documents[d].supersedes
      /\ documents'[d].status = "active" /\ documents'[d].is_active
      /\ documents'[d].ingestion = "completed"
      /\ documents'[d].chunks = Chunks[documents[d].file]
  BY <1>2, ActivatedShape
<1>4. p # NoDocument =>
        /\ p \in Rows \ {d} /\ documents[p].ingestion = "completed" /\ documents[d].supersedes = p
        /\ documents'[p].file = documents[p].file /\ documents'[p].supersedes = documents[p].supersedes
        /\ documents'[p].status = "superseded" /\ ~documents'[p].is_active
        /\ documents'[p].ingestion = "completed" /\ documents'[p].chunks = documents[p].chunks
  BY <1>2, ActivatedShape
<1>5. p = NoDocument => documents[d].supersedes = NoDocument \/ d \in retried
  BY <1>2, ActivatedShape
<1>6. NoDocument \notin Rows /\ \A e \in Rows : e # d /\ e # p => documents'[e] = documents[e]
  BY <1>2, ActivatedShape DEF TypeOK, Ids, NoDocument
<1>7. \A e \in Rows : /\ documents'[e].file = documents[e].file
                      /\ documents'[e].supersedes = documents[e].supersedes
                      /\ e # d => documents'[e].ingestion = documents[e].ingestion
                      /\ documents[e].ingestion = "completed" => documents'[e].ingestion = "completed"
  BY <1>3, <1>4, <1>6
<1>8. RowsKept
  BY <1>3, <1>7 DEF RowsKept
<1>9. ASSUME NEW e \in Rows  PROVE RowAgrees(e)'
  <2>1. RowAgrees(e)
    BY DEF IInv
  <2>2. CASE e = d
    BY <1>3, <1>7, <2>1, <2>2 DEF RowAgrees, Rows
  <2>3. CASE e # d /\ e = p
    BY <1>3, <1>4, <1>6, <1>7, <2>1, <2>3 DEF RowAgrees, Rows
  <2>4. CASE e # d /\ e # p
    BY <1>3, <1>6, <1>7, <2>1, <2>4 DEF RowAgrees, Rows
  <2> QED
    BY <2>2, <2>3, <2>4
<1>10. OneVersionActive'
  <2>1. ASSUME NEW e \in Rows, NEW s, s = documents[e].supersedes, s # NoDocument,
               documents'[e].is_active, documents'[s].is_active
        PROVE  e \in retried
    <3>1. s \in Rows \ {e} /\ documents[s].ingestion = "completed"
      BY <2>1 DEF IInv, RowAgrees
    <3>2. CASE e = d
      BY <1>4, <1>5, <2>1, <3>2
    <3>3. CASE e # d
      <4>1. s # d /\ e # p /\ s # p
        BY <1>3, <1>4, <2>1, <3>1, <1>6
      <4>2. documents[e].is_active /\ documents[s].is_active
        BY <1>6, <2>1, <3>1, <3>3, <4>1
      <4> QED
        BY <2>1, <4>2 DEF IInv, OneVersionActive
    <3> QED
      BY <3>2, <3>3
  <2> QED
    BY <1>1, <1>3, <1>7, <2>1 DEF OneVersionActive, Rows
<1>11. Works(c) = {d}
  BY <1>1, <1>2 DEF Works
<1>12. \A b \in Calls : b # c => \A e \in Works(b) : documents'[e].ingestion = documents[e].ingestion
  BY <1>7, <1>11, NotWorkedOn DEF IInv, OneIngestion
<1>13. \A e \in DOMAIN documents' : documents'[e].ingestion \in {"pending", "processing"} =>
         e \in Rows /\ documents[e].ingestion \in {"pending", "processing"} /\ e \notin Works(c)
  BY <1>3, <1>7, <1>11
<1>14. \A e \in DOMAIN documents' : documents'[e].ingestion = "failed" =>
         e \in Rows /\ documents[e].ingestion = "failed"
  BY <1>3, <1>7
<1>15. \E k \in Call : /\ Goes(c, k) /\ k.at \in {"idle", "cleanup"} /\ CallAgrees(c)'
                       /\ uploads' \subseteq uploads /\ leaked' = leaked
                       /\ c \in uploads' => k.at # "idle"
  <2>1. CASE p = NoDocument
    <3>1. Goes(c, Idle) /\ uploads' \subseteq uploads /\ c \notin uploads' /\ leaked' = leaked
      BY <1>2, <2>1 DEF Complete, Ends
    <3> QED
      BY <3>1, IdleAgrees
  <2>2. CASE p # NoDocument
    <3>1. PICK k : k = [calls[c] EXCEPT !.at = "cleanup"]
      OBVIOUS
    <3>2. k \in Ingesting /\ k.at = "cleanup" /\ k.previous = p /\ k.old = calls[c].old
      BY <1>1, <1>2, <3>1 DEF Ingesting
    <3>3. Goes(c, k) /\ uploads' = uploads /\ leaked' = leaked
      BY <1>2, <2>2, <3>1 DEF Complete, At, Keeps
    <3>4. calls[c].old.status = "active" /\ calls[c].old.is_active
      BY <1>1, <1>2, <2>2 DEF IInv, CallAgrees, AtWork
    <3>5. CallAgrees(c)'
      BY <1>3, <1>4, <2>2, <3>2, <3>3, <3>4 DEF CallAgrees, Goes, TypeOK, Rows, AtWork
    <3> QED
      BY <3>2, <3>3, <3>5 DEF Call
  <2> QED
    BY <2>1, <2>2
<1>16. PICK k \in Call : /\ Goes(c, k) /\ k.at \in {"idle", "cleanup"} /\ CallAgrees(c)'
                         /\ uploads' \subseteq uploads /\ leaked' = leaked
                         /\ c \in uploads' => k.at # "idle"
  BY <1>15
<1>17. calls'[c] = k /\ calls' = [calls EXCEPT ![c] = k]
  BY <1>16 DEF Goes, TypeOK
<1>18. Works(c)' = {} /\ WorkAgrees(c)'
  BY <1>16, <1>17 DEF Works, WorkAgrees, AtWork
<1>19. RoomKept'
  BY <1>3, <1>16, RoomIsKept
<1>20. /\ UNCHANGED <<index, left, leaked, made, restarts>> /\ uploads' \subseteq uploads
       /\ retried \subseteq retried' /\ retried' \subseteq Ids /\ DOMAIN documents' \subseteq Ids
  BY <1>1, <1>3, <1>16 DEF TypeOK
<1>21. \A b \in Calls : b # c =>
         /\ \A e \in Works(b) : documents'[e].ingestion = documents[e].ingestion
         /\ Works(c)' \cap Works(b) = {}
  BY <1>12, <1>18
<1>22. \A e \in DOMAIN documents' : RowAgrees(e)'
  BY <1>3, <1>9
<1> QED
  BY <1>3, <1>8, <1>10, <1>13, <1>14, <1>16, <1>17, <1>18, <1>19, <1>20, <1>21, <1>22, IndexStaysKeeps

-----------------------------------------------------------------------------
(* The invariant.                                                          *)

\* A restart cuts every call off; the documents they worked on are noted.
LEMMA RestartKeeps ==
  ASSUME IInv, Restart
  PROVE  IInv'
<1> TypeOK
  BY DEF IInv
<1>1. /\ calls' = [c \in Calls |-> Idle] /\ uploads' = {} /\ restarts' = restarts + 1
      /\ leaked' = (leaked \/ uploads # {})
      /\ left' = left \cup UNION {Works(c) \cup Clears(c) : c \in Calls}
      /\ UNCHANGED <<documents, index, retried, made>>
  BY DEF Restart
<1>2. \A c \in Calls : calls'[c] = Idle
  BY <1>1
<1>3. \A c \in Calls : Works(c) \subseteq Ids /\ Clears(c) \subseteq Ids
  <2>1. ASSUME NEW c \in Calls  PROVE Works(c) \subseteq Ids /\ Clears(c) \subseteq Ids
    <3>1. Works(c) \subseteq Ids
      BY NotWorkedOn DEF TypeOK
    <3>2. CASE calls[c].at = "cleanup"
      <4>1. calls[c].previous \in Rows
        BY <3>2 DEF IInv, CallAgrees
      <4> QED
        BY <3>1, <3>2, <4>1 DEF Clears, TypeOK
    <3>3. CASE calls[c].at \in {"remove", "retry_delete"}
      <4>1. calls[c].doc \in Rows
        BY <3>3 DEF IInv, CallAgrees
      <4> QED
        BY <3>1, <3>3, <4>1 DEF Clears, TypeOK
    <3>4. CASE calls[c].at \notin {"cleanup", "remove", "retry_delete"}
      BY <3>1, <3>4 DEF Clears
    <3> QED
      BY <3>2, <3>3, <3>4
  <2> QED
    BY <2>1
<1>4. left \subseteq left' /\ left' \subseteq Ids /\ \A c \in Calls : Works(c) \subseteq left'
  BY <1>1, <1>3 DEF TypeOK
<1>5. \A c \in Calls : Works(c)' = {}
  BY <1>2 DEF Works, Idle
<1>6. restarts' \in 1..MaxRestarts
  BY KnowledgeAssumption DEF Restart, TypeOK
<1>7. TypeOK'
  <2>1. calls' \in [Calls -> Call]
    BY <1>1 DEF Call
  <2>2. leaked' \in BOOLEAN
    BY <1>1 DEF TypeOK
  <2>3. restarts' \in 0..MaxRestarts
    BY <1>6
  <2> QED
    BY <1>1, <1>4, <2>1, <2>2, <2>3 DEF TypeOK, Rows
<1>8. RoomKept'
  <2>1. Inserting' = {} /\ Rows' = Rows
    BY <1>1, <1>2 DEF Inserting, Idle, Rows
  <2>2. Cardinality({}) = 0
    BY FS_EmptySet
  <2>3. IsFiniteSet(Inserting)
    BY KnowledgeAssumption, FS_Subset DEF Inserting
  <2>4. Cardinality(Inserting) \in Nat
    BY <2>3, FS_CardinalityType
  <2>5. Cardinality(Rows) \in Nat
    <3>1. 1 \in Int /\ MaxDocuments \in Int
      BY KnowledgeAssumption
    <3>2. IsFiniteSet(Ids)
      BY <3>1, FS_Interval DEF Ids
    <3> QED
      BY <3>2, FS_Subset, FS_CardinalityType DEF TypeOK
  <2> QED
    BY <2>1, <2>2, <2>4, <2>5, KnowledgeAssumption DEF IInv, RoomKept
<1>9. IndexAgrees' /\ OneVersionActive'
  BY <1>1 DEF IInv, IndexAgrees, OneVersionActive, Rows
<1>10. \A d \in DOMAIN documents' : RowAgrees(d)'
  BY <1>1 DEF IInv, RowAgrees, Rows
<1>11. \A c \in Calls : WorkAgrees(c)' /\ CallAgrees(c)'
  BY <1>2 DEF WorkAgrees, CallAgrees, Idle, AtWork
<1>12. OneIngestion'
  BY <1>5 DEF OneIngestion
<1>13. IngestedBySomeone'
  BY <1>1, <1>4 DEF IInv, IngestedBySomeone, Rows
<1>14. FilesRemoved'
  BY <1>6 DEF FilesRemoved
<1>15. FailureLeavesNothing'
  BY <1>1, <1>4 DEF IInv, FailureLeavesNothing, Rows
<1> QED
  BY <1>7, <1>8, <1>9, <1>10, <1>11, <1>12, <1>13, <1>14, <1>15 DEF IInv, Rows

LEMMA InitHolds == Init => IInv
<1> SUFFICES ASSUME Init  PROVE IInv
  OBVIOUS
<1>1. Rows = {} /\ index = {} /\ \A c \in Calls : calls[c] = Idle
  BY DEF Init, Rows
<1>2. TypeOK
  <2>1. documents \in [Rows -> Row] /\ Rows \subseteq Ids
    BY <1>1 DEF Init, Rows
  <2>2. calls \in [Calls -> Call]
    BY DEF Init, Call
  <2>3. made \in 0..MaxCalls /\ restarts \in 0..MaxRestarts
    BY KnowledgeAssumption DEF Init
  <2> QED
    BY <1>1, <2>1, <2>2, <2>3 DEF Init, TypeOK
<1>3. RoomKept
  <2>1. Inserting = {}
    BY <1>1 DEF Inserting, Idle
  <2>2. Cardinality({}) = 0
    BY FS_EmptySet
  <2> QED
    BY <1>1, <2>1, <2>2, KnowledgeAssumption DEF RoomKept
<1>4. \A c \in Calls : WorkAgrees(c) /\ CallAgrees(c) /\ Works(c) = {}
  BY <1>1 DEF WorkAgrees, CallAgrees, Works, Idle, AtWork
<1>5. /\ IndexAgrees /\ OneIngestion /\ IngestedBySomeone /\ OneVersionActive
      /\ FilesRemoved /\ FailureLeavesNothing
  BY <1>1, <1>4 DEF Init, IndexAgrees, OneIngestion, IngestedBySomeone, OneVersionActive,
                    FilesRemoved, FailureLeavesNothing
<1> QED
  BY <1>1, <1>2, <1>3, <1>4, <1>5 DEF IInv

LEMMA StutterKeeps ==
  ASSUME IInv, UNCHANGED vars
  PROVE  IInv'
<1>1. Rows' = Rows /\ Inserting' = Inserting /\ \A c \in Calls : Works(c)' = Works(c)
  BY DEF vars, Rows, Inserting, Works
<1>2. TypeOK' /\ RoomKept' /\ IndexAgrees'
  BY <1>1 DEF IInv, vars, TypeOK, RoomKept, IndexAgrees, Busy, Rows
<1>3. \A d \in Rows : RowAgrees(d)'
  BY <1>1 DEF IInv, vars, RowAgrees, Rows
<1>4. \A c \in Calls : WorkAgrees(c)' /\ CallAgrees(c)'
  BY <1>1 DEF IInv, vars, WorkAgrees, CallAgrees, NothingIn, Rows
<1>5. OneIngestion' /\ IngestedBySomeone' /\ OneVersionActive' /\ FilesRemoved' /\ FailureLeavesNothing'
  BY <1>1 DEF IInv, vars, OneIngestion, IngestedBySomeone, OneVersionActive, FilesRemoved,
              FailureLeavesNothing, Rows
<1> QED
  BY <1>1, <1>2, <1>3, <1>4, <1>5 DEF IInv

LEMMA NextKeeps == IInv /\ [Next]_vars => IInv'
<1> SUFFICES ASSUME IInv, [Next]_vars  PROVE IInv'
  OBVIOUS
<1>1. ASSUME NEW c \in Calls, NEW f \in Files, Create(c, f)  PROVE IInv'
  BY <1>1, CreateKeeps
<1>2. ASSUME NEW c \in Calls, NEW d \in Ids, NEW f \in Files, Replace(c, d, f)  PROVE IInv'
  BY <1>2, ReplaceKeeps
<1>3. ASSUME NEW c \in Calls, NEW d \in Ids, Retry(c, d)  PROVE IInv'
  BY <1>3, RetryKeeps
<1>4. ASSUME NEW c \in Calls, NEW d \in Ids, Delete(c, d)  PROVE IInv'
  BY <1>4, DeleteKeeps
<1>5. ASSUME NEW c \in Calls, Search(c)  PROVE IInv'
  BY <1>5, SearchKeeps
<1>6. ASSUME NEW c \in Calls, Step(c)  PROVE IInv'
  <2>1. CASE ReplaceLock(c) \/ Insert(c) \/ Begin(c) \/ Upsert(c) \/ Verify(c)
    BY <2>1, ReplaceLockKeeps, InsertKeeps, BeginKeeps, UpsertKeeps, VerifyKeeps
  <2>2. CASE Complete(c) \/ Cleanup(c) \/ Compensate(c) \/ Fail(c)
    BY <2>2, CompleteKeeps, CleanupKeeps, CompensateKeeps, FailKeeps
  <2>3. CASE RetryLock(c) \/ RetryDelete(c) \/ RetryAgain(c)
    BY <2>3, RetryLockKeeps, RetryDeleteKeeps, RetryAgainKeeps
  <2>4. CASE Remove(c) \/ MarkDeleted(c) \/ Filter(c)
    BY <2>4, RemoveKeeps, MarkDeletedKeeps, FilterKeeps
  <2> QED
    BY <1>6, <2>1, <2>2, <2>3, <2>4 DEF Step
<1>7. CASE Restart
  BY <1>7, RestartKeeps
<1>8. CASE UNCHANGED vars
  BY <1>8, StutterKeeps
<1> QED
  BY <1>1, <1>2, <1>3, <1>4, <1>5, <1>6, <1>7, <1>8 DEF Next

\* Rows, index, files and calls stay as the invariant says, however many calls,
\* documents and restarts there are.
THEOREM KnowledgeInvariant == Spec => []IInv
<1>1. Init => IInv
  BY InitHolds
<1>2. IInv /\ [Next]_vars => IInv'
  BY NextKeeps
<1> QED
  BY <1>1, <1>2, PTL DEF Spec

LEMMA InvariantAgrees == IInv => StoresAgree
<1> SUFFICES ASSUME IInv  PROVE StoresAgree
  OBVIOUS
<1>1. ActiveIsCompleted
  BY DEF IInv, RowAgrees, ActiveIsCompleted
<1>2. AnswersOneVersion
  <2>1. ASSUME NEW c \in Calls, NEW d \in Returned(calls[c].hits),
               documents[d].supersedes \in Returned(calls[c].hits)
        PROVE  d \in retried
    <3>1. /\ d \in Rows /\ documents[d].is_active
          /\ documents[d].supersedes \in Rows /\ documents[documents[d].supersedes].is_active
      BY <2>1 DEF Returned, Active
    <3>2. documents[d].supersedes # NoDocument
      BY <3>1 DEF IInv, TypeOK, Ids, NoDocument
    <3> QED
      BY <3>1, <3>2 DEF IInv, OneVersionActive
  <2> QED
    BY <2>1 DEF AnswersOneVersion
<1> QED
  BY <1>1, <1>2 DEF IInv, StoresAgree

\* Only a completed document is active, one call ingests a document, a document and its
\* replacement are answered from together only after a retry, and only a failed removal
\* or a restart leaves a file behind: whatever sessions, uploads and restarts interleave.
THEOREM StoresStayAgreed == Spec => []StoresAgree
<1>1. Spec => []IInv
  BY KnowledgeInvariant
<1>2. IInv => StoresAgree
  BY InvariantAgrees
<1> QED
  BY <1>1, <1>2, PTL

\* A failed ingestion leaves no record in the index unless taking it back failed.
THEOREM FailuresAreTakenBack == Spec => []FailureLeavesNothing
<1>1. Spec => []IInv
  BY KnowledgeInvariant
<1>2. IInv => FailureLeavesNothing
  BY DEF IInv
<1> QED
  BY <1>1, <1>2, PTL

-----------------------------------------------------------------------------
(* What is active.                                                         *)

LEMMA StepActivates ==
  ASSUME IInv, [Next]_vars
  PROVE  NothingActivated \/ \E c \in Calls : Complete(c)
<1>1. ASSUME NEW c \in Calls, Step(c)  PROVE NothingActivated \/ Complete(c)
  <2>1. CASE Insert(c) \/ Begin(c) \/ Fail(c) \/ RetryAgain(c) \/ MarkDeleted(c)
    BY <2>1, InsertKeeps, BeginKeeps, FailKeeps, RetryAgainKeeps, MarkDeletedKeeps
  <2>2. CASE ReplaceLock(c) \/ Upsert(c) \/ Verify(c) \/ Cleanup(c) \/ Compensate(c)
    BY <2>2, UnchangedRows DEF ReplaceLock, Upsert, Verify, Cleanup, Compensate
  <2>3. CASE RetryLock(c) \/ RetryDelete(c) \/ Remove(c) \/ Filter(c)
    BY <2>3, UnchangedRows DEF RetryLock, RetryDelete, Remove, Filter
  <2> QED
    BY <1>1, <2>1, <2>2, <2>3 DEF Step
<1>2. CASE \E c \in Calls, d \in Ids, f \in Files : Replace(c, d, f)
  BY <1>2, UnchangedRows DEF Replace
<1>3. CASE \E c \in Calls, f \in Files : Create(c, f)
  BY <1>3, UnchangedRows DEF Create
<1>4. CASE \E c \in Calls, d \in Ids : Retry(c, d) \/ Delete(c, d)
  BY <1>4, UnchangedRows DEF Retry, Delete
<1>5. CASE \E c \in Calls : Search(c)
  BY <1>5, UnchangedRows DEF Search
<1>6. CASE Restart \/ UNCHANGED vars
  BY <1>6, UnchangedRows DEF Restart, vars
<1> QED
  BY <1>1, <1>2, <1>3, <1>4, <1>5, <1>6 DEF Next

\* The three parts of DocumentsAreKept, as facts about one step.
LEMMA StepKeepsDocuments ==
  ASSUME IInv, [Next]_vars
  PROVE  /\ \A d \in DOMAIN documents' :
              documents'[d].is_active /\ (d \in Rows => ~documents[d].is_active) =>
                Records(d, Chunks[documents'[d].file]) \subseteq index'
         /\ \A d \in Rows : documents[d].is_active /\ ~documents'[d].is_active =>
              \/ documents'[d].status = "deleted"
              \/ \E e \in Rows : documents[e].supersedes = d /\ documents'[e].is_active
         /\ \A d \in Rows : documents[d].ingestion = "completed" =>
              /\ documents'[d].ingestion = "completed"
              /\ documents'[d].chunks = Chunks[documents[d].file]
<1>1. IInv'
  BY NextKeeps
<1>2. \A d \in DOMAIN documents' : RowAgrees(d)'
  BY <1>1 DEF IInv, Rows
<1>3. RowsKept => \A d \in Rows : documents[d].ingestion = "completed" =>
                    /\ documents'[d].ingestion = "completed"
                    /\ documents'[d].chunks = Chunks[documents[d].file]
  BY <1>2 DEF RowsKept, RowAgrees, Rows
<1>4. CASE NothingActivated
  BY <1>3, <1>4 DEF NothingActivated
<1>5. ASSUME NEW c \in Calls, Complete(c)
      PROVE  /\ RowsKept
             /\ \A d \in DOMAIN documents' :
                  documents'[d].is_active /\ (d \in Rows => ~documents[d].is_active) =>
                    Records(d, Chunks[documents'[d].file]) \subseteq index'
             /\ \A d \in Rows : documents[d].is_active /\ ~documents'[d].is_active =>
                  \E e \in Rows : documents[e].supersedes = d /\ documents'[e].is_active
  <2>1. PICK d, p : d = calls[c].doc /\ p = calls[c].previous
    OBVIOUS
  <2>2. /\ d \in Rows /\ documents[d].ingestion = "processing" /\ DOMAIN documents' = Rows
        /\ documents'[d].file = documents[d].file
        /\ documents'[d].supersedes = documents[d].supersedes
        /\ documents'[d].is_active /\ documents'[d].ingestion = "completed"
        /\ Records(d, Chunks[documents[d].file]) \subseteq index
    BY <1>5, <2>1, ActivatedShape
  <2>3. p # NoDocument =>
          /\ p \in Rows \ {d} /\ documents[d].supersedes = p
          /\ documents'[p].file = documents[p].file /\ documents'[p].supersedes = documents[p].supersedes
          /\ ~documents'[p].is_active /\ documents'[p].ingestion = "completed"
    BY <1>5, <2>1, ActivatedShape
  <2>4. \A e \in Rows : e # d /\ e # p => documents'[e] = documents[e]
    BY <1>5, <2>1, ActivatedShape
  <2>5. NoDocument \notin Rows /\ index' = index
    BY <1>5 DEF IInv, TypeOK, Ids, NoDocument, Complete
  <2>6. RowsKept
    BY <2>2, <2>3, <2>4, <2>5 DEF RowsKept
  <2>7. ASSUME NEW e \in Rows, documents'[e].is_active, ~documents[e].is_active
        PROVE  Records(e, Chunks[documents'[e].file]) \subseteq index'
    <3>1. e = d
      BY <2>3, <2>4, <2>5, <2>7
    <3> QED
      BY <2>2, <2>5, <3>1
  <2>8. ASSUME NEW e \in Rows, documents[e].is_active, ~documents'[e].is_active
        PROVE  documents[d].supersedes = e
    <3>1. e = p
      BY <2>2, <2>4, <2>8
    <3> QED
      BY <2>3, <2>5, <3>1
  <2> QED
    BY <2>2, <2>6, <2>7, <2>8
<1> QED
  BY <1>3, <1>4, <1>5, StepActivates

\* What becomes active is wholly in the index; it stops being active only when it is
\* deleted, or as its replacement becomes active; a completed ingestion stays completed.
THEOREM ActiveDocumentsAreKept == Spec => DocumentsAreKept
<1>1. Spec => []IInv
  BY KnowledgeInvariant
<1>2. IInv /\ [Next]_vars =>
        [\A d \in DOMAIN documents' :
           documents'[d].is_active /\ (d \in Rows => ~documents[d].is_active) =>
             Records(d, Chunks[documents'[d].file]) \subseteq index']_vars
  BY StepKeepsDocuments
<1>3. IInv /\ [Next]_vars =>
        [\A d \in Rows : documents[d].is_active /\ ~documents'[d].is_active =>
           \/ documents'[d].status = "deleted"
           \/ \E e \in Rows : documents[e].supersedes = d /\ documents'[e].is_active]_vars
  BY StepKeepsDocuments
<1>4. IInv /\ [Next]_vars =>
        [\A d \in Rows : documents[d].ingestion = "completed" =>
           /\ documents'[d].ingestion = "completed"
           /\ documents'[d].chunks = Chunks[documents[d].file]]_vars
  BY StepKeepsDocuments
<1> QED
  BY <1>1, <1>2, <1>3, <1>4, PTL DEF Spec, DocumentsAreKept, ActivatedWhenIndexed, ReplacedOrDeleted, CompletedIsKept
=============================================================================
