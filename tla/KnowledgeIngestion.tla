--------------------------- MODULE KnowledgeIngestion ---------------------------
(***************************************************************************)
(* ingestRepositoryDocs, the command that copies a repository's documents  *)
(* into the search index, and what searchDocumentation reads of it.  A run *)
(* is a process of its own, started "on a schedule or after every push":   *)
(* runs may overlap, and a run may stop anywhere (the embedding API throws *)
(* through it).  Every await of the run is an action; there is no          *)
(* transaction.                                                            *)
(*                                                                         *)
(* A row is named after the run that inserted it: no table but             *)
(* document_chunks (document, index) has a unique index, so the rows of    *)
(* one repository, source or document may be several, and a select takes   *)
(* any of them.  Sources and documents are never deleted.                  *)
(***************************************************************************)
EXTENDS Chunker, FiniteSets

CONSTANTS
  Runs,
  Paths,          \* the files getRepositoryDocs asks for
  Order,          \* [Paths -> Int]: in this order
  Listed,         \* the files under /docs
  Alternatives,   \* the places of CONTRIBUTING.md
  Versions,       \* contents a file may have
  Content,        \* [Versions -> Seq(Paragraph)]
  MaxChars,
  None,
  MaxEdits, MaxFaults   \* bounds: pushes, and runs that are cut off

ASSUME IngestionAssumption ==
  /\ Order \in [Paths -> Int]
  /\ \A S \in (SUBSET Paths) \ {{}} : \E p \in S : \A q \in S \ {p} : Order[p] < Order[q]
  /\ Listed \subseteq Paths /\ Alternatives \subseteq Paths
  /\ None \notin Versions \cup Runs \cup Paths
  /\ {MaxEdits, MaxFaults} \subseteq Nat

ASSUME ContentAssumption == Content \in [Versions -> Seq(Paragraph)] /\ MaxChars \in Nat

(* The chunks of a version; a blank document has none. *)
Chunks(v) == ChunkText(Content[v], MaxChars)
Blank(v) == Content[v] = <<>>

Optional(S) == S \cup {None}
Source == [path : Paths, repo : Runs, by : Runs]
Document == [path : Paths, repo : Runs, source : Runs, by : Runs]
Chunk == [document : Document, index : Nat, version : Versions, by : Runs]

VARIABLES
  head,        \* external: the content of each file on GitHub, None if absent
  repos,       \* the repositories rows of the repository
  sources,     \* the knowledge_sources rows
  checksum,    \* the documents rows: each one's checksum, None if absent
  chunks,      \* the document_chunks rows
  embedded,    \* the chunks with a row in embeddings
  run,         \* what each run holds in its local variables
  interrupted, \* history: documents a run was cut off in
  contested,   \* history: documents two runs were rebuilding at one time
  overlapped,  \* history: two runs were in progress at one time
  edits, faults

tables == <<repos, sources, checksum, chunks, embedded>>
history == <<interrupted, contested, overlapped>>
counters == <<edits, faults>>
vars == <<head, tables, run, history, counters>>

Clearing == {"stale", "clear"}
Writing == {"chunk", "embed"}
Rebuilding == Clearing \cup Writing
Busy == {"repo", "insertRepo", "fetch", "doc", "insertSource", "select",
         "insertDocument", "store"} \cup Rebuilding
PC == {"idle", "done", "failed", "collided"} \cup Busy

(* docs: what was fetched and is still to be processed; stale: the chunks
   clearStaleChunks has yet to take the embeddings of. *)
Run == [pc : PC, todo : SUBSET Paths, docs : [Paths -> Optional(Versions)],
        repo : Optional(Runs), source : Optional(Runs),
        document : Optional(Document), stale : SUBSET Chunk, next : Nat \ {0}]

Fresh == [pc |-> "idle", todo |-> Paths, docs |-> [p \in Paths |-> None],
          repo |-> None, source |-> None, document |-> None, stale |-> {}, next |-> 1]

TypeOK ==
  /\ head \in [Paths -> Optional(Versions)]
  /\ repos \subseteq Runs
  /\ sources \subseteq Source
  /\ checksum \in [Document -> Optional(Versions)]
  /\ chunks \subseteq Chunk
  /\ embedded \subseteq chunks
  /\ run \in [Runs -> Run]
  /\ interrupted \subseteq Document /\ contested \subseteq Document
  /\ overlapped \in BOOLEAN
  /\ edits \in 0 .. MaxEdits /\ faults \in 0 .. MaxFaults

Init ==
  /\ head \in [Paths -> Optional(Versions)]
  /\ repos = {} /\ sources = {}
  /\ checksum = [d \in Document |-> None]
  /\ chunks = {} /\ embedded = {}
  /\ run = [r \in Runs |-> Fresh]
  /\ interrupted = {} /\ contested = {} /\ overlapped = FALSE
  /\ edits = 0 /\ faults = 0

-----------------------------------------------------------------------------
(* The first of a set of paths, in the order of the loop. *)
First(S) == CHOOSE p \in S : \A q \in S \ {p} : Order[p] < Order[q]

Pending(r) == {p \in Paths : run[r].docs[p] # None}
Path(r) == First(Pending(r))
Version(r) == run[r].docs[Path(r)]

Rebuilds(r, d) == run[r].pc \in Rebuilding /\ run[r].document = d
Rivals(r, d) == {q \in Runs \ {r} : Rebuilds(q, d)}
ChunksOf(d) == {c \in chunks : c.document = d}

Goto(r, pc) == run' = [run EXCEPT ![r].pc = pc]

(* The loop goes on to the next document. *)
NextDocument(x, p) == [x EXCEPT !.pc = "doc", !.docs[p] = None, !.source = None,
                                !.document = None, !.stale = {}, !.next = 1]

(* The run is over; what it holds is gone. *)
Stop(r, pc) == run' = [run EXCEPT ![r] = [Fresh EXCEPT !.pc = pc]]

(* A run that stops leaves the document it was rebuilding as it is. *)
Abandon(r) ==
  interrupted' = IF run[r].pc \in Rebuilding
                   THEN interrupted \cup {run[r].document} ELSE interrupted

-----------------------------------------------------------------------------
Start(r) ==
  /\ run[r].pc = "idle"
  /\ Goto(r, "repo")
  /\ overlapped' = (overlapped \/ \E q \in Runs : run[q].pc \in Busy)
  /\ UNCHANGED <<head, tables, interrupted, contested, counters>>

(* resolveRepository: select ... *)
SelectRepository(r) ==
  /\ run[r].pc = "repo"
  /\ \/ \E x \in repos : run' = [run EXCEPT ![r].pc = "fetch", ![r].repo = x]
     \/ repos = {} /\ Goto(r, "insertRepo")
  /\ UNCHANGED <<head, tables, history, counters>>

(* ... then insert, whoever has inserted it meanwhile. *)
InsertRepository(r) ==
  /\ run[r].pc = "insertRepo"
  /\ repos' = repos \cup {r}
  /\ run' = [run EXCEPT ![r].pc = "fetch", ![r].repo = r]
  /\ UNCHANGED <<head, sources, checksum, chunks, embedded, history, counters>>

(* getRepositoryDocs asks for the next file.  It is there, and the first
   CONTRIBUTING.md found is the only one; or it is absent; or it is taken to
   be, whatever the error: then the rest of the /docs listing goes with it. *)
Fetch(r) ==
  LET p == First(run[r].todo)
      Skip(S) == run' = [run EXCEPT ![r].todo = @ \ S]
  IN
  /\ run[r].pc = "fetch" /\ run[r].todo # {}
  /\ \/ /\ head[p] # None
        /\ run' = [run EXCEPT ![r].docs[p] = head[p],
                              ![r].todo = @ \ (IF p \in Alternatives THEN Alternatives ELSE {p})]
     \/ head[p] = None /\ Skip({p})
     \/ Skip(IF p \in Listed THEN Listed ELSE {p})
  /\ UNCHANGED <<head, tables, history, counters>>

Fetched(r) ==
  /\ run[r].pc = "fetch" /\ run[r].todo = {}
  /\ Goto(r, "doc")
  /\ UNCHANGED <<head, tables, history, counters>>

SkipBlank(r) ==
  /\ run[r].pc = "doc" /\ Pending(r) # {}
  /\ Blank(Version(r))
  /\ run' = [run EXCEPT ![r] = NextDocument(@, Path(r))]
  /\ UNCHANGED <<head, tables, history, counters>>

(* resolveKnowledgeSource: select ... *)
SelectSource(r) ==
  /\ run[r].pc = "doc" /\ Pending(r) # {}
  /\ ~ Blank(Version(r))
  /\ LET rows == {s \in sources : s.repo = run[r].repo /\ s.path = Path(r)} IN
     \/ \E s \in rows : run' = [run EXCEPT ![r].pc = "select", ![r].source = s.by]
     \/ rows = {} /\ Goto(r, "insertSource")
  /\ UNCHANGED <<head, tables, history, counters>>

(* ... then insert. *)
InsertSource(r) ==
  /\ run[r].pc = "insertSource"
  /\ sources' = sources \cup {[path |-> Path(r), repo |-> run[r].repo, by |-> r]}
  /\ run' = [run EXCEPT ![r].pc = "select", ![r].source = r]
  /\ UNCHANGED <<head, repos, checksum, chunks, embedded, history, counters>>

Rows(r) == {d \in Document : /\ checksum[d] # None
                             /\ d.path = Path(r) /\ d.repo = run[r].repo
                             /\ d.source = run[r].source}

(* Mutant of SelectDocument: the checksum is not compared. *)
SelectDocumentAnyway(r) ==
  /\ run[r].pc = "select"
  /\ \/ \E d \in Rows(r) : run' = [run EXCEPT ![r] = NextDocument(@, Path(r))]
     \/ Rows(r) = {} /\ Goto(r, "insertDocument")
  /\ UNCHANGED <<head, tables, history, counters>>

(* Mutant of SelectDocument: a changed document becomes another row. *)
SelectDocumentAnew(r) ==
  /\ run[r].pc = "select"
  /\ \/ \E d \in Rows(r) : checksum[d] = Version(r) /\ run' = [run EXCEPT ![r] = NextDocument(@, Path(r))]
     \/ (\A d \in Rows(r) : checksum[d] # Version(r)) /\ Goto(r, "insertDocument")
  /\ UNCHANGED <<head, tables, history, counters>>

(* An unchanged checksum is all it takes to skip the document. *)
SelectDocument(r) ==
  /\ run[r].pc = "select"
  /\ \/ \E d \in Rows(r) :
          run' = [run EXCEPT ![r] = IF checksum[d] = Version(r)
                                      THEN NextDocument(@, Path(r))
                                      ELSE [@ EXCEPT !.pc = "store", !.document = d]]
     \/ Rows(r) = {} /\ Goto(r, "insertDocument")
  /\ UNCHANGED <<head, tables, history, counters>>

InsertDocument(r) ==
  LET d == [path |-> Path(r), repo |-> run[r].repo, source |-> run[r].source, by |-> r] IN
  /\ run[r].pc = "insertDocument"
  /\ checksum' = [checksum EXCEPT ![d] = Version(r)]
  /\ run' = [run EXCEPT ![r].pc = "chunk", ![r].document = d]
  /\ UNCHANGED <<head, repos, sources, chunks, embedded, history, counters>>

(* The checksum of the new content is stored before any of it is. *)
StoreChecksum(r) ==
  LET d == run[r].document IN
  /\ run[r].pc = "store"
  /\ checksum' = [checksum EXCEPT ![d] = Version(r)]
  /\ contested' = IF Rivals(r, d) # {} THEN contested \cup {d} ELSE contested
  /\ Goto(r, "stale")
  /\ UNCHANGED <<head, repos, sources, chunks, embedded, interrupted, overlapped, counters>>

(* clearStaleChunks: the ids of the chunks ... *)
SelectStale(r) ==
  /\ run[r].pc = "stale"
  /\ run' = [run EXCEPT ![r].pc = "clear", ![r].stale = ChunksOf(run[r].document)]
  /\ UNCHANGED <<head, tables, history, counters>>

(* ... the embeddings of one of them after the other ... *)
DeleteEmbedding(r) ==
  /\ run[r].pc = "clear"
  /\ \E c \in run[r].stale :
       /\ embedded' = embedded \ {c}
       /\ run' = [run EXCEPT ![r].stale = @ \ {c}]
  /\ UNCHANGED <<head, repos, sources, checksum, chunks, history, counters>>

(* Mutant of DeleteChunks: only the chunks selected before are deleted, and
   those are forgotten by then. *)
DeleteChunksForgotten(r) ==
  /\ run[r].pc = "clear" /\ run[r].stale = {}
  /\ Goto(r, "chunk")
  /\ UNCHANGED <<head, tables, history, counters>>

(* ... and the chunks the document has by now, with any embedding left.  A
   run that does it alone, and whose checksum no other run has overwritten,
   makes good whatever was wrong with the document. *)
DeleteChunks(r) ==
  LET d == run[r].document IN
  /\ run[r].pc = "clear" /\ run[r].stale = {}
  /\ chunks' = chunks \ ChunksOf(d)
  /\ embedded' = embedded \ ChunksOf(d)
  /\ Goto(r, "chunk")
  /\ IF Rivals(r, d) = {} /\ checksum[d] = Version(r)
       THEN interrupted' = interrupted \ {d} /\ contested' = contested \ {d}
       ELSE UNCHANGED <<interrupted, contested>>
  /\ UNCHANGED <<head, repos, sources, checksum, overlapped, counters>>

(* The chunk run r is about to insert, or has just inserted. *)
NextChunk(r) == [document |-> run[r].document, index |-> run[r].next,
                 version |-> Version(r), by |-> r]

MoreChunks(r) == run[r].next <= Len(Chunks(Version(r)))

(* The unique index admits one chunk per document and index. *)
InsertChunk(r) ==
  /\ run[r].pc = "chunk" /\ MoreChunks(r)
  /\ IF \E c \in ChunksOf(run[r].document) : c.index = run[r].next
       THEN Stop(r, "collided") /\ Abandon(r) /\ UNCHANGED chunks
       ELSE chunks' = chunks \cup {NextChunk(r)} /\ Goto(r, "embed") /\ UNCHANGED interrupted
  /\ UNCHANGED <<head, repos, sources, checksum, embedded, contested, overlapped, counters>>

(* Mutant of InsertEmbedding: a chunk the API refuses is left out. *)
InsertEmbeddingLenient(r) ==
  /\ run[r].pc = "embed"
  /\ embedded' \in {embedded, embedded \cup ({NextChunk(r)} \cap chunks)}
  /\ run' = [run EXCEPT ![r].pc = "chunk", ![r].next = @ + 1]
  /\ UNCHANGED <<head, repos, sources, checksum, chunks, history, counters>>

(* llmProvider.embed has answered.  The foreign key refuses the embedding of
   a chunk that another run has deleted meanwhile. *)
InsertEmbedding(r) ==
  /\ run[r].pc = "embed"
  /\ IF NextChunk(r) \in chunks
       THEN /\ embedded' = embedded \cup {NextChunk(r)}
            /\ run' = [run EXCEPT ![r].pc = "chunk", ![r].next = @ + 1]
            /\ UNCHANGED interrupted
       ELSE Stop(r, "collided") /\ Abandon(r) /\ UNCHANGED embedded
  /\ UNCHANGED <<head, repos, sources, checksum, chunks, contested, overlapped, counters>>

FinishDocument(r) ==
  /\ run[r].pc = "chunk" /\ ~ MoreChunks(r)
  /\ run' = [run EXCEPT ![r] = NextDocument(@, Path(r))]
  /\ UNCHANGED <<head, tables, history, counters>>

Finish(r) ==
  /\ run[r].pc = "doc" /\ Pending(r) = {}
  /\ Stop(r, "done")
  /\ UNCHANGED <<head, tables, history, counters>>

(* The embedding API or the database throws, an acknowledgement is lost, or
   the process dies. *)
Fail(r) ==
  /\ run[r].pc \in Busy
  /\ faults < MaxFaults
  /\ faults' = faults + 1
  /\ Stop(r, "failed")
  /\ Abandon(r)
  /\ UNCHANGED <<head, tables, contested, overlapped, edits>>

Push(p) ==
  /\ edits < MaxEdits
  /\ edits' = edits + 1
  /\ \E v \in Optional(Versions) \ {head[p]} : head' = [head EXCEPT ![p] = v]
  /\ UNCHANGED <<tables, run, history, faults>>

Resolve(r) == \/ SelectRepository(r) \/ InsertRepository(r) \/ Fetch(r) \/ Fetched(r)
              \/ SelectSource(r) \/ InsertSource(r) \/ SelectDocument(r)
Rebuild(r) == \/ InsertDocument(r) \/ StoreChecksum(r) \/ SelectStale(r)
              \/ DeleteEmbedding(r) \/ DeleteChunks(r)
              \/ InsertChunk(r) \/ InsertEmbedding(r) \/ FinishDocument(r)

Next ==
  \/ \E r \in Runs : \/ Start(r) \/ Resolve(r) \/ SkipBlank(r) \/ Rebuild(r)
                     \/ Finish(r) \/ Fail(r)
  \/ \E p \in Paths : Push(p)

Spec == Init /\ [][Next]_vars

-----------------------------------------------------------------------------
(* The rows searchDocumentation compares with the query: one statement, over
   the repository row x its first select has found. *)
SearchRows(x) == {c \in embedded : c.document.repo = x}

Complete(d) ==
  /\ ChunksOf(d) \subseteq embedded
  /\ {[index |-> c.index, version |-> c.version] : c \in ChunksOf(d)}
       = {[index |-> i, version |-> checksum[d]] : i \in DOMAIN Chunks(checksum[d])}

(* A checksum can be trusted: a document no run is rebuilding is indexed
   completely, and with nothing but the content its checksum is of, except
   where a run was cut off in it or two runs rebuilt it at once;
   and such damage lasts only until one run rebuilds the document alone,
   without another storing its checksum between. *)
ChecksumTrusted ==
  \A d \in Document :
    /\ checksum[d] # None
    /\ d \notin interrupted \cup contested
    /\ \A r \in Runs : ~ Rebuilds(r, d)
    => Complete(d)

(* Whenever a search reads the index, in the middle of a rebuild or in the
   remains of a run that was cut off, it finds chunks of one version of each
   file: two of one document only if two runs rebuilt that at once, two of
   two documents of one file only if runs have overlapped. *)
OneVersionFound ==
  \A x \in repos : \A c1, c2 \in SearchRows(x) :
    /\ c1.document.path = c2.document.path
    /\ (c1.document = c2.document \/ ~ overlapped)
    /\ c1.document \notin contested
    => c1.version = c2.version

(* A run trips over a constraint (chunk index taken, chunk gone) only on a
   document another run was rebuilding at the same time: never on what
   an earlier run left behind, wherever that one stopped. *)
CollisionsExplained ==
  [][\A r \in Runs : run[r].pc # "collided" /\ run'[r].pc = "collided"
       => run[r].document \in contested]_vars

Passes(r, p) == /\ run[r].docs[p] # None /\ ~ Blank(run[r].docs[p])
                /\ run'[r].pc = "doc" /\ run'[r].docs[p] = None

(* Where runs do not overlap, a file a run is through with is indexed with
   the content the run was given, whether it was indexed now or skipped,
   unless an earlier run was cut off in it. *)
PassedMeansIndexed ==
  [][\A r \in Runs, p \in Paths :
       Passes(r, p) /\ ~ overlapped
       => \E d \in Document : /\ d.path = p /\ checksum[d] = run[r].docs[p]
                              /\ (Complete(d) \/ d \in interrupted)]_vars

(* "A document whose content checksum hasn't changed since the last run is
   skipped entirely ... safe to re-run on a schedule or after every push": a
   document that is skipped has nothing left to be done. *)
SkippedMeansIndexed ==
  [][\A r \in Runs : run[r].pc = "select" /\ run'[r].pc = "doc" /\ ~ overlapped
       => \E d \in Rows(r) : checksum[d] = Version(r) /\ Complete(d)]_vars
=================================================================================
