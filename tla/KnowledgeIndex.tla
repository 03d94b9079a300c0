--------------------------- MODULE KnowledgeIndex ---------------------------
(* The knowledge folder of the local assistant and its index                 *)
(* (day-27-local-architecture-assistant: rag_cli.knowledge_command,          *)
(* knowledge.py, knowledge_index.py, retrieval.py, local_embeddings.py).     *)
(* Indexing shows the documents, may ask the person, embeds them in several  *)
(* calls and publishes in one transaction; a search or an explanation reads  *)
(* the index first and asks it later.  The folder is edited all the while,   *)
(* also while it is listed and its files are read one by one.                *)
(*                                                                           *)
(* A document is a name with a text (NoText when there is none); chunking is *)
(* a function of the texts, so an index is identified by its metadata.  The  *)
(* documents lie in one directory, so a scan lists them at once.  The person *)
(* gives one indexing command at a time and does not replace the embedding   *)
(* model while a command uses it.                                            *)
EXTENDS Naturals, FiniteSets

CONSTANTS
    Documents,      \* names of Markdown files
    Texts,          \* what a file may contain
    EmbeddingModels,
    FolderEdits,    \* bound: edits of the folder
    IndexCommands,  \* bound: indexing commands
    NoText, Unread, NoIndex, AllMarkdown, Kept

VARIABLES
    folder,     \* the text of every document
    index,      \* the published index, or NoIndex
    embedding,  \* the installed embedding model
    indexer,    \* the indexing command under way
    searcher,   \* a search or an explanation
    shown,      \* history: the documents of the last composition accepted
    edits, commands

knowledgeVars == <<folder, index, embedding, indexer, searcher, shown, edits, commands>>

IdleIndexer == [step |-> "idle"]
IdleSearcher == [step |-> "idle"]

KnowledgeIndexInit ==
    /\ folder \in [Documents -> Texts \cup {NoText}]
    /\ index = NoIndex /\ embedding \in EmbeddingModels
    /\ indexer = IdleIndexer /\ searcher = IdleSearcher
    /\ shown = {} /\ edits = 0 /\ commands = 0

Present(texts) == {d \in DOMAIN texts : texts[d] # NoText}

\* A selection policy lists the only files to take, or none, and those to omit.
OpenPolicy == [includes |-> AllMarkdown, excludes |-> {}]
Selects(policy, d) ==
    /\ policy.includes = AllMarkdown \/ d \in policy.includes
    /\ d \notin policy.excludes

\* scan: the selected documents are listed...
Listed(policy) ==
    [d \in Documents |-> IF Selects(policy, d) /\ folder[d] # NoText THEN Unread ELSE NoText]
Unreads(scan) == {d \in Documents : scan[d] = Unread}

\* ...and read one after another; one that is gone by then fails the scan.
ReadOneMore(scan) ==
    {[scan EXCEPT ![d] = folder[d]] : d \in {x \in Unreads(scan) : folder[x] # NoText}}
IsGone(scan) == \E d \in Unreads(scan) : folder[d] = NoText

\* History: the texts every document has had since a scan began, if it counts.
HeldNow == [d \in Documents |-> {folder[d]}]
Holds(r, d, text) ==
    IF r.step \in {"rescanning", "checking"} THEN [r EXCEPT !.held[d] = @ \cup {text}] ELSE r
HasHeld(r, sources, policy) ==
    \A d \in Documents : Selects(policy, d) => sources[d] \in r.held[d]

\* changes against the documents an index holds.
Added(now, old) == Present(now) \ Present(old)
Deleted(now, old) == Present(old) \ Present(now)
Before(i) == IF i.previous = NoIndex THEN [d \in Documents |-> NoText] ELSE i.previous.sources

\* policy(): the stored selection with what the arguments replace of it.
Arguments ==
    {[includes |-> i, excludes |-> e] :
        i \in {Kept, AllMarkdown} \cup (SUBSET Documents \ {{}}),
        e \in {Kept} \cup SUBSET Documents}
PolicyFrom(old, a) ==
    LET base == IF a.includes = AllMarkdown THEN OpenPolicy ELSE old
    IN  [includes |-> IF a.includes \in {Kept, AllMarkdown} THEN base.includes ELSE a.includes,
         excludes |-> IF a.excludes = Kept THEN base.excludes ELSE a.excludes]

\* knowledge index: the index and then the folder are read, and the difference
\* is shown.  A changed model is passed over by --rebuild.
ShowSelection(a, rebuild) ==
    /\ indexer.step = "idle" /\ commands < IndexCommands
    /\ commands' = commands + 1
    /\ LET old == IF index = NoIndex THEN OpenPolicy ELSE index.policy
           policy == PolicyFrom(old, a)
       IN  /\ a.includes \notin {Kept, AllMarkdown} => \A d \in a.includes : folder[d] # NoText
           /\ Unreads(Listed(policy)) # {}
           /\ indexer' = [step |-> "reading", policy |-> policy, snapshot |-> Listed(policy),
                          previous |-> index, rebuild |-> rebuild, accepted |-> FALSE]
    /\ UNCHANGED <<folder, index, embedding, searcher, shown, edits>>

ReadDocument ==
    /\ indexer.step = "reading"
    /\ \/ indexer' \in {[indexer EXCEPT !.snapshot = s] : s \in ReadOneMore(indexer.snapshot)}
       \/ IsGone(indexer.snapshot) /\ indexer' = IdleIndexer
    /\ UNCHANGED <<folder, index, embedding, searcher, shown, edits, commands>>

\* Seeded fault: a document that is gone needs no acceptance.
NeedsApprovalAdded(i) ==
    \/ Added(i.snapshot, Before(i)) # {}
    \/ i.previous # NoIndex /\ i.policy # i.previous.policy

NeedsApproval(i) ==
    i.previous # NoIndex =>
        \/ Added(i.snapshot, Before(i)) # {} \/ Deleted(i.snapshot, Before(i)) # {}
        \/ i.policy # i.previous.policy

AcceptSelection ==
    /\ indexer.step = "reading" /\ Unreads(indexer.snapshot) = {}
    /\ \/ /\ NeedsApproval(indexer)
          /\ indexer' \in {[indexer EXCEPT !.step = "accepted", !.accepted = TRUE], IdleIndexer}
       \/ /\ ~NeedsApproval(indexer)
          /\ indexer' = [indexer EXCEPT !.step = "accepted"]
    /\ UNCHANGED <<folder, index, embedding, searcher, shown, edits, commands>>

Unchanged(i) ==
    /\ i.previous # NoIndex
    /\ i.snapshot = i.previous.sources /\ i.policy = i.previous.policy

\* The model's profile is read: another one needs --rebuild, and an index that
\* is up to date is left alone.
CheckProfile ==
    /\ indexer.step = "accepted"
    /\ indexer' =
          IF \/ indexer.previous # NoIndex /\ indexer.previous.model # embedding /\ ~indexer.rebuild
             \/ Unchanged(indexer) /\ indexer.previous.model = embedding /\ ~indexer.rebuild
          THEN IdleIndexer
          ELSE [step |-> "embedding", policy |-> indexer.policy, snapshot |-> indexer.snapshot,
                accepted |-> indexer.accepted, model |-> embedding]
    /\ UNCHANGED <<folder, index, embedding, searcher, shown, edits, commands>>

\* The batches are embedded; a failure or Ctrl+C leaves the old index.
EmbedChunks ==
    /\ indexer.step = "embedding"
    /\ indexer' \in {[indexer EXCEPT !.step = "embedded"], IdleIndexer}
    /\ UNCHANGED <<folder, index, embedding, searcher, shown, edits, commands>>

\* The stored list is narrowed to the documents there were: one that was
\* listed but missing does not enter later without being shown.
StoredPolicy(i) ==
    [i.policy EXCEPT !.includes = IF @ = AllMarkdown THEN @ ELSE Present(i.snapshot)]

\* write: inside the transaction the folder is scanned again...
Rescan ==
    /\ indexer.step = "embedded"
    /\ indexer' = [step |-> "rescanning", policy |-> indexer.policy, snapshot |-> indexer.snapshot,
                   accepted |-> indexer.accepted, model |-> indexer.model,
                   again |-> Listed(indexer.policy), held |-> HeldNow]
    /\ UNCHANGED <<folder, index, embedding, searcher, shown, edits, commands>>

ReadOnceMore ==
    /\ indexer.step = "rescanning"
    /\ \/ indexer' \in {[indexer EXCEPT !.again = s] : s \in ReadOneMore(indexer.again)}
       \/ IsGone(indexer.again) /\ indexer' = IdleIndexer
    /\ UNCHANGED <<folder, index, embedding, searcher, shown, edits, commands>>

\* Seeded fault: the names are compared, not what the files contain.
SameNames(i) == Present(i.again) = Present(i.snapshot)

SameHashes(i) == i.again = i.snapshot

\* ...and what was embedded is committed only if all of it was found again.
\* SQLite may fail, and then nothing is.
PublishIndex ==
    /\ indexer.step = "rescanning" /\ Unreads(indexer.again) = {}
    /\ \/ /\ SameHashes(indexer)
          /\ index' = [policy |-> StoredPolicy(indexer), sources |-> indexer.snapshot,
                       model |-> indexer.model]
          /\ shown' = IF indexer.accepted THEN Present(indexer.snapshot) ELSE shown
       \/ UNCHANGED <<index, shown>>
    /\ indexer' = IdleIndexer
    /\ UNCHANGED <<folder, embedding, searcher, edits, commands>>

\* search and explain read the index, scan the folder against it...
BeginSearch ==
    /\ searcher.step = "idle" /\ index # NoIndex
    /\ \E mode \in {"text", "vector"} :
          searcher' = [step |-> "checking", mode |-> mode, index |-> index,
                       seen |-> Listed(index.policy), held |-> HeldNow]
    /\ UNCHANGED <<folder, index, embedding, indexer, shown, edits, commands>>

ReadToCheck ==
    /\ searcher.step = "checking"
    /\ \/ searcher' \in {[searcher EXCEPT !.seen = s] : s \in ReadOneMore(searcher.seen)}
       \/ IsGone(searcher.seen) /\ searcher' = IdleSearcher
    /\ UNCHANGED <<folder, index, embedding, indexer, shown, edits, commands>>

\* Seeded fault: a document whose text changed leaves the index fresh.
IsFreshByName(s) == Present(s.seen) = Present(s.index.sources)

IsFresh(s) == s.seen = s.index.sources         \* nothing added, deleted or changed

FolderIsChecked ==
    /\ searcher.step = "checking" /\ Unreads(searcher.seen) = {}
    /\ searcher' = IF IsFresh(searcher) THEN [searcher EXCEPT !.step = "read"] ELSE IdleSearcher
    /\ UNCHANGED <<folder, index, embedding, indexer, shown, edits, commands>>

\* Seeded fault: the text table is asked without comparing the metadata.
IndexIsSameUnread(i) == TRUE

\* The metadata the search read is still that of the file.
IndexIsSame(i) == index = i

\* ...and later rank its chunks: by the text table of the index as it is then,
\* or by the vectors read, against a query embedded by the installed model.
RankChunks ==
    /\ searcher.step = "read"
    /\ searcher' =
          IF searcher.mode = "text"
          THEN IF IndexIsSame(searcher.index)
               THEN [step |-> "hits", ranked |-> index, returned |-> searcher.index,
                     query |-> searcher.index.model, held |-> searcher.held]
               ELSE IdleSearcher
          ELSE IF embedding = searcher.index.model
               THEN [step |-> "hits", ranked |-> searcher.index, returned |-> searcher.index,
                     query |-> embedding, held |-> searcher.held]
               ELSE IdleSearcher
    /\ UNCHANGED <<folder, index, embedding, indexer, shown, edits, commands>>

TakeHits ==
    /\ searcher.step = "hits" /\ searcher' = IdleSearcher
    /\ UNCHANGED <<folder, index, embedding, indexer, shown, edits, commands>>

EditFolder ==
    /\ edits < FolderEdits /\ edits' = edits + 1
    /\ \E d \in Documents, text \in Texts \cup {NoText} :
          /\ text # folder[d] /\ folder' = [folder EXCEPT ![d] = text]
          /\ indexer' = Holds(indexer, d, text) /\ searcher' = Holds(searcher, d, text)
    /\ UNCHANGED <<index, embedding, shown, commands>>

PullModel ==
    /\ indexer.step \in {"idle", "reading"} /\ edits < FolderEdits /\ edits' = edits + 1
    /\ embedding' \in EmbeddingModels \ {embedding}
    /\ UNCHANGED <<folder, index, indexer, searcher, shown, commands>>

KnowledgeIndexNext ==
    \/ \E a \in Arguments, rebuild \in BOOLEAN : ShowSelection(a, rebuild)
    \/ ReadDocument \/ AcceptSelection \/ CheckProfile \/ EmbedChunks
    \/ Rescan \/ ReadOnceMore \/ PublishIndex
    \/ BeginSearch \/ ReadToCheck \/ FolderIsChecked \/ RankChunks \/ TakeHits
    \/ EditFolder \/ PullModel

KnowledgeIndexSpec == KnowledgeIndexInit /\ [][KnowledgeIndexNext]_knowledgeVars

(* The published index holds exactly the documents of the last composition   *)
(* the person accepted, whatever was deleted, added again, listed or         *)
(* excluded since; and the hits of a search come from one index, ranked by   *)
(* the one that is returned, against a query of its own model, and each of   *)
(* its texts was in the folder after the search had begun, or the document   *)
(* was not (knowledge_command, write, fresh, search, embed_query).           *)
IndexIsAccepted ==
    /\ index # NoIndex => Present(index.sources) = shown
    /\ searcher.step = "hits" =>
          /\ searcher.ranked = searcher.returned
          /\ searcher.query = searcher.returned.model
          /\ HasHeld(searcher, searcher.returned.sources, searcher.returned.policy)

(* What is published was read before the person answered and the embeddings  *)
(* were made, yet nothing in it was out of date before the transaction's own *)
(* scan: each document held that text, or was missing, at some moment since. *)
(* An edit after its file was read, or of a file listed too early, is        *)
(* published stale, and left to the check of every search (write).           *)
PublishedIsCurrent ==
    index' # index => HasHeld(indexer, index'.sources, indexer.policy)

(* An index is what was accepted, and no older than the look before it.      *)
IndexIsSound == [][IndexIsAccepted' /\ PublishedIsCurrent]_knowledgeVars
=============================================================================
