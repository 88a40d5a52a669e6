------------------------------- MODULE Corpora -------------------------------
(***************************************************************************)
(* Managed corpora (api/corpora.py) and the fetcher that searches them     *)
(* (fetchers/rag.py).  A request embeds its documents one by one, reads    *)
(* the row of each, and commits them together; of a row that exists it     *)
(* writes the columns it changes, and the embedding.  An embedding is that *)
(* of a topic and a text.                                                  *)
(***************************************************************************)
EXTENDS Integers, FiniteSets, Sequences

CONSTANTS
    CorpusNames, DocKeys, Topics, Passages,
    Uploads,          \* the requests' documents: sequences of key, topic, text
    Uploaders,        \* the requests that may be open at once
    TopK,
    MaxUploads        \* bound: requests in all

Document == [key : DocKeys, topic : Topics, text : Passages]
ASSUME CorporaAssumption ==
    /\ IsFiniteSet(DocKeys) /\ Uploads \subseteq Seq(Document)
    /\ TopK \in Nat \ {0} /\ MaxUploads \in Nat

VARIABLES
    corpus,    \* by name: the id of its row (0: none), and its documents by key
    created,   \* how many corpora there have been
    upload,    \* the requests: corpus, what is still to embed, what is pending
    mixed,     \* history: the documents written by a request that had read an older row
    search,    \* the fetch under way
    uploads
corporaVars == <<corpus, created, upload, mixed, search, uploads>>

NoDoc == [topic |-> "none", text |-> "none", emb |-> <<"none", "none">>]
NoCorpus == [id |-> 0, docs |-> [k \in DocKeys |-> NoDoc]]
NoUpload == [name |-> "none", id |-> 0, todo |-> <<>>, pending |-> <<>>]
NoSearch == [stage |-> "idle", name |-> "none", id |-> 0, found |-> {}, outcome |-> "none"]

CorporaInit ==
    /\ corpus = [n \in CorpusNames |-> NoCorpus] /\ created = 0
    /\ upload = [r \in Uploaders |-> NoUpload] /\ mixed = {}
    /\ search = NoSearch /\ uploads = 0

Searching == search.stage \notin {"idle", "done"}
Counted == uploads < MaxUploads /\ uploads' = uploads + 1 /\ search.stage # "done"

CreateCorpus(n) ==
    /\ corpus[n].id = 0 /\ Counted
    /\ created' = created + 1
    /\ corpus' = [corpus EXCEPT ![n].id = created + 1]
    /\ UNCHANGED <<upload, mixed, search>>

\* Its documents go first, then the row; whatever was added since goes with it (ON DELETE CASCADE).
DeleteCorpus(n) ==
    /\ corpus[n].id # 0 /\ Counted
    /\ corpus' = [corpus EXCEPT ![n] = NoCorpus]
    /\ mixed' = {x \in mixed : x[1] # n}
    /\ UNCHANGED <<created, upload, search>>

UpsertDocs(r, n, docs) ==
    /\ upload[r] = NoUpload /\ corpus[n].id # 0 /\ Counted
    /\ upload' = [upload EXCEPT ![r] = [name |-> n, id |-> corpus[n].id, todo |-> docs, pending |-> <<>>]]
    /\ UNCHANGED <<corpus, created, mixed, search>>

\* The row of a key as the request sees it: with what it has written itself.
Pending(u, k) == {i \in DOMAIN u.pending : u.pending[i].key = k}
Latest(u, k) == u.pending[CHOOSE i \in Pending(u, k) : \A j \in Pending(u, k) : j <= i]
Embedding(w) == <<w.topic, w.text>>
Current(u, k) ==
    IF Pending(u, k) # {} THEN LET w == Latest(u, k) IN [topic |-> w.topic, text |-> w.text, emb |-> Embedding(w)]
    ELSE IF corpus[u.name].id = u.id THEN corpus[u.name].docs[k] ELSE NoDoc

\* One document: embedded, then looked up.  Its columns count as changed against that row.
EmbedDoc(r) ==
    /\ upload[r].todo # <<>>
    /\ LET u == upload[r] d == Head(u.todo) row == Current(u, d.key) IN
       upload' = [upload EXCEPT ![r].todo = Tail(@),
                                ![r].pending = Append(@, [key |-> d.key, topic |-> d.topic, text |-> d.text, read |-> row,
                                                          own |-> Pending(u, d.key) # {}])]
    /\ UNCHANGED <<corpus, created, mixed, search, uploads>>

\* A column is written if a document of the request changed it against the row it had read.
Changed(u, k, column) == \E i \in Pending(u, k) : u.pending[i][column] # u.pending[i].read[column]

\* Mutant of Upserted: a new topic keeps the embedding of the text.
UpsertedByText(u, k, row) ==
    LET w == Latest(u, k) IN
    [topic |-> IF Changed(u, k, "topic") THEN w.topic ELSE row.topic,
     text  |-> IF Changed(u, k, "text") THEN w.text ELSE row.text,
     emb   |-> IF Changed(u, k, "text") THEN Embedding(w) ELSE row.emb]

\* An insert writes all; an update what has changed, and the embedding always (arrays never compare equal).
Upserted(u, k, row) ==
    LET w == Latest(u, k) IN
    [topic |-> IF Changed(u, k, "topic") THEN w.topic ELSE row.topic,
     text  |-> IF Changed(u, k, "text") THEN w.text ELSE row.text,
     emb   |-> Embedding(w)]

Flushed(u, docs) == [k \in DocKeys |-> IF Pending(u, k) = {} THEN docs[k] ELSE Upserted(u, k, docs[k])]

\* An insert of a key that has come meanwhile fails, as does anything if the corpus has gone.
Conflicts(u) ==
    \/ corpus[u.name].id # u.id
    \/ \E i \in DOMAIN u.pending : LET w == u.pending[i] IN
          ~w.own /\ w.read = NoDoc /\ corpus[u.name].docs[w.key] # NoDoc

CommitDocs(r) ==
    /\ upload[r] # NoUpload /\ upload[r].todo = <<>>
    /\ LET u == upload[r]
           of(own) == {i \in DOMAIN u.pending : ~u.pending[i].own /\ (corpus[u.name].docs[u.pending[i].key] = u.pending[i].read) = own}
           keys(I) == {<<u.name, u.pending[i].key>> : i \in I}
       IN IF Conflicts(u) THEN UNCHANGED <<corpus, mixed>>
          ELSE /\ corpus' = [corpus EXCEPT ![u.name].docs = Flushed(u, @)]
               /\ mixed' = (mixed \ keys(of(TRUE))) \cup keys(of(FALSE))
    /\ upload' = [upload EXCEPT ![r] = NoUpload]
    /\ UNCHANGED <<created, search, uploads>>

\* The embedding service, or the connection, fails: nothing is written.
UploadFails(r) ==
    /\ upload[r] # NoUpload
    /\ upload' = [upload EXCEPT ![r] = NoUpload]
    /\ UNCHANGED <<corpus, created, mixed, search, uploads>>

-----------------------------------------------------------------------------
(***************************************************************************)
(* The fetcher: the query is embedded, the corpus looked up by name, its   *)
(* documents by its id.  Without a query there is only a fallback text.    *)
(***************************************************************************)
Search(n, query) ==
    /\ search.stage = "idle"
    /\ search' = IF query THEN [NoSearch EXCEPT !.stage = "corpus", !.name = n]
                 ELSE [NoSearch EXCEPT !.stage = "done", !.name = n, !.outcome = "fallback"]
    /\ UNCHANGED <<corpus, created, upload, mixed, uploads>>

FindCorpus ==
    /\ search.stage = "corpus"
    /\ search' = IF corpus[search.name].id = 0 THEN [search EXCEPT !.stage = "done", !.outcome = "hollow"]
                 ELSE [search EXCEPT !.stage = "docs", !.id = corpus[search.name].id]
    /\ UNCHANGED <<corpus, created, upload, mixed, uploads>>

Stored(n) == {k \in DocKeys : corpus[n].docs[k] # NoDoc}

Searched == IF corpus[search.name].id = search.id THEN Stored(search.name) ELSE {}

\* The nearest TopK, whichever they are; none is an answer too.
FindDocs ==
    /\ search.stage = "docs"
    /\ \E K \in SUBSET Searched :
          /\ Cardinality(K) = TopK \/ (Cardinality(K) < TopK /\ K = Searched)
          /\ search' = [search EXCEPT !.stage = "done", !.outcome = "data",
                           !.found = {[id |-> corpus[search.name].id, key |-> k] : k \in K}]
    /\ UNCHANGED <<corpus, created, upload, mixed, uploads>>

CorporaNext ==
    \/ \E n \in CorpusNames : CreateCorpus(n) \/ DeleteCorpus(n) \/ \E query \in BOOLEAN : Search(n, query)
    \/ \E r \in Uploaders, n \in CorpusNames, docs \in Uploads : UpsertDocs(r, n, docs)
    \/ \E r \in Uploaders : EmbedDoc(r) \/ CommitDocs(r) \/ UploadFails(r)
    \/ FindCorpus \/ FindDocs
CorporaSpec == CorporaInit /\ [][CorporaNext]_corporaVars

-----------------------------------------------------------------------------
(***************************************************************************)
(* The embedding of a document is that of its topic and text, unless it    *)
(* was written by a request that had read an older row: two requests that  *)
(* change different columns leave an embedding of neither.                 *)
(***************************************************************************)
EmbeddingsFitTheirTexts ==
    \A n \in CorpusNames, k \in DocKeys :
        corpus[n].docs[k] # NoDoc /\ <<n, k>> \notin mixed =>
            corpus[n].docs[k].emb = <<corpus[n].docs[k].topic, corpus[n].docs[k].text>>

(***************************************************************************)
(* A search never mixes corpora: what it finds is of the corpus it looked  *)
(* up, and nothing if that was deleted meanwhile, even if a corpus of the  *)
(* same name has taken its place.                                          *)
(***************************************************************************)
SearchesSeeOneCorpus ==
    /\ \A f \in search.found : f.id = search.id
    /\ Cardinality(search.found) <= TopK
    /\ search.outcome = "data" => search.id # 0

(***************************************************************************)
(* Whatever uploads overlap, and whenever a corpus is replaced, searches   *)
(* compare embeddings of what is stored, and of one corpus.                *)
(***************************************************************************)
CorporaAreFaithful == EmbeddingsFitTheirTexts /\ SearchesSeeOneCorpus
=============================================================================
