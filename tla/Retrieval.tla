----------------------------- MODULE Retrieval -----------------------------
(***************************************************************************)
(* What IndexService.search returns: the hits of the vector store, checked *)
(* against the documents of the process, filled up with documents that     *)
(* match the words of the query.  A pure function of one inquiry: the      *)
(* documents, the hits and the limit.                                      *)
(***************************************************************************)
EXTENDS Integers, Sequences, FiniteSets, SequencesExt

CONSTANTS
    Ids,        \* documents: record_id, doc_id and chunk_id of a row agree on one
    Chunks,     \* chunks a document may be stored in
    Limits      \* values of top_k, which search raises to 1

ASSUME IdsAssumption == IsFiniteSet(Ids)
ASSUME LimitsAssumption == Limits \subseteq Nat \ {0}
ASSUME ChunksAssumption == "whole" \notin Chunks

VARIABLE inquiry

\* A document is unknown to the process, known for another profile or
\* collection, or known here; what is not active is superseded or deleted.
Places == {"unknown", "elsewhere", "active", "inactive"}

\* A hit is a document stored as one record, under its own id, or a chunk under an
\* id that the process does not know; the store is asked for `limit' of them.
Hits(limit) ==
    {h \in SeqOf([id : Ids, part : {"whole"} \cup Chunks, active : BOOLEAN], limit) :
        \A i, j \in 1..Len(h) : h[i].id = h[j].id /\ h[i].part = h[j].part => i = j}

\* The documents of the process are ranked as SetToSeq puts the ids, and only
\* those in `words' contain a word of the query.
Inquiries == UNION {[place : [Ids -> Places], words : SUBSET Ids, ranking : {SetToSeq(Ids)},
                     hits : Hits(limit), limit : {limit}] : limit \in Limits}

RetrievalInit == inquiry \in Inquiries

RetrievalNext == UNCHANGED inquiry

RetrievalSpec == RetrievalInit /\ [][RetrievalNext]_inquiry

\* The elements of s that are in T, in their order.
Only(s, T) ==
    LET kept[n \in 0..Len(s)] ==
            IF n = 0 THEN <<>>
            ELSE IF s[n] \in T THEN Append(kept[n - 1], s[n]) ELSE kept[n - 1]
    IN  kept[Len(s)]

\* The first rows, as many as the limit of the query lets through.
Cut(q, rows) == SubSeq(rows, 1, IF Len(rows) < q.limit THEN Len(rows) ELSE q.limit)

\* _local_search_results: active documents of this place with a word in common.
Local(q) == Cut(q, Only(q.ranking, {id \in q.words : q.place[id] = "active"}))

\* Mutant: the metadata of the vector store is believed.
CurrentAsStored(q, hit) == hit.active

\* The metadata of the document, where the process has it here, decides.
Current(q, hit) ==
    IF hit.part = "whole" /\ q.place[hit.id] \in {"active", "inactive"}
    THEN q.place[hit.id] = "active"
    ELSE hit.active

\* The documents of the hits that stay: one with several chunks comes again.
Kept(q) ==
    LET hits == Only(q.hits, {hit \in ToSet(q.hits) : Current(q, hit)})
    IN  [i \in 1..Len(hits) |-> hits[i].id]

\* A document of the process that a hit already shows is not shown again.
Search(q) ==
    LET more == Only(Local(q), Ids \ ToSet(Kept(q)))
    IN  IF q.hits = <<>> THEN Local(q) ELSE Cut(q, Kept(q) \o more)

---------------------------------------------------------------------------

\* A search shows every hit that counts, a whole document as the process has it
\* and a chunk as the store has it, and then the active documents of the process
\* that have a word of the query and that no hit shows, each once: as many as
\* there are up to the limit, however outdated the vector store is and although
\* the local rows are cut before those already shown are dropped
\* (service.py:4130-4318).
SearchFills ==
    LET q == inquiry
        found == Search(q)
        counted == {h \in ToSet(q.hits) :
                       /\ h.part = "whole" => q.place[h.id] # "inactive"
                       /\ h.active \/ (h.part = "whole" /\ q.place[h.id] = "active")}
        shown == {h.id : h \in counted}
        rest == {id \in q.words : q.place[id] = "active"} \ shown
        all == Cardinality(counted) + Cardinality(rest)
    IN  /\ Len(found) = IF all < q.limit THEN all ELSE q.limit
        /\ \A i \in 1..Len(found) :
               IF i <= Cardinality(counted) THEN found[i] \in shown
               ELSE found[i] \in rest /\ \A j \in 1..(i - 1) : found[j] # found[i]

=============================================================================
