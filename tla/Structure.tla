----------------------------- MODULE Structure -----------------------------
(***************************************************************************)
(* Document structure (index_tools/structure): bundles of a document and   *)
(* its child rows, a corpus of documents with the patterns an analysis     *)
(* finds in them, and the templates generated from those patterns.         *)
(*                                                                         *)
(* Every repository call is a transaction, but link, analyse, generate and *)
(* update are several: they read in one or more sessions, work on the copy *)
(* and write it back in another.  Two kinds of child rows stand for the    *)
(* eight there are, and a content for what one extraction yields.          *)
(***************************************************************************)
EXTENDS Integers, FiniteSets

CONSTANTS
    Documents,      \* structure document ids
    Contents,       \* what an extraction of a document may yield
    Callers,        \* threads inside a structure operation
    Gone,           \* the row is not there
    Ready,          \* the caller is in no operation
    MaxTemplates,   \* bound: templates stored at once
    MaxOperations   \* bound: operations of a behaviour

Kinds == {"sections", "styles"}

\* The rows of a document or of a corpus, and what an operation carries along.
ChildRows == [Kinds -> SUBSET Contents]
DocumentRecords == [of : Contents, linked : BOOLEAN]
CorpusRecords == [members : SUBSET Documents, summary : ChildRows]

Links ==
    [op : {"link"}, about : Documents, outdated : BOOLEAN, of : Contents,
     rows : ChildRows, left : SUBSET Kinds]
Updates == [op : {"update"}, about : {"corpus"}, outdated : BOOLEAN, copy : CorpusRecords]
Analyses ==
    [op : {"analyse"}, about : {"corpus"}, outdated : BOOLEAN, copy : CorpusRecords,
     left : SUBSET (Documents \X Kinds), found : ChildRows, stored : BOOLEAN]
Generations ==
    [op : {"generate"}, about : {"corpus"}, outdated : BOOLEAN, sections : SUBSET Contents]

ASSUME StructureConstants ==
    /\ "corpus" \notin Documents
    /\ Gone \notin DocumentRecords /\ Gone \notin CorpusRecords
    /\ Ready \notin Links /\ Ready \notin Updates
    /\ Ready \notin Analyses /\ Ready \notin Generations
    /\ MaxTemplates \in Nat /\ MaxOperations \in Nat

VARIABLES
    document,   \* id -> [of, linked] or Gone: StructureDocumentRow
    children,   \* id -> kind -> contents of the child rows
    corpus,     \* [members, summary] or Gone: the corpus row
    patterns,   \* kind -> contents: StructurePatternRow of the corpus
    templates,  \* set of [sections, styles, crossed]
    caller,     \* thread -> operation in progress with its copies, or Ready
    crossed,    \* history: documents, or "corpus", written from an outdated copy
    analyses,   \* history: every result an analysis has stored
    operations  \* operations begun

structureVars ==
    <<document, children, corpus, patterns, templates, caller, crossed, analyses,
      operations>>

NoRows == [k \in Kinds |-> {}]

StructureInit ==
    /\ document = [d \in Documents |-> Gone]
    /\ children = [d \in Documents |-> NoRows]
    /\ corpus = Gone
    /\ patterns = NoRows
    /\ templates = {}
    /\ caller = [c \in Callers |-> Ready]
    /\ crossed = {}
    /\ analyses = {}
    /\ operations = 0

At(c, op) == caller[c] # Ready /\ caller[c].op = op

\* What c is doing next; a write of `thing' outdates the copies of the others.
Go(c, next) == caller' = [caller EXCEPT ![c] = next]

Wrote(c, thing, next) ==
    caller' = [x \in Callers |->
        IF x = c THEN next
        ELSE IF caller[x] # Ready /\ caller[x].about = thing
             THEN [caller[x] EXCEPT !.outdated = TRUE]
        ELSE caller[x]]

Cross(c, thing) ==
    crossed' = IF caller[c].outdated THEN crossed \cup {thing} ELSE crossed

---------------------------------------------------------------------------
\* Bundles.

\* Mutant: only the document row is deleted before the bundle is stored.
StoredChildrenAdded(d, rows) == [k \in Kinds |-> children[d][k] \cup rows[k]]

\* create_bundle deletes the rows of the id and adds those of the bundle.
StoredChildren(d, rows) == rows

\* create, or the end of an extraction of the document.
Create(c, d, content) ==
    /\ caller[c] = Ready
    /\ document' = [document EXCEPT ![d] = [of |-> content, linked |-> FALSE]]
    /\ children' = [children EXCEPT ![d] = StoredChildren(d, [k \in Kinds |-> {content}])]
    /\ Wrote(c, d, Ready)
    /\ crossed' = crossed \ {d}
    /\ UNCHANGED <<corpus, patterns, templates, analyses>>

Delete(c, d) ==
    /\ caller[c] = Ready
    /\ document[d] # Gone
    /\ document' = [document EXCEPT ![d] = Gone]
    /\ children' = [children EXCEPT ![d] = NoRows]
    /\ Wrote(c, d, Ready)
    /\ crossed' = crossed \ {d}
    /\ UNCHANGED <<corpus, patterns, templates, analyses>>

\* link_to_vdb_records: get_bundle reads the document and then each kind of
\* child in a session of its own; the whole bundle is stored again.
Link(c, d) ==
    /\ caller[c] = Ready
    /\ document[d] # Gone
    /\ Go(c, [op |-> "link", about |-> d, outdated |-> FALSE,
              of |-> document[d].of, rows |-> NoRows, left |-> Kinds])
    /\ UNCHANGED <<document, children, corpus, patterns, templates, crossed, analyses>>

NextKind(left) == IF "sections" \in left THEN "sections" ELSE "styles"

LinkReads(c) ==
    /\ At(c, "link")
    /\ caller[c].left # {}
    /\ LET k == NextKind(caller[c].left) IN
       Go(c, [caller[c] EXCEPT !.rows[k] = children[caller[c].about][k], !.left = @ \ {k}])
    /\ UNCHANGED <<document, children, corpus, patterns, templates, crossed, analyses>>

LinkWrites(c) ==
    /\ At(c, "link")
    /\ caller[c].left = {}
    /\ LET d == caller[c].about IN
       /\ document' = [document EXCEPT ![d] = [of |-> caller[c].of, linked |-> TRUE]]
       /\ children' = [children EXCEPT ![d] = StoredChildren(d, caller[c].rows)]
       /\ Wrote(c, d, Ready)
       /\ Cross(c, d)
    /\ UNCHANGED <<corpus, patterns, templates, analyses>>

---------------------------------------------------------------------------
\* The corpus and its patterns.

Unanalysed == NoRows

CorpusCreate(c, members) ==
    /\ caller[c] = Ready
    /\ corpus' = [members |-> members, summary |-> Unanalysed]
    /\ Wrote(c, "corpus", Ready)
    /\ UNCHANGED <<document, children, patterns, templates, crossed, analyses>>

\* update reads the row, changes its fields and replaces it.
CorpusUpdate(c) ==
    /\ caller[c] = Ready
    /\ corpus # Gone
    /\ Go(c, [op |-> "update", about |-> "corpus", outdated |-> FALSE, copy |-> corpus])
    /\ UNCHANGED <<document, children, corpus, patterns, templates, crossed, analyses>>

\* With metadata among the fields it drops the scores, which are kept there; a
\* caller who passes scores of its own is left out.
CorpusUpdateWrites(c, members) ==
    /\ At(c, "update")
    /\ \E summary \in {caller[c].copy.summary, Unanalysed} :
          corpus' = [members |-> members, summary |-> summary]
    /\ Wrote(c, "corpus", Ready)
    /\ Cross(c, "corpus")
    /\ UNCHANGED <<document, children, patterns, templates, analyses>>

\* Mutant: the patterns of a deleted corpus stay.
PatternsAfterDeleteKept == patterns

PatternsAfterDelete == NoRows

CorpusDelete(c) ==
    /\ caller[c] = Ready
    /\ corpus # Gone
    /\ corpus' = Gone
    /\ patterns' = PatternsAfterDelete
    /\ Wrote(c, "corpus", Ready)
    /\ UNCHANGED <<document, children, templates, crossed, analyses>>

\* analyse works through the members of the corpus it read.
Analyse(c) ==
    /\ caller[c] = Ready
    /\ corpus # Gone
    /\ Go(c, [op |-> "analyse", about |-> "corpus", outdated |-> FALSE, copy |-> corpus,
              left |-> corpus.members \X Kinds, found |-> NoRows, stored |-> FALSE])
    /\ UNCHANGED <<document, children, corpus, patterns, templates, crossed, analyses>>

\* get_bundle of the next member; one that is gone is passed over.
AnalyseReads(c, d) ==
    /\ At(c, "analyse")
    /\ {d} \X Kinds \subseteq caller[c].left
    /\ \A e \in Documents, k \in Kinds :       \* no other bundle half read
          <<e, k>> \in caller[c].left => {e} \X Kinds \subseteq caller[c].left
    /\ Go(c, [caller[c] EXCEPT
                 !.found["sections"] = @ \cup children[d]["sections"],
                 !.left = @ \ (IF document[d] = Gone THEN {d} \X Kinds ELSE {<<d, "sections">>})])
    /\ UNCHANGED <<document, children, corpus, patterns, templates, crossed, analyses>>

AnalyseReadsOn(c, d) ==
    /\ At(c, "analyse")
    /\ {k \in Kinds : <<d, k>> \in caller[c].left} = {"styles"}
    /\ Go(c, [caller[c] EXCEPT !.found["styles"] = @ \cup children[d]["styles"],
                               !.left = @ \ {<<d, "styles">>}])
    /\ UNCHANGED <<document, children, corpus, patterns, templates, crossed, analyses>>

\* Mutant: the patterns of the last analysis are not deleted first.
ReplacedAdded(found) == [k \in Kinds |-> patterns[k] \cup found[k]]

Replaced(found) == found

\* replace_patterns, then upsert_corpus with the copy read at the start.
AnalyseStores(c) ==
    /\ At(c, "analyse")
    /\ caller[c].left = {}
    /\ ~caller[c].stored
    /\ patterns' = Replaced(caller[c].found)
    /\ analyses' = analyses \cup {caller[c].found}
    /\ Wrote(c, "corpus", [caller[c] EXCEPT !.stored = TRUE])
    /\ UNCHANGED <<document, children, corpus, templates, crossed>>

AnalyseFinishes(c) ==
    /\ At(c, "analyse")
    /\ caller[c].stored
    /\ corpus' = [caller[c].copy EXCEPT !.summary = caller[c].found]
    /\ Wrote(c, "corpus", Ready)
    /\ crossed' = IF caller[c].outdated THEN crossed \cup {"corpus"} ELSE crossed \ {"corpus"}
    /\ UNCHANGED <<document, children, patterns, templates, analyses>>

\* An error, or the end of the process, between the two writes.
AnalyseFails(c) ==
    /\ At(c, "analyse")
    /\ caller[c].stored
    /\ Go(c, Ready)
    /\ crossed' = crossed \cup {"corpus"}
    /\ UNCHANGED <<document, children, corpus, patterns, templates, analyses>>

---------------------------------------------------------------------------
\* Templates: the patterns of each kind are listed in a session of their own.

Generate(c) ==
    /\ caller[c] = Ready
    /\ corpus # Gone
    /\ patterns["sections"] # {}
    /\ Go(c, [op |-> "generate", about |-> "corpus", outdated |-> FALSE,
              sections |-> patterns["sections"]])
    /\ UNCHANGED <<document, children, corpus, patterns, templates, crossed, analyses>>

GenerateStores(c) ==
    /\ At(c, "generate")
    /\ Cardinality(templates) < MaxTemplates
    /\ templates' = templates \cup
           {[sections |-> caller[c].sections, styles |-> patterns["styles"],
             crossed |-> caller[c].outdated]}
    /\ Go(c, Ready)
    /\ UNCHANGED <<document, children, corpus, patterns, crossed, analyses>>

TemplateDelete(c, t) ==
    /\ caller[c] = Ready
    /\ templates' = templates \ {t}
    /\ UNCHANGED <<document, children, corpus, patterns, caller, crossed, analyses>>

Begins(c) ==
    \/ \E d \in Documents :
          \/ \E content \in Contents : Create(c, d, content)
          \/ Delete(c, d)
          \/ Link(c, d)
    \/ \E members \in SUBSET Documents : CorpusCreate(c, members)
    \/ CorpusUpdate(c)
    \/ CorpusDelete(c)
    \/ Analyse(c)
    \/ Generate(c)
    \/ \E t \in templates : TemplateDelete(c, t)

Continues(c) ==
    \/ LinkReads(c)
    \/ LinkWrites(c)
    \/ \E members \in SUBSET Documents : CorpusUpdateWrites(c, members)
    \/ \E d \in Documents : AnalyseReads(c, d) \/ AnalyseReadsOn(c, d)
    \/ AnalyseStores(c)
    \/ AnalyseFinishes(c)
    \/ AnalyseFails(c)
    \/ GenerateStores(c)

StructureNext ==
    \E c \in Callers :
        \/ /\ operations < MaxOperations
           /\ operations' = operations + 1
           /\ Begins(c)
        \/ /\ operations' = operations
           /\ Continues(c)

StructureSpec == StructureInit /\ [][StructureNext]_structureVars

---------------------------------------------------------------------------
(* What the stores promise as long as no copy is written back outdated. *)

\* A stored bundle is the outcome of one extraction: a deleted document leaves
\* no child rows, and unless a link was written over a newer bundle every kind
\* of child comes from the extraction that stored the document
\* (repository.py:64-160, service.py:297-320 of structure/).
WholeBundles ==
    \A d \in Documents :
        /\ document[d] = Gone => children[d] = NoRows
        /\ document[d] # Gone /\ d \notin crossed =>
               \A k \in Kinds : children[d][k] = {document[d].of}

\* The scores of an analysed corpus and its patterns are of the same analysis,
\* and a deleted corpus leaves no patterns, except while an analysis is between
\* its two writes or after one was overtaken or cut short (corpus.py:105-245).
AnalysisCoherent ==
    "corpus" \notin crossed /\ (\A c \in Callers : At(c, "analyse") => ~caller[c].stored) =>
        /\ corpus = Gone => patterns = NoRows
        /\ corpus # Gone /\ corpus.summary # Unanalysed => patterns = corpus.summary

\* A template whose generation no analysis overlapped has its sections and its
\* style guide from one analysis (templates.py:54-115).
TemplateOfOneAnalysis ==
    \A t \in templates :
        ~t.crossed => [sections |-> t.sections, styles |-> t.styles] \in analyses

=============================================================================
