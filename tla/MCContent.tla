----------------------------- MODULE MCContent -----------------------------
\* The machines of the stored content side by side: a behaviour runs the one
\* that `part' names, the others keep their first state.  Of the records one at
\* least matches the filter on both sides.
EXTENDS Spreadsheet, Structure, Removal, Retrieval, Similarity, Extraction

VARIABLE part

MCParts == {"spreadsheet", "structure", "removal", "retrieval", "similarity", "extraction"}

MCInquiry == CHOOSE q \in Inquiries : TRUE
MCTriple == CHOOSE t \in Triples : TRUE

mcVars == <<sheetVars, structureVars, removalVars, inquiry, compared, extractionVars, part>>

MCInit ==
    /\ part \in MCParts
    /\ SheetInit
    /\ StructureInit
    /\ RemovalInit
    /\ \E r \in Records : selects[r] = {"process", "store"}
    /\ part # "removal" => \A r \in Records : selects[r] = {"process", "store"}
    /\ ExtractionInit
    /\ IF part = "retrieval" THEN RetrievalInit ELSE inquiry = MCInquiry
    /\ IF part = "similarity" THEN SimilarityInit ELSE compared = MCTriple

MCNext ==
    /\ \/ /\ part = "spreadsheet" /\ SheetNext
          /\ UNCHANGED <<structureVars, removalVars, inquiry, compared, extractionVars>>
       \/ /\ part = "structure" /\ StructureNext
          /\ UNCHANGED <<sheetVars, removalVars, inquiry, compared, extractionVars>>
       \/ /\ part = "removal" /\ RemovalNext
          /\ UNCHANGED <<sheetVars, structureVars, inquiry, compared, extractionVars>>
       \/ /\ part = "retrieval" /\ RetrievalNext
          /\ UNCHANGED <<sheetVars, structureVars, removalVars, compared, extractionVars>>
       \/ /\ part = "similarity" /\ SimilarityNext
          /\ UNCHANGED <<sheetVars, structureVars, removalVars, inquiry, extractionVars>>
       \/ /\ part = "extraction" /\ ExtractionNext
          /\ UNCHANGED <<sheetVars, structureVars, removalVars, inquiry, compared>>
    /\ UNCHANGED part

MCSpec == MCInit /\ [][MCNext]_mcVars

\* The machines share model values, so that three sets carry the symmetry of
\* all: Documents and Records are Collections, Contents and Jobs are Objects,
\* and Clients are Callers.
MCSymmetry == UNION {Permutations(s) : s \in {Collections, Objects, Callers}}
=============================================================================
