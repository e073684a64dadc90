----------------------------- MODULE Similarity ----------------------------
(***************************************************************************)
(* Comparing the section types of documents (index_tools/structure):       *)
(* the edit distance of distance.py, computed row by row as there, and the *)
(* matching of a document with a template in templates.py.                 *)
(***************************************************************************)
EXTENDS Integers, Sequences, FiniteSets, SequencesExt, FiniteSetsExt

CONSTANTS
    Types,      \* section types
    MaxLength   \* bound: sections of a document

ASSUME MaxLengthAssumption == MaxLength \in Nat

VARIABLE compared

Triples == [a : SeqOf(Types, MaxLength), b : SeqOf(Types, MaxLength), c : SeqOf(Types, MaxLength)]

SimilarityInit == compared \in Triples

SimilarityNext == UNCHANGED compared

SimilaritySpec == SimilarityInit /\ [][SimilarityNext]_compared

Least(s) == Min(s)

\* Mutant: replacing a token by the same one costs as much as by another.
SubstitutionFlat(x, y) == 1

Substitution(x, y) == IF x = y THEN 0 ELSE 1

\* One row of the table from the row before it.
Row(previous, token, b) ==
    LET cell[j \in 0..Len(b)] ==
            IF j = 0 THEN previous[0] + 1
            ELSE Least({cell[j - 1] + 1, previous[j] + 1,
                        previous[j - 1] + Substitution(token, b[j])})
    IN  cell

Levenshtein(a, b) ==
    LET rows[i \in 0..Len(a)] ==
            IF i = 0 THEN [j \in 0..Len(b) |-> j] ELSE Row(rows[i - 1], a[i], b)
    IN  IF a = b THEN 0
        ELSE IF a = <<>> THEN Len(b)
        ELSE IF b = <<>> THEN Len(a)
        ELSE rows[Len(a)][Len(b)]

\* match: every section of the template takes one section of its type from
\* what is left of the document.
Alignment(template, document) ==
    LET left[i \in 0..Len(template)] ==
            IF i = 0 THEN document
            ELSE IF template[i] \in ToSet(left[i - 1])
                 THEN RemoveFirst(left[i - 1], template[i])
                 ELSE left[i - 1]
        taken == {i \in 1..Len(template) : template[i] \in ToSet(left[i - 1])}
    IN  [matched |-> taken, missing |-> (1..Len(template)) \ taken, extra |-> left[Len(template)]]

---------------------------------------------------------------------------

\* What one edit makes of a sequence.
Edits(a) ==
    {InsertAt(a, i, x) : i \in 1..(Len(a) + 1), x \in Types} \cup
    {ReplaceAt(a, i, x) : i \in 1..Len(a), x \in Types} \cup
    {RemoveAt(a, i) : i \in 1..Len(a)}

\* The table computes the least number of edits: an edit changes the distance
\* by at most one, and one of them brings any two different sequences closer.
\* Beside it, the matching of a template finds at least the sections that the
\* distance leaves in place, though it does not look at their order
\* (distance.py:28-63, templates.py:150-198).
DistanceCountsEdits ==
    LET a == compared.a  b == compared.b  c == compared.c
        longer == IF Len(a) < Len(b) THEN Len(b) ELSE Len(a)
    IN  /\ Levenshtein(a, b) = 0 <=> a = b
        /\ Levenshtein(a, c) <= Levenshtein(a, b) + Levenshtein(b, c)
        /\ a # b => \E e \in Edits(a) : Levenshtein(e, b) = Levenshtein(a, b) - 1
        /\ longer - Levenshtein(a, b) <= Cardinality(Alignment(a, b).matched)

=============================================================================
