--------------------------- MODULE ManagedMemory ---------------------------
(***************************************************************************)
(* The managed part of MEMORY.md (core/memory/persona.py), as operators.   *)
(* A document is the sequence of its entries in document order, grouped by *)
(* section: what managed_entries() numbers.  Items that differ only in     *)
(* white space or case count as one item.                                  *)
(***************************************************************************)
EXTENDS Naturals, Sequences, FiniteSets, SequencesExt

CONSTANTS
    Sections,  \* section titles
    Misc,      \* "user_facts", where consolidation puts what it does not know
    Items,     \* texts of entries
    MaxItems,  \* max_items of merge_managed  (code: 12)
    Cap        \* CONSOLIDATE_CAP             (code: 40)

ASSUME MemoryConstants ==
    Misc \in Sections /\ MaxItems \in Nat \ {0} /\ Cap \in Nat \ {0}

Entry == [sec : Sections, item : Items]

UpTo(s, n) == IF Len(s) > n THEN SubSeq(s, 1, n) ELSE s

\* The elements of `s' at some places, by rank: `upTo' has for each of these places the
\* ones that come no later.
Ranked(s, upTo) ==
    [n \in 1 .. Cardinality(DOMAIN upTo) |->
        s[CHOOSE i \in DOMAIN upTo : Cardinality(upTo[i]) = n]]

\* In the order they stand.
Picked(s, places) == Ranked(s, [i \in places |-> {j \in places : j <= i}])

\* Section after section, as the sections first occur: what _write_managed() writes.
Begin(doc, i) ==
    CHOOSE j \in DOMAIN doc : doc[j].sec = doc[i].sec
                              /\ \A k \in DOMAIN doc : doc[k].sec = doc[i].sec => j <= k
NoLater(doc, j, i) ==
    Begin(doc, j) < Begin(doc, i) \/ (doc[j].sec = doc[i].sec /\ j <= i)

Written(doc, places) == Ranked(doc, [i \in places |-> {j \in places : NoLater(doc, j, i)}])

\* Each entry once, where it first occurs.
Firsts(doc) == {i \in DOMAIN doc : \A j \in 1 .. i - 1 : doc[j] # doc[i]}

\* Mutant of Merge: the new items go in front of the ones in place.
MergeInFront(doc, new) == Written(new \o doc, Firsts(new \o doc))

\* Mutant of Merge: a section grows without bound.
MergeUncapped(doc, new) == Written(doc \o new, Firsts(doc \o new))

\* New items go to the end of their section; a full section takes none.
Merge(doc, new) ==
    LET all == doc \o new
        ahead(i) == {j \in Firsts(all) : all[j].sec = all[i].sec /\ j <= i}
    IN  Written(all, {i \in Firsts(all) : Cardinality(ahead(i)) <= MaxItems})

\* Both commands resolve the number to an entry and touch the first one like it.
FirstLike(doc, n) == CHOOSE i \in 1 .. n : doc[i] = doc[n] /\ \A j \in 1 .. i - 1 : doc[j] # doc[n]

DeleteEntry(doc, n) == RemoveAt(doc, FirstLike(doc, n))
EditEntry(doc, n, item) == ReplaceAt(doc, FirstLike(doc, n), [doc[n] EXCEPT !.item = item])

\* The model answers consolidation with a flat list of texts; a text goes back to
\* the last section that held it.
SectionOf(doc, item) ==
    LET at == {i \in DOMAIN doc : doc[i].item = item}
    IN  IF at = {} THEN Misc ELSE doc[CHOOSE i \in at : \A j \in at : j <= i].sec

Rebuilt(doc, items) ==
    LET entries == [i \in DOMAIN items |-> [sec |-> SectionOf(doc, items[i]), item |-> items[i]]]
    IN  Written(entries, DOMAIN entries)
=============================================================================
