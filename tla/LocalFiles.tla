----------------------------- MODULE LocalFiles -----------------------------
(***************************************************************************)
(* The stores that are loaded from a file when a service starts: profiles  *)
(* (utilities/local_profile_loader), the item index                        *)
(* (ranking/local_file_item_index_store.cpp, item_index_store.cpp) and the *)
(* similarities of the retrievers (base/local_file_similarity_jsonl_       *)
(* parser.cpp and its two stores).                                         *)
(*                                                                         *)
(* A line is empty, blank (white space only), bad (what the parser of this *)
(* file rejects whatever the id), or a row: an id with its payload.  Files *)
(* are read to their end: the loaders cannot tell an error in the middle   *)
(* of reading from it (getline and rdbuf just stop), and the model has no  *)
(* such error.                                                             *)
(***************************************************************************)
EXTENDS Integers, Sequences, SequencesExt, TLC

Row(id, payload) == [kind |-> "row", id |-> id, payload |-> payload]
Line(kind) == [kind |-> kind, id |-> 0, payload |-> 0]

\* A file of lines, or one JSON array whose elements are the lines.
Jsonl(lines) == [array |-> FALSE, lines |-> lines]
JsonArray(lines) == [array |-> TRUE, lines |-> lines]

NoStore == [loaded |-> FALSE, rows |-> <<>>]
Loaded(rows) == [loaded |-> TRUE, rows |-> rows]

\* A later row replaces an earlier one of the same id; other lines add nothing.
AddRow(rows, line) ==
  IF line.kind = "row"
  THEN [id \in DOMAIN rows \cup {line.id} |->
          IF id = line.id THEN line.payload ELSE rows[id]]
  ELSE rows

\* Mutant of Load: the rows up to the first line that is not valid are kept.
LoadUpToBadLine(lines, skipped, valid) ==
  LET bad == SelectInSeq(lines, LAMBDA l : l.kind \notin skipped /\ l \notin valid) IN
  Loaded(FoldLeft(AddRow, <<>>, IF bad = 0 THEN lines ELSE SubSeq(lines, 1, bad - 1)))

\* A load is all or nothing: one line that cannot be parsed throws it away.
Load(lines, skipped, valid) ==
  IF \A i \in DOMAIN lines : lines[i].kind \in skipped \/ lines[i] \in valid
  THEN Loaded(FoldLeft(AddRow, <<>>, lines))
  ELSE NoStore

Blank == {"empty", "blank"}

Rows(lines) == {l \in ToSet(lines) : l.kind = "row"}

\* Any user id is taken, also 0, which is what a profile without one has.
LoadProfilesFromJsonlFile(file) ==
  IF file.array THEN NoStore ELSE Load(file.lines, Blank, Rows(file.lines))

ParsesAsEntry(l) == l.id > 0

LoadItemIndexFromFile(file) ==
  Load(file.lines, IF file.array THEN {} ELSE Blank,
       {l \in Rows(file.lines) : ParsesAsEntry(l)})

ParsesAsSimilarity(l) == l.id > 0

\* Only lines without any character are skipped here: a blank one does not parse.
LoadSimilarityFromJsonlFile(file) ==
  IF file.array THEN NoStore
  ELSE Load(file.lines, {"empty"}, {l \in Rows(file.lines) : ParsesAsSimilarity(l)})
=============================================================================
