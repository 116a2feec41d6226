--------------------------- MODULE MCLibraryFiles ---------------------------
(***************************************************************************)
(* Two downloads of one book in one folder, the second better than the     *)
(* first, and a third one that comes at the path the first one had.        *)
(***************************************************************************)
EXTENDS LibraryFiles

CONSTANTS a, b, c, first, second, f

MCFolderOf  == [s \in Slots |-> f]
MCSlotOf    == [x \in Contents |-> IF x = b THEN second ELSE first]
MCBookOf    == [x \in Contents |-> "book"]
MCPartOf    == [x \in Contents |-> "part"]
MCQualityOf == [x \in Contents |-> IF x = b THEN 2 ELSE 1]
=============================================================================
