-------------------------------- MODULE Lists --------------------------------
(***************************************************************************)
(* Lists as the operator's Go code walks them: from the first element to   *)
(* the last, with a result that grows along the way.                       *)
(***************************************************************************)
EXTENDS Naturals, Sequences, SequencesExt

\* The elements of the list that are in the set, in order: manifestival's Filter,
\* and the loops that copy some of the entries of a list.
Only(list, set) ==
    LET kept[i \in 0..Len(list)] ==
          IF i = 0 THEN <<>>
          ELSE IF list[i] \in set THEN Append(kept[i - 1], list[i]) ELSE kept[i - 1]
    IN kept[Len(list)]
=============================================================================
