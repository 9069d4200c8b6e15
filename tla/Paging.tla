------------------------------- MODULE Paging -------------------------------
(***************************************************************************)
(* The page tables of paging.cpp.  An entry is named by the indices that   *)
(* lead to it: <<i>> is entry i of the PML4 table, <<i, j>> entry j of the *)
(* table below it, and an entry of full length holds a page.  Every entry  *)
(* below the upper half of the PML4 table refers to a frame of its own.    *)
(* The identity mapping of InitializePagetable, in the lower half, is      *)
(* never touched and not modelled.                                         *)
(***************************************************************************)
EXTENDS Integers, SequencesExt, FiniteSetsExt, Functions

CONSTANTS
  Levels,     \* 4
  Entries     \* of a table, 512

ASSUME PagingAssumption == Levels \in Nat \ {0} /\ Entries \in Nat \ {0, 1}

PageCount == Entries^Levels

\* LinearAddress4Level: the parts of a page's address, PML4 first.
Parts(page) == [i \in 1 .. Levels |-> (page \div Entries^(Levels - i)) % Entries]
Entry(page, i) == SubSeq(Parts(page), 1, i)

\* Every entry on the way to a page.
EntriesTo(page) == {Entry(page, i) : i \in 1 .. Levels}

\* Allocate finds the lowest free frame.
SetNewPageMapIfNotPresent(maps, entry) ==
  IF maps.error \/ entry \in DOMAIN maps.frame THEN maps
  ELSE IF maps.free = {} THEN [maps EXCEPT !.error = TRUE]
  ELSE [maps EXCEPT !.frame = [e \in DOMAIN @ \cup {entry} |->
                                 IF e = entry THEN Min(maps.free) ELSE @[e]],
                    !.free = @ \ {Min(@)}]

\* SetupPageMap, page after page, from the PML4 table down.  It ends at the end
\* of the PML4 table too, without an error.  On an error what was done stays.
SetupPageMaps(maps, page, num_4kpages) ==
  LET count == Min({num_4kpages, PageCount - page})
      visited == [k \in 1 .. count * Levels |->
                    Entry(page + (k - 1) \div Levels, ((k - 1) % Levels) + 1)]
  IN  FoldLeft(SetNewPageMapIfNotPresent, [maps EXCEPT !.error = FALSE], visited)

\* Wrong: the table that the PML4 entry refers to is not freed.
CleanPageMaps_KeepsTable(maps, page) ==
  LET gone == {e \in DOMAIN maps.frame : e[1] = Parts(page)[1]}
  IN  [maps EXCEPT !.frame = Restrict(@, DOMAIN @ \ gone),
                   !.free = @ \cup {maps.frame[e] : e \in {g \in gone : Len(g) > 1}}]

\* All that one entry of the PML4 table leads to, CleanPageMap and the entry.
CleanPageMaps(maps, page) ==
  LET gone == {e \in DOMAIN maps.frame : e[1] = Parts(page)[1]}
  IN  [maps EXCEPT !.frame = Restrict(@, DOMAIN @ \ gone),
                   !.free = @ \cup {maps.frame[e] : e \in gone}]

\* What the tables map.
Mapped(maps) == {page \in 0 .. PageCount - 1 : EntriesTo(page) \subseteq DOMAIN maps.frame}
=============================================================================
