------------------------------ MODULE MCShell ------------------------------
(* A window of three short rows, three programs of which the largest does     *)
(* not fit, and a volume with files that go wrong in every way.      *)
EXTENDS Shell

Segment(p_vaddr, p_memsz) == [p_vaddr |-> p_vaddr, p_memsz |-> p_memsz]
Program(segments) == [elf |-> TRUE, exec |-> TRUE, segments |-> segments]

Written == {<<"o">>, <<"o", "o", NewLine, "o", NewLine>>}

\* app lies in the middle of the upper half, and its segments share a page; big
\* lies with the stack and the arguments and never fits; mid is in its place.
Files ==
  [app |-> Program(<<Segment(33 * 4 + 3, 6), Segment(35 * 4 + 3, 6)>>),
   big |-> Program(<<Segment(52 * 4, 32)>>),
   mid |-> Program(<<Segment(52 * 4, 4)>>),
   short |-> Program(<<Segment(32 * 4, 4)>>),
   text |-> [elf |-> FALSE, exec |-> FALSE, segments |-> <<>>],
   low |-> Program(<<Segment(4, 4)>>)]

Table == (2 :> 10 @@ 10 :> 8 @@ 3 :> 6 @@ 4 :> 9 @@ 5 :> 0 @@ 6 :> 8 @@ 7 :> 9)
RootDirectory ==
  (2 :> <<DirectoryEntry("app", FALSE, 3, 3), DirectoryEntry("big", TRUE, 4, 2),
          DirectoryEntry("short", FALSE, 5, 4)>> @@
   10 :> <<DirectoryEntry("text", FALSE, 7, 1), DirectoryEntry("low", FALSE, 7, 2),
           DirectoryEntry("mid", FALSE, 7, 1)>>)
FileNames == DOMAIN Files \cup {"missing"}
=============================================================================
