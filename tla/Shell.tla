------------------------------- MODULE Shell -------------------------------
(***************************************************************************)
(* The terminal task with a user at its keyboard: lines are edited and     *)
(* executed, files are loaded from the FAT volume (fat.cpp, elf.cpp) into  *)
(* pages of their own (paging.cpp) and run until they call Exit            *)
(* (syscall.cpp).  What the main task is asked to draw it draws (Layers).  *)
(*                                                                         *)
(* Which command a line names is left open: any command may be meant by a  *)
(* line that is not empty.                                                 *)
(***************************************************************************)
EXTENDS Terminal, Paging, Fat

CONSTANTS
  Chars,        \* what is typed
  Texts,        \* what commands and programs write
  Names,        \* the names of files that commands mention
  Image,        \* what is in each file
  Frames,       \* the frames that are free after boot
  PageBytes     \* 4096

\* Every program is linked to lie under one entry of the PML4 table
\* (--image-base in apps/Makefile.elfapp), and takes up some memory.
ASSUME ImageAssumption ==
  \A name \in DOMAIN Image : \A i \in DOMAIN Image[name].segments :
    LET s == Image[name].segments[i]
    IN  /\ s.p_memsz > 0
        /\ s.p_vaddr + s.p_memsz <= PageCount * PageBytes
        /\ Parts(s.p_vaddr \div PageBytes)[1]
             = Parts(Image[name].segments[1].p_vaddr \div PageBytes)[1]

VARIABLES
  term,      \* the Terminal object
  file,      \* the file that is running, or NoFile
  buf,       \* file_buf
  maps,      \* the page tables of the upper half and the free frames
  failed,    \* a program could not be loaded completely
  output     \* where the running program was called and where it wrote last

vars == <<term, file, buf, maps, failed, output>>

\* No program runs: the cell of the cursor when it was called, and the row in
\* which its last output began, kRows before the first.
NoOutput == [called |-> <<0, 0>>, from |-> 0]

StackPage == PageCount - 2
ArgsPage == PageCount - 1

-----------------------------------------------------------------------------
(* elf.cpp and ExecuteFile.                                                *)

\* Wrong: the start of the segment in its page is not counted.
PagesOf_Aligned(s) == (s.p_memsz + PageBytes - 1) \div PageBytes

PagesOf(s) == ((s.p_vaddr % PageBytes) + s.p_memsz + PageBytes - 1) \div PageBytes

CopyLoadSegments(m, segments) ==
  FoldLeft(LAMBDA n, s : IF n.error THEN n
                         ELSE SetupPageMaps(n, s.p_vaddr \div PageBytes, PagesOf(s)),
           m, segments)

GetFirstLoadAddress(image) ==
  IF image.segments = <<>> THEN 0 ELSE image.segments[1].p_vaddr

\* LoadElf: an executable for the upper half of the address space.
IsLoadable(image) ==
  image.exec /\ GetFirstLoadAddress(image) >= (PageCount \div 2) * PageBytes

\* LoadElf, the page for the stack and the page for the arguments.
MapProgram(m, image) ==
  LET loaded == CopyLoadSegments([m EXCEPT !.error = FALSE], image.segments)
      stack == IF loaded.error THEN loaded ELSE SetupPageMaps(loaded, StackPage, 1)
  IN  IF stack.error THEN stack ELSE SetupPageMaps(stack, ArgsPage, 1)

-----------------------------------------------------------------------------
(* The keyboard.                                                           *)

AtPrompt == file = NoFile

Type ==
  /\ AtPrompt
  /\ \/ \E c \in Chars : term' = InputChar(term, c)
     \/ term' = Backspace(term)
     \/ \E direction \in {-1, 1} : term' = HistoryUpDown(term, direction)
  /\ UNCHANGED <<file, buf, maps, failed, output>>

Blink ==
  /\ AtPrompt
  /\ term' = BlinkCursor(term)
  /\ UNCHANGED <<file, buf, maps, failed, output>>

\* The end of the case of Enter in InputKey: a prompt, and the whole window.
Return(t) == term' = AskToDraw(PrintText(t, Prompt), AllCells)

NotEmpty == term.linebuf # <<>>

\* ExecuteLine: nothing, clear, and what only writes: echo, ls, lspci.
SimpleCommand ==
  /\ AtPrompt
  /\ \/ Return(Enter(term))
     \/ NotEmpty /\ Return(Clear(Enter(term)))
     \/ NotEmpty /\ \E s \in Texts : Return(PrintText(Enter(term), s))
  /\ UNCHANGED <<file, buf, maps, failed, output>>

\* What a command may find under some name.
Found == UNION {FindFile(name) : name \in Names}

\* What cat writes: the bytes of the file, or that there is none.
CatTexts == {IF entry = NoFile THEN <<"?", NewLine>> ELSE [i \in DOMAIN LoadFile(entry) |-> "x"]
               : entry \in Found}

\* cat, with the clusters of the file one after the other.  Without an argument
\* what lies at address 0 is taken for the name, and may be any.
Cat ==
  /\ AtPrompt /\ NotEmpty
  /\ \E text \in CatTexts : Return(FoldLeft(PrintChar, Enter(term), text))
  /\ UNCHANGED <<file, buf, maps, failed, output>>

\* There is such a file, its chain holds it all and it is an executable.
IsProgram(entry) ==
  /\ entry # NoFile
  /\ Len(LoadFile(entry)) = entry.file_size
  /\ Image[entry.name].elf
  /\ IsLoadable(Image[entry.name])

Programs == {entry \in Found : IsProgram(entry)}

\* The commands that end in an error, or in the code of a file that is not ELF.
NotStarted ==
  /\ AtPrompt /\ NotEmpty
  /\ Programs # Found
  /\ \E s \in Texts : Return(PrintText(Enter(term), s))
  /\ UNCHANGED <<file, buf, maps, failed, output>>

\* ExecuteFile up to CallApp.  MakeArgVector may find that there are too many
\* arguments, or take what lies at address 0 for them if there are none; the
\* pages stay then too.
ExecuteFile ==
  /\ AtPrompt /\ NotEmpty
  /\ \E entry \in Programs :
       /\ maps' = MapProgram(maps, Image[entry.name])
       /\ \/ /\ Return(PrintText(Enter(term), <<"?", NewLine>>))
             /\ failed' = TRUE
             /\ UNCHANGED <<file, buf, output>>
          \/ /\ ~maps'.error
             /\ file' = entry
             /\ buf' = LoadFile(entry)
             /\ term' = Enter(term)
             /\ output' = [called |-> <<term.y, term.x>>, from |-> kRows]
             /\ UNCHANGED failed

-----------------------------------------------------------------------------
(* The program that runs.                                                  *)

\* The system call PutString.
PutString ==
  /\ ~AtPrompt
  /\ \E s \in Texts : term' = PrintText(term, s)
  /\ output' = [output EXCEPT !.from = term.y]
  /\ UNCHANGED <<file, buf, maps, failed>>

\* Wrong: the pages around the stack are cleaned up, not the program's.
Exit_KeepsPages ==
  /\ ~AtPrompt
  /\ maps' = CleanPageMaps(maps, StackPage)
  /\ file' = NoFile /\ buf' = <<>> /\ output' = NoOutput
  /\ Return(term)
  /\ UNCHANGED failed

\* The system call Exit; ExecuteFile goes on after CallApp.
Exit ==
  /\ ~AtPrompt
  /\ maps' = CleanPageMaps(maps, GetFirstLoadAddress(Image[file.name]) \div PageBytes)
  /\ file' = NoFile /\ buf' = <<>> /\ output' = NoOutput
  /\ Return(term)
  /\ UNCHANGED failed

-----------------------------------------------------------------------------

Init ==
  /\ term = AskToDraw(PrintText(NewTerminal, Prompt), AllCells)   \* Activate
  /\ file = NoFile /\ buf = <<>>
  /\ maps = [frame |-> <<>>, free |-> Frames, error |-> FALSE]
  /\ failed = FALSE
  /\ output = NoOutput

Next ==
  \/ Type \/ Blink
  \/ SimpleCommand \/ Cat \/ NotStarted \/ ExecuteFile
  \/ PutString \/ Exit

Spec == Init /\ [][Next]_vars

-----------------------------------------------------------------------------
(* Properties.                                                             *)

\* What is executed is what the user sees: the typed line stands left of the
\* cursor, however it was edited, recalled and typed over, and even where the
\* user has erased the prompt.
LineShown ==
  AtPrompt => /\ Len(term.linebuf) <= term.x
              /\ \A i \in DOMAIN term.linebuf :
                   term.row[term.x - Len(term.linebuf) + i - 1] = term.linebuf[i]


\* No frame is lost and none is used twice, however loading a program ends.
FramesAccounted ==
  /\ IsInjective(maps.frame)
  /\ maps.free \cap Range(maps.frame) = {}
  /\ maps.free \cup Range(maps.frame) = Frames

\* As long as nothing failed, a program that has exited leaves no page behind but
\* the stack and the arguments: the memory it had is there for the next one.
MemoryComesBack ==
  AtPrompt /\ ~failed => DOMAIN maps.frame \subseteq EntriesTo(StackPage) \cup EntriesTo(ArgsPage)

\* A program that runs was read from all the clusters of its file, in order, and
\* every byte of its segments, its stack and its arguments has a page, also where
\* pages that an earlier program left behind are used again.
ProgramLoaded ==
  ~AtPrompt =>
    /\ IsContents(file, buf)
    /\ {StackPage, ArgsPage} \subseteq Mapped(maps)
    /\ \A i \in DOMAIN Image[file.name].segments :
         LET s == Image[file.name].segments[i]
         IN  {b \div PageBytes : b \in s.p_vaddr .. s.p_vaddr + s.p_memsz - 1}
               \subseteq Mapped(maps)
=============================================================================
