----------------------------- MODULE BootLoader -----------------------------
(***************************************************************************)
(* The boot loader (BootLoader/Main.c): it reads the kernel file and the   *)
(* volume image, copies the kernel's segments to their addresses, leaves   *)
(* the firmware's boot services and calls the kernel with the memory map.  *)
(*                                                                         *)
(* The firmware is external: it counts a map key up whenever its memory    *)
(* map changes, and ExitBootServices refuses a key that is not current.    *)
(* Addresses are counted in half pages, from 0 up.                         *)
(***************************************************************************)
EXTENDS Integers, Sequences

CONSTANTS
  Kernels,      \* kernel images: sequences of program headers
  KernelBase,   \* kernel_base_addr, 0x100000
  MemoryEnd,    \* half pages of memory
  MaxKey        \* bound on the firmware's map key

(* Program headers, and a kernel is linked to start at kernel_base_addr.   *)
ProgramHeader == [load: BOOLEAN, vaddr: 0..MemoryEnd, filesz: 0..MemoryEnd, memsz: 0..MemoryEnd]

Loads(phdr) == {i \in DOMAIN phdr : phdr[i].load}

LoadEnd(ph) == ph.vaddr + ph.memsz

ASSUME MemoryAssumption ==
  /\ MemoryEnd \in Nat /\ KernelBase \in Nat
  /\ KernelBase % 2 = 0                          \* the start of a page

(* What a linker makes: segments that hold the file's bytes, one after the *)
(* other.                                                                  *)
ASSUME KernelsAssumption ==
  \A phdr \in Kernels :
    /\ phdr \in Seq(ProgramHeader)
    /\ \E i \in Loads(phdr) : phdr[i].vaddr = KernelBase
    /\ \A i \in Loads(phdr) : /\ phdr[i].vaddr >= KernelBase
                              /\ phdr[i].filesz <= phdr[i].memsz
                              /\ LoadEnd(phdr[i]) <= MemoryEnd
    /\ \A i, j \in Loads(phdr) :
         i # j => LoadEnd(phdr[i]) <= phdr[j].vaddr \/ LoadEnd(phdr[j]) <= phdr[i].vaddr

VARIABLE ldr

Address == 0..MemoryEnd
Page(a) == a \div 2

(* Contents of memory (else the segment and the place in it), and areas.   *)
Junk == <<0, 0>>
Zero == <<0, 1>>
Pool(name) == <<name, 0>>
KernelPage(p) == <<"page", p>>

LoaderState(at, key) ==
  [at     |-> at,
   key    |-> key,                              \* the firmware's map key
   held   |-> {},                               \* what the firmware has given out
   map    |-> [key |-> 0, held |-> {}],         \* memmap
   kernel |-> <<>>,
   next   |-> 1,                                \* the program header to copy
   ram    |-> [a \in Address |-> Junk],
   volume |-> "none",
   acpi   |-> FALSE]

LoaderInit == ldr = LoaderState("start", 1)

(* External: an allocation changes the firmware's memory map.              *)
Allocate(l, what) == [l EXCEPT !.held = @ \union what, !.key = @ + 1]

(* Memory the firmware takes for itself, on a timer event of its own.      *)
FirmwareAllocates ==
  /\ ldr.at \notin {"acpi", "entered", "halt"}
  /\ ldr.key < MaxKey
  /\ ldr' = Allocate(ldr, {Pool("firmware")})

(* With a buffer that is too small the call fails and the key stays.       *)
GetMemoryMap(l, ok) ==
  IF ok THEN [l EXCEPT !.map = [key |-> l.key, held |-> l.held]] ELSE l

Halt == ldr' = [ldr EXCEPT !.at = "halt"]

(* UefiMain's first call; its status is not looked at.                     *)
FirstMemoryMap ==
  /\ ldr.at = "start"
  /\ \E ok \in BOOLEAN : ldr' = [GetMemoryMap(ldr, ok) EXCEPT !.at = "open"]

(* OpenRootDir and OpenGOP, which takes and frees a buffer of handles.     *)
OpenRootDirAndGOP ==
  /\ ldr.at = "open"
  /\ ldr' = [ldr EXCEPT !.at = "kernel", !.key = @ + 1]

(* A buffer of the file's size, with its content; failures are Halt's.     *)
ReadFile(l, name) == Allocate(l, {Pool(name)})

(* As much of the boot device, through OpenBlockIoProtocolForLoadedImage.  *)
ReadBlocks(l, name) == Allocate(l, {Pool(name)})

(* Opening kernel.elf, its size, the buffer and the read may each fail.    *)
ReadKernelFile ==
  /\ ldr.at = "kernel"
  /\ \/ Halt
     \/ \E phdr \in Kernels :
          ldr' = [ReadFile(ldr, "kernel_file") EXCEPT !.at = "pages", !.kernel = phdr]

CalcLoadAddressRange(phdr) ==
  LET S == Loads(phdr)
      first == CHOOSE a \in {phdr[i].vaddr : i \in S} : \A i \in S : a <= phdr[i].vaddr
      last  == CHOOSE a \in {LoadEnd(phdr[i]) : i \in S} : \A i \in S : a >= LoadEnd(phdr[i])
  IN  [first |-> first, last |-> last]

(* The pages are counted from the range and taken at kernel_base_addr.     *)
AllocateKernelArea ==
  /\ ldr.at = "pages"
  /\ \/ Halt
     \/ LET r == CalcLoadAddressRange(ldr.kernel)
            num_pages == (r.last - r.first + 1) \div 2
        IN  ldr' = [Allocate(ldr, {KernelPage(Page(KernelBase) + p) : p \in 0..(num_pages - 1)})
                     EXCEPT !.at = "copy"]

(* CopyMem of the part in the file, SetMem of the rest of the segment.     *)
CopySegment(ram, i, ph) ==
  [a \in Address |->
     IF ~ph.load \/ a < ph.vaddr \/ a >= LoadEnd(ph) THEN ram[a]
     ELSE IF a < ph.vaddr + ph.filesz THEN <<i, a - ph.vaddr>> ELSE Zero]

CopyLoadSegment ==
  /\ ldr.at = "copy"
  /\ ldr' = IF ldr.next > Len(ldr.kernel) THEN [ldr EXCEPT !.at = "volume"]
            ELSE [ldr EXCEPT !.ram = CopySegment(@, ldr.next, ldr.kernel[ldr.next]),
                             !.next = @ + 1]

(* The file fat_disk, or without it the first blocks of the boot device;   *)
(* the reads may fail.                                                     *)
ReadVolume ==
  /\ ldr.at = "volume"
  /\ \/ Halt
     \/ ldr' = [ReadFile(ldr, "volume") EXCEPT !.at = "format", !.volume = "fat_disk"]
     \/ ldr' = [ReadBlocks(ldr, "volume") EXCEPT !.at = "format", !.volume = "boot device"]

(* Only the two 8-bit RGB formats are supported.                           *)
SetPixelFormat ==
  /\ ldr.at = "format"
  /\ \/ Halt
     \/ ldr' = [ldr EXCEPT !.at = "exit"]

\* Wrong: leaves without looking at the answer.
ExitBootServices_Unchecked(failed) == ldr' = [ldr EXCEPT !.at = "acpi"]

ExitBootServices(failed) ==
  ldr' = [ldr EXCEPT !.at = IF ldr.map.key = ldr.key THEN "acpi" ELSE failed]

FirstExit == ldr.at = "exit" /\ ExitBootServices("retry")

(* The map is read again, and its key tried once more.                     *)
RetryMemoryMap ==
  /\ ldr.at = "retry"
  /\ \/ Halt
     \/ ldr' = [GetMemoryMap(ldr, TRUE) EXCEPT !.at = "exit2"]

SecondExit == ldr.at = "exit2" /\ ExitBootServices("halt")

(* The ACPI table's address is NULL when no entry has its GUID.            *)
CallEntryPoint ==
  /\ ldr.at = "acpi"
  /\ \E found \in BOOLEAN : ldr' = [ldr EXCEPT !.at = "entered", !.acpi = found]

LoaderNext ==
  \/ FirmwareAllocates
  \/ FirstMemoryMap \/ OpenRootDirAndGOP \/ ReadKernelFile \/ AllocateKernelArea
  \/ CopyLoadSegment \/ ReadVolume \/ SetPixelFormat
  \/ FirstExit \/ RetryMemoryMap \/ SecondExit \/ CallEntryPoint

-----------------------------------------------------------------------------
LoaderTypeOK ==
  /\ ldr.at \in {"start", "open", "kernel", "pages", "copy", "volume", "format", "exit",
                 "retry", "exit2", "acpi", "entered", "left", "halt"}
  /\ ldr.map.key <= ldr.key
  /\ DOMAIN ldr.ram = Address

(* What the kernel is given when its entry point is called: a memory map   *)
(* that knows of every area in use, the volume and the kernel among them,  *)
(* so that the frame allocator never hands one out; every byte of every    *)
(* segment as the file has it, with zeros after it; and nothing written    *)
(* outside the pages the firmware gave for the kernel.                     *)
KernelHandover ==
  ldr.at = "entered" =>
    /\ ldr.map.held = ldr.held
    /\ {Pool("kernel_file"), Pool("volume")} \subseteq ldr.map.held
    /\ \A i \in Loads(ldr.kernel) :
         LET ph == ldr.kernel[i] IN
         \A n \in 0..(ph.memsz - 1) :
           ldr.ram[ph.vaddr + n] = IF n < ph.filesz THEN <<i, n>> ELSE Zero
    /\ \A a \in Address : ldr.ram[a] # Junk => KernelPage(Page(a)) \in ldr.map.held
=============================================================================
