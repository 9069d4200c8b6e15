------------------------------- MODULE MCBoot -------------------------------
(* The boot on small machines: three buses, a host bridge of one or two    *)
(* functions, and every arrangement of bridges, xHCs and other functions   *)
(* on five places.                                                         *)
EXTENDS Boot

Header(load, vaddr, filesz, memsz) ==
  [load |-> load, vaddr |-> vaddr, filesz |-> filesz, memsz |-> memsz]

\* a read-only and a data segment with .bss, in either order, around a header that is not loaded
MCKernels ==
  {<<Header(TRUE, 2, 2, 2), Header(FALSE, 0, 1, 1), Header(TRUE, 4, 1, 3)>>,
   <<Header(TRUE, 5, 1, 2), Header(TRUE, 2, 3, 3)>>,
   <<Header(TRUE, 2, 1, 1)>>}

Places == {<<0, 1, 0>>, <<0, 1, 1>>, <<1, 0, 0>>, <<1, 1, 0>>, <<2, 0, 0>>}
Kinds == {"none", "bridge", "xhc", "intel xhc", "intel ehc"}

Space(kind, place, several) ==
  [class     |-> CASE kind = "intel xhc" -> "xhc" [] kind = "intel ehc" -> "ehc" [] OTHER -> kind,
   intel     |-> kind \in {"intel xhc", "intel ehc"},
   secondary |-> place[1] + 1,
   multi     |-> several,
   caps      |-> CASE kind = "xhc" -> <<"other", "msix">>
                 []   kind = "intel xhc" -> <<"msi", "other">>
                 []   OTHER -> <<"other">>]

Assemble(kinds, roots) ==
  LET used == {p \in Places : kinds[p] # "none"}
      all == used \union {<<0, 0, f>> : f \in 0..(roots - 1)}
  IN  [p \in all |->
         Space(IF p \in used THEN kinds[p] ELSE "host", p,
               p[3] = 0 /\ <<p[1], p[2], 1>> \in all)]

MCMachines ==
  {m \in {Assemble(k, r) : k \in [Places -> Kinds], r \in {1, 2}} : WellFormed(m)}
=============================================================================
