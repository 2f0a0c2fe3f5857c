-------------------------------- MODULE MCVm --------------------------------
EXTENDS Vm

\* One segment; two, the second unaligned in one program; a gap below a segment
Programs ==
  {<<[vaddr |-> 0, memsz |-> 3, filesz |-> 1]>>,
   <<[vaddr |-> 0, memsz |-> 1, filesz |-> 1], [vaddr |-> 3, memsz |-> 2, filesz |-> 1]>>,
   <<[vaddr |-> 2, memsz |-> 1, filesz |-> 2]>>,
   <<[vaddr |-> 2, memsz |-> 1, filesz |-> 0]>>}

\* Within a page, over several, and far enough for the uint to wrap
Increments == {1, 3, -1, -5, 15}
====
