CONSTANTS
  NPROC = 3
  NPAGES = 12
  PGSIZE = 2
  NPTENTRIES = 2
  NPDENTRIES = 2
  NKMAP = 1
  Segments = {1}
  Sbrks <- MCSbrks
SPECIFICATION Spec
INVARIANTS PagesExact SizeMapped NoPanic
