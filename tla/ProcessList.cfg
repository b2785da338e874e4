\* Four images, the second a foreign ELF that Process::new refuses, so the
\* loop skips it between two processes; three printed writes let two
\* processes print, one of them twice.
CONSTANTS
  N = 4
  Image <- MC_Image
  MaxOut = 3
SPECIFICATION Spec
INVARIANT TypeOK
PROPERTY BatchRefinement
\* PROCESSES empty: the kernel shuts down.
CHECK_DEADLOCK FALSE
