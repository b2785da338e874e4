---------------------------- MODULE MC_ProcessList ----------------------------
EXTENDS ProcessList

\* Four images, the second a foreign ELF that Process::new refuses.
MC_Image == <<"elf", "foreign", "elf", "elf">>
=============================================================================
