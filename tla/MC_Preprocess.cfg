SPECIFICATION Spec
CONSTANTS
  Programs <- MCPrograms
  Names <- Names4
  Hash <- MCHash
  BinDir <- Sys
  MACNBR = 3
  MACMAX = 14
  MAXINCLUDE = 2
INVARIANT ReadsAsC
PROPERTY MacrosAreKept
