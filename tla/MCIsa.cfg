SPECIFICATION Spec
CONSTANTS
  XLEN = 4
  Configs <- AllConfigs
  Regs <- Triples
  ImmSample <- FewBits
  Inputs <- Values
INVARIANTS
  DecodesAsBuilt
  TraceNamesInstr
  ComputesMeaning
  LeavesRestAlone
CHECK_DEADLOCK FALSE
