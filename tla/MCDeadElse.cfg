SPECIFICATION Spec
CONSTANTS
  Modules <- DeadElse
  WASM_PAGE = 2
  CUWASM_MEM_MAX_PAGES = 2
  TABLE_MAX = 3
  WORD32 = 16
  WORDS = {0, 1}
  ROUNDS = 4
INVARIANT StubOnlyUnsupported
CHECK_DEADLOCK FALSE
