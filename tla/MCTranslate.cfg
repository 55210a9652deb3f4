SPECIFICATION Spec
CONSTANTS
  Modules <- MCModules
  WASM_PAGE = 2
  CUWASM_MEM_MAX_PAGES = 2
  TABLE_MAX = 3
  WORD32 = 16
  WORDS = {0, 1}
  ROUNDS = 4
INVARIANTS
  TypeOK
  
  TranslatedVerifies
  StubJustified
  NothingLeaks
  LoweringCorrect
CHECK_DEADLOCK FALSE
