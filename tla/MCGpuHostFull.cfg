SPECIFICATION Spec
CONSTANTS
    OBJ_CAP = 3
    STORAGE_CAP = 2
    KEY_MAX = 128
    VEC_ELEMS = 4
    Seeds <- NoSeeds
    Smalls <- MCSmalls
    KeyTags = {"VEC_OBJECT"}
    ValTags = {"I128_SMALL", "ADDRESS_OBJECT"}
    VecShapes <- AmountShapes
    Texts <- MCTexts
    Words = {1}
    Stypes = {1}
PROPERTY
    ContentsStable
