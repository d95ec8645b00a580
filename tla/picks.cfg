SPECIFICATION Spec
CONSTANT
    Texts <- MCTexts
INVARIANTS
    AcceptsTheTable
    OneWritingPerPana
