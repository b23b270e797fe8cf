CONSTANT N = 5
SPECIFICATION Spec
INVARIANTS TypeOK RankBySize RootIsRep
PROPERTIES RefinesPartition CallsReturn
