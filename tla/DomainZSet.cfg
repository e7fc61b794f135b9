CONSTANTS
    Node <- MCNode
    Weight <- MCWeight
SPECIFICATION Spec
INVARIANTS TypeOK ScoresCumulative
PROPERTIES RankOrderKept ImplementsWeights
