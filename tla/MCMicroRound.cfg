SPECIFICATION Spec
CONSTANTS
  AbsMargin = 1
  RelParts = 5
  Recent = 2
  Seeds <- MCSeeds
  FirstSeeds <- MCFirst
  Answers <- MCAnswers
  EdgeWeight = 10
  Extras <- MCExtras
  MaxRounds = 2
  MaxOdd = 1
INVARIANTS
    ProposalsTraced
    ControlRunsNoRecipe
    SpiralClimbs
    SeedsSurvive
    LeadIsLoss
    RowsTraceable
    WinnerIsClearlyBest
