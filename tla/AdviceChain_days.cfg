SPECIFICATION Spec
CONSTANTS
  core = core
  tac = tac
  p1 = p1
  p2 = p2
  Funds = {core, tac}
  Role <- TheRole
  Untraded = {core}
  Cap = 1000
  DcaAmount = 100
  Strong = 6
  Trim = 2
  SwitchOut = 1
  MinAdd = 150
  MidAdd = 200
  MaxAdd = 300
  MidReduce = 200
  VeryStrong = 8
  MinTrade = 100
  WINDOWS = {1}
  None = None
  Procs = {p1, p2}
  Scores <- TheScores
  Values <- TheValues
  Replies <- TheReplies
  Stranger = stranger
  MaxEvents = 3
  MaxDay = 2
  Opening <- TheOpening
  Order <- TheOrder
  Absent = Absent
  Portfolios <- ThePortfolios
  Wants <- TheWants
  Gates <- TheGates
  Strategies <- TheStrategies
  Horizon = 2
SYMMETRY ProcSymmetry
INVARIANTS AdviceIsSafe RecordsAgree ViewExplains MoneyIsBounded ChoiceIsBest
CHECK_DEADLOCK FALSE
