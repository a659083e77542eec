SPECIFICATION Spec
CONSTANTS
  play = play
  buy = buy
  main = main
  side = side
  ranking = ranking
  overall = overall
  points = points
  bonus = bonus
  Configs <- AllConfigs
  Types = {play, buy}
  Payloads <- TwoPayloads
  Tracks = {main, side}
  Leveled = {main}
  XpPerLevel = 2
  Boards = {ranking, overall, points}
  Variables = {bonus}
  Instants = {0, 2, 3, 4}
  Day = 3
  MaxEvents = 4
  Star = Star
INVARIANTS
  FiringsLimited
  BadgesOnTime
  RewardsPaidOnce
  RowsAgree
CHECK_DEADLOCK FALSE
