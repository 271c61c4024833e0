SPECIFICATION BackEndSpec
CONSTANTS
  Languages <- MCLanguages
  Listed <- MCListed
  Corpus <- MCCorpus
  Letters = 3
  Unloaded = Unloaded
  QuitName <- MCQuit
  LexiconsName <- MCLexicons
  LexiconName <- MCLexicon
  Lines <- MCLines
  Meant <- MCMeant
  Diagrams <- SmallDiagrams
  Orders <- SmallOrders
  Factor = 2
  Null = Null
  Blank = Blank
INVARIANTS
  CountsAgree
  NamesLongEnough
  StraysOnlyUntaught
  OneAnswer
  SplitsAsMeant
  PointersLead
  DiagramCopied
  LloydAverages
PROPERTIES
  NamesInLanguage
  CommandsDone
