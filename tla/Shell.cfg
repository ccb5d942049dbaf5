\* Programs in every position, whose output fits in a pipe; every input of up
\* to five tokens.
CONSTANTS
  Pipelines <- Programs
  MaxCommands = 3
  MaxPipelines = 2
  Capacity = 2
  NULL = NULL
  MaxTokens = 5
  InputTokens = {"Tword", "Tin", "Tout", "Tpipe", "Tsemi", "Tamp", "Tnl", "Terror"}
SPECIFICATION ShellSpec
INVARIANTS EachReadsThePrevious OnlyStandardStreams ValidLinesParsed WordsOnceInOrder LinesKeptApart
PROPERTY PipelineEnds
