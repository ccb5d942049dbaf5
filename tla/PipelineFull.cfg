\* A program writes more than a pipe holds.
SPECIFICATION FairSpec
CONSTANTS
  Pipelines <- LongOutput
  MaxCommands = 2
  MaxPipelines = 1
  Capacity = 2
  NULL = NULL
PROPERTY PipelineEnds
CHECK_DEADLOCK FALSE
