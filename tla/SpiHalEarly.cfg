SPECIFICATION Spec
CONSTANT
  MaxCount = 2
  Prompt = TRUE
PROPERTIES
  ReportedIsFinished
