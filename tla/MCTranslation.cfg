CONSTANTS
  Programs <- MCPrograms
  Subjects <- MCSubjects
  MaxTurns = 8
  Sources <- MCSources
  Settings <- MCSettings
  Pointers <- MCPointers
  MaxInt = 7
SPECIFICATION TranslationSpec
INVARIANTS PythonRunsAsWritten NativeRunsAsWritten ValueAsWritten FaultsStop InferredTypeHolds
CHECK_DEADLOCK FALSE
