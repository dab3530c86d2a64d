\* Three runs, recording and replaying, of up to four calls each.
CONSTANTS
  Char = {c1, c2, c3}
  Garbage = Garbage
  Torn = Torn
  NoFile = NoFile
  Recordings <- ShortRecordings
  MaxCalls = 4
  MaxRuns = 3
SYMMETRY Symmetry
SPECIFICATION Spec
INVARIANTS
  TypeOK
  RecordsWhatIsSeen
  ReplayRepeats
  OneSource
  PlaysToTheEnd
