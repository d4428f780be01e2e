SPECIFICATION HSpec
CONSTANTS
  hz48 = hz48
  hz44 = hz44
  Formats <- TwoFormats
  MaxRec = 2
  MaxFrames = 4
  MaxSeconds = 2
  DevCap = 1
  QCap = 1
INVARIANT
  HeaderDescribesFrames
