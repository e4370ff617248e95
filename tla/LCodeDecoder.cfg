SPECIFICATION Spec
CONSTANTS
  aLen = 4
  k1 = 3
  k2 = 3
  lineInterval = 3
  DIST_TOLERANCE = 2
  MAX_LINE_COUNT = 5
  required_baseline_cnt = 3
  ROI_width_dots = 9
  ROI_height_dots = 13
  Spacing = 4
  DotSize = 1
  Margin = 2
  FarCorner <- MCFarCorner
  subCol = 4
  subRow = 3
  EPS = 2
  Scenes <- MCScenes
  Views <- MCViews
INVARIANTS
  TypeOK
  EveryWordOnce
  WindowInside
  SidesFlankMiddle
  CornersOnTwoRows
  ReadingIsRight
  CleanViewIsRead
PROPERTIES
  PiecesArePrinted
  EveryLoopEnds
