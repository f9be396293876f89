SPECIFICATION PipelineSpec
CONSTANTS
  dark = dark
  dim = dim
  sea = sea
  sky = sky
  Themes = {dark, dim, sea, sky}
  Community = {sea, sky}
  Fallback = dark
  PaletteOf <- MCPalettes
  Mixed = Mixed
  None = None
  Motions = {TRUE, FALSE}
  MaxEvents = 2
  Outputs = {1}
  MaxRequests = 6
INVARIANT PipelineInv
PROPERTIES OnlyLatestIsSent ThemeIsShownOrDropped FilesFollowTheme
CHECK_DEADLOCK FALSE
