SPECIFICATION NvramSpec
CONSTANTS
  Params <- MCParams
  Vals <- MCVals
  Default <- MCDefault
  CmosSize = 16
  MiniSize = 20
  MaxCuts = 2
INVARIANT SettingsSurviveReboot
