CONSTANT LongPress = 10
SPECIFICATION FairSpec
INVARIANT SettingsSurvive
PROPERTIES ButtonSettles LongPressRestarts
