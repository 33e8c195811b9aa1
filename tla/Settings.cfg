SPECIFICATION Spec
CONSTANTS
    Volumes <- MCVolumes
    Gains <- MCGains
    FullVolume = 4
    MaxGain = 4
    Labels <- MCLabels
    GroupTexts <- MCGroupTexts
    MaxLabel = 2
    MaxGroup = 1
    MaxList = 3
    Unsaved = Unsaved
    YamlLabel <- MCYamlLabel
    YamlGroups <- MCYamlGroups
    YamlRing = TRUE
    Restoring = {"conference_ring"}
    StartOn = {"auto_answer"}
    Unrestored = {"dnd"}
    MaxChanges = 3
    MaxCrashes = 2
INVARIANT SettingsInv
PROPERTIES ReconnectRollsNothingBack 
CHECK_DEADLOCK FALSE
