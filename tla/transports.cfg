SPECIFICATION FairSpec
CONSTANT Order <- WindowCygwinBtTcpRdp
INVARIANTS SettingsTellWhatRuns ProxyOutlivesItsUsers NothingRunsAfterTheEnd QuitAnswersDialogs
PROPERTY StopsEnd
CHECK_DEADLOCK FALSE
