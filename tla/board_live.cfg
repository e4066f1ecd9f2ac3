SPECIFICATION MCSpec
CONSTANTS
  MaxWrites = 2
  MaxSent = 2
INVARIANTS PanelTypeOK BehindForAReason SavedTextWasTyped TypingIsReal
