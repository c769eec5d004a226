SPECIFICATION FairSpec
CONSTANTS
  pad = pad
  keyboard = keyboard
  none = none
  c1 = c1
  c2 = c2
  Devices <- MCDevices
  Signers <- MCSigners
  None = none
  Challenges <- MCChallenges
  NonceParts = 2
  SigParts = 2
  Capacity = 1
INVARIANTS OneRequestAtATime SignatureIsOfChallenge
PROPERTY ChallengeIsSigned
