SPECIFICATION FairSpec
CONSTANT Commands = {"PASS", "PASV", "LIST", "RETR", "STOR", "CWD", "CWD .", "DELE", "QUIT"}
INVARIANTS
  HandlesAccountedFor
  TransfersAreAnswered
PROPERTY ServerListensAgain
