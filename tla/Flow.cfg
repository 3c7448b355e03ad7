SPECIFICATION Spec
CONSTANTS
  NoNode = NoNode
  MaxWeight = 12
  Systems <- MCSystems
  Files <- MCFiles
INVARIANTS BoardsAgree PoolIsOccupancy NetsApart
PROPERTIES WiredAsRead CheapestPath Ends
