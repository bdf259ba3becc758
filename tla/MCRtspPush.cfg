\* Three streams in every order, one of them neither audio nor video
SPECIFICATION Spec
CONSTANTS
  MaxFrames = 3
  MaxStreams = 3
INVARIANTS AudioLostExplained NothingAfterClose AnnouncedIsEnded
\* the pusher is a program that ends
CHECK_DEADLOCK FALSE
