SPECIFICATION VisionSpec
CONSTANTS
  NoInput = NoInput
  max_time_lost = 2
  Widths = {1, 2}
  MaxStrong = 2
  MaxFrames = 5
  MaxIds = 3
  max_crops = 1
  MaxDets = 2
  MaxCalls = 3
INVARIANTS ListsAgree OutputIsFresh EmbeddingsOfThisFrame
PROPERTIES LostForItsBuffer ImagesArriveWhole NumbersSurvive HeadsAgree FindingsAreSound AssociationIsSound
CHECK_DEADLOCK FALSE
