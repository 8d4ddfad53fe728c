SPECIFICATION Spec
CONSTANT None = None
INVARIANTS AnsweredOnce WindowIsWatched BytesAddUp BroadcastWasAskedFor
PROPERTIES   ContinuousCatchesUp
CHECK_DEADLOCK FALSE
