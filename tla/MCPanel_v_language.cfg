SPECIFICATION MCSpec
CONSTANTS
  ServicePin <- ShortPin
  Base = 3

PROPERTIES FallbackIsRead
