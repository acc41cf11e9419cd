SPECIFICATION MCSpec
CONSTANTS
  ServicePin <- ShortPin
  Base = 3
INVARIANTS TypeOK PinGated StreamsOnlyHeldKeys EthernetSendsOnlyReturn
PROPERTIES ImplementsScreens LanguageSurvives
