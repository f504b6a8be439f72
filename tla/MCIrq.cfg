SPECIFICATION IrqSpec
CONSTANTS
  Pulsed = {uart, gpio}
  Held = {timer}
  Declared = {gpio}
  uart = uart
  gpio = gpio
  timer = timer
  Width = 2
  Rounds = 2
  Unknown = Unknown
INVARIANTS PulseAsSeen TakesAreAttributed
PROPERTIES PulsesComeAndGo
