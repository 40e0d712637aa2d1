SPECIFICATION PeripheralsSpec
CONSTANTS
  Base = 2
  Prescale = 3
  Loads = {0, 1}
  PcaModules = {1, 2}
  Divisor <- Divisors
  Uses <- UsesOfPca
  PcaPins <- BothLevels
  MaxEvents = 3
  AdcParts = {"STC12", "STC15"}
  Delay <- Delays
  Channels = {0, 1}
  Inputs = {2000}
  Setups <- AdcSetups
  Ports = {1, 5}
  Watched = {"ADC", "TF0", "pin"}
  MaxCycles = 2
  WdtTop = 4
  Scale <- Scales
  Addrs = {1, 2}
  Hits = {1, 2}
  StepCounts = {1, 2}
  Limits = {0, 3}
  MaxClocks = 2
  MaxSteps = 4
INVARIANTS PeripheralsTypeOK PwmDuty StartsConvert ReaderSeesPin FedNeverBites StopsAsTold
PROPERTIES EventsCountOnce PcaPeriod MatchTogglesOnce RiseCapturedOnce ResultReads HardwareReported WdtPeriod BreaksHold
