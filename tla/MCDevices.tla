----------------------------- MODULE MCDevices -----------------------------
(***************************************************************************)
(* The object container, the device layer and the device frameworks        *)
(* without interrupts of their own share no state here: one of them moves  *)
(* in each behaviour.                                                      *)
(***************************************************************************)
EXTENDS Objects, Device, SpiBus, I2cBus, HwTimer, Pwm, Adc, Watchdog

VARIABLE focus

ASSUME DevicesAssumption == TenBit \subseteq I2cDevs

vars == <<objects_vars, device_vars, spi_vars, i2c_vars, hw_vars, pwm_vars, adc_vars,
          wdt_vars, focus>>

Init ==
  /\ ObjectsInit /\ DeviceInit /\ SpiInit /\ I2cInit
  /\ HwInit /\ PwmInit /\ AdcInit /\ WdtInit
  /\ focus \in {"objects", "device", "spi", "i2c", "hwtimer", "pwm", "adc", "watchdog"}

Other(f, v) == focus # f => UNCHANGED v

Only(f) ==
  /\ focus = f /\ UNCHANGED focus
  /\ Other("objects", objects_vars) /\ Other("device", device_vars)
  /\ Other("spi", spi_vars) /\ Other("i2c", i2c_vars) /\ Other("hwtimer", hw_vars)
  /\ Other("pwm", pwm_vars) /\ Other("adc", adc_vars) /\ Other("watchdog", wdt_vars)

Next ==
  \/ Only("objects") /\ ObjectsNext
  \/ Only("device") /\ DeviceNext
  \/ Only("spi") /\ SpiNext
  \/ Only("i2c") /\ I2cNext
  \/ Only("hwtimer") /\ HwNext
  \/ Only("pwm") /\ PwmNext
  \/ Only("adc") /\ AdcNext
  \/ Only("watchdog") /\ WdtNext

\* A walk is enabled only in the behaviours in which the container moves.
Spec == Init /\ [][Next]_vars /\ ObjectsFairness
=============================================================================
