-------------------------------- MODULE MCDrivers --------------------------------
(* Small instances of the drivers' modules, side by side: the drivers share nothing, *)
(* and each run of the model is one of a single driver.                              *)
EXTENDS Uart, Pwm, OneWire

VARIABLE driver

DriversInit ==
  /\ driver \in {"uart", "pwm", "onewire"}
  /\ Init /\ PwmInit /\ WireInit
  /\ driver # "uart" => int_ena

DriversNext ==
  /\ UNCHANGED driver
  /\ \/ driver = "uart" /\ Next /\ UNCHANGED <<pwm_vars, wire_vars>>
     \/ driver = "pwm" /\ PwmNext /\ UNCHANGED <<vars, wire_vars>>
     \/ driver = "onewire" /\ WireNext /\ UNCHANGED <<vars, pwm_vars>>

DriversSpec ==
  /\ DriversInit /\ [][DriversNext]_<<driver, vars, pwm_vars, wire_vars>>
  /\ WF_vars(TaskStep) /\ SF_vars(handle_interrupt)

================================================================================
