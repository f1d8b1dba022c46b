---------------------------- MODULE MCEdhocSamples -----------------------------
(***************************************************************************)
(* Instances of EdhocSamples for TLC: every pair of blocks that belong      *)
(* together, the programs as they are selected in the repository, and two  *)
(* or three initiators at once.                                            *)
(***************************************************************************)
EXTENDS EdhocSamples

Linux(has)  == [on |-> "linux", has |-> has]
Zephyr(has) == [on |-> "zephyr", has |-> has]

Setting(initiators, responder, patient, slow, lossy, matching) ==
    [initiators |-> initiators, responder |-> responder, patient |-> patient,
     slow |-> slow, lossy |-> lossy, matching |-> matching]

\* Nothing is late, nothing is lost.
Alone(i, r) == Setting(<<i>>, r, TRUE, FALSE, FALSE, TRUE)

Faulty(initiators, responder, patient) ==
    Setting(initiators, responder, patient, TRUE, TRUE, FALSE)

Times(n, program) == [i \in 1..n |-> program]

MCSetups ==
    << \* the pairs
       Alone(Zephyr(DeviceInitiator1), Linux(LinuxResponder1)),
       Alone(Zephyr(DeviceInitiator2), Linux(LinuxResponder2)),
       Alone(Zephyr(DeviceInitiator4), Linux(LinuxResponder3)),
       Alone(Zephyr(DeviceInitiator5), Linux(LinuxResponder4)),
       Alone(Linux(LinuxInitiator3), Linux(LinuxResponder3)),
       Alone(Linux(LinuxInitiator4), Linux(LinuxResponder4)),
       Alone(Linux(LinuxInitiator3), Zephyr(DeviceResponder4)),
       Alone(Linux(LinuxInitiator4), Zephyr(DeviceResponder5)),
       \* as selected in the repository
       Faulty(Times(3, Linux(LinuxInitiator1)), Linux(LinuxResponder4), TRUE),
       Faulty(Times(3, Linux(LinuxInitiator1)), Zephyr(DeviceResponder1), TRUE),
       Faulty(Times(1, Zephyr(DeviceInitiator1)), Zephyr(DeviceResponder1), FALSE),
       \* several initiators
       Faulty(Times(3, Linux(LinuxInitiator3)), Zephyr(DeviceResponder4), FALSE),
       Faulty(Times(3, Linux(LinuxInitiator4)), Zephyr(DeviceResponder5), TRUE),
       Setting(Times(3, Linux(LinuxInitiator2)), Zephyr(DeviceResponder2),
               TRUE, FALSE, TRUE, FALSE),
       Faulty(Times(2, Zephyr(DeviceInitiator1)), Linux(LinuxResponder1), FALSE),
       Faulty(<<Zephyr(DeviceInitiator2), Linux(LinuxInitiator2), Zephyr(DeviceInitiator2)>>,
              Linux(LinuxResponder2), TRUE) >>

=============================================================================
