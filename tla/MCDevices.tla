----------------------------- MODULE MCDevices ------------------------------
(***************************************************************************)
(* Devices with gesture samples for TLC: a hand at the middle, above, down *)
(* right, up left, and one that is too dark to count; and measurements of  *)
(* the accelerometer.                                                      *)
(***************************************************************************)
EXTENDS Devices

Sample(up, down, left, right) == [up |-> up, down |-> down, left |-> left, right |-> right]
MCSamples == {Sample(100, 100, 100, 100), Sample(100, 50, 100, 100), Sample(50, 100, 50, 100),
              Sample(50, 100, 100, 100), Sample(5, 100, 100, 100)}

MCAccs == {[k \in 1..14 |-> k], [k \in 1..14 |-> 255], [k \in 1..14 |-> (k * 37) % 256]}
=============================================================================
