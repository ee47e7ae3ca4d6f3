------------------------------ MODULE MCMetering ------------------------------
(* Small instances of Metering for TLC.                                    *)
EXTENDS Metering

\* A Wh a second, more, and less; prices that divide a Wh evenly and do not.
Tariffs == [power : {1800, 5000, 8000}, price : {0, 700, 1500}]

Targets ==
  [type : {"AMOUNT"}, value : {1, 4}]
    \cup [type : {"ENERGY"}, value : {1, 3}]
    \cup [type : {"DURATION"}, value : {3}]

\* Here everything fits.
ASSUME InRange == Fits
=============================================================================
