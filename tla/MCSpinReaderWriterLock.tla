--------------------- MODULE MCSpinReaderWriterLock ---------------------
(* Instances of SpinReaderWriterLock with narrow counters. *)
EXTENDS SpinReaderWriterLock

CONSTANTS t1, t2, t3

ThreeThreads == {t1, t2, t3}
TwoThreads == {t1, t2}
=============================================================================
