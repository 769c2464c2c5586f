--------------------------- MODULE MCPskReporter ---------------------------
(* A model-checking instance of PskReporter: one station decoded in either *)
(* case, with and without a locator, on 20 m and 6 m; the set sizes are    *)
(* those of a station with a callsign and a grid.                         *)
EXTENDS PskReporter

MCCalls == {"W1AW", "w1aw"}
MCUpper == [call \in MCCalls |-> "W1AW"]
MCRecordBytes == [call \in MCCalls |-> IF call = "W1AW" THEN 25 ELSE 21]
MCFrequencies == {14074000, 50313000}
=============================================================================
