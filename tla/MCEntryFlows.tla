----------------------------- MODULE MCEntryFlows -----------------------------
(* Two places and two inverters, one of which tells no serial number.       *)
EXTENDS EntryFlowsProperties

CONSTANTS serial, plain

MCInverters == {serial, plain}
MCSerials == [i \in MCInverters |-> IF i = plain THEN NoSerial ELSE i]
=============================================================================
