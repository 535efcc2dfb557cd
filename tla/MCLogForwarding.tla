-------------------------- MODULE MCLogForwarding --------------------------
(* LogForwarding instantiated for TLC: four records, one of them already  *)
(* in the log and the database when the agent starts; batches of two, so   *)
(* a full batch (needAccept) and a short one both occur; two pool threads; *)
(* one failing insert; a read past the end of the batch yields 0 or 9.     *)
EXTENDS LogForwarding

MCNEvents == 4
MCInitRecords == 1
MCStoredBefore == 1
MCBatchCap == 2
MCWorkers == 2
MCPastEnd == {0, 9}
MCMaxInsertFailures == 1

=============================================================================
