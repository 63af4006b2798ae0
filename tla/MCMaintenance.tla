--------------------------- MODULE MCMaintenance ---------------------------
(* The instance of Maintenance that TLC checks.                            *)
EXTENDS Maintenance

\* A total that grows and a status that goes, then a bank that runs down
MCReadings == {[total |-> 1, bank |-> 2, status |-> 1],
               [total |-> 2, bank |-> 2, status |-> 0],
               [total |-> 2, bank |-> 1, status |-> 0]}
MCKinds == {"total", "bank", "status", "date", "days"}

Oil == [text |-> "oil", kind |-> "total", warn |-> 1, urgent |-> 2, start |-> 0,
        active |-> TRUE, priority |-> 0]
Check == [text |-> "pump", kind |-> "days", warn |-> 1, urgent |-> 1, start |-> 0,
          active |-> TRUE, priority |-> 0]
Pump == [text |-> "pump", priority |-> 1]
MCStored ==
  {[services |-> <<Oil, Check>>, repairs |-> <<>>,
    parts |-> <<[title |-> "oil", category |-> "Service", priority |-> 5]>>],
   [services |-> <<Oil>>, repairs |-> <<Pump>>,
    parts |-> <<[title |-> "pump", category |-> "Repairs", priority |-> 1]>>]}
=============================================================================
