--------------------------- MODULE MCConnectorHub ---------------------------
(* ConnectorHub for TLC.  Requests are interchangeable within their role, ids
   and ordinary connectors are interchangeable. *)
EXTENDS ConnectorHub, TLC

HubSymmetry ==
  Permutations(Managers) \cup Permutations(Reqs \ Managers)
    \cup Permutations(Ids) \cup Permutations(Keys \ References)
=============================================================================
