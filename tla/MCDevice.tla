------------------------------ MODULE MCDevice -------------------------------
(***************************************************************************)
(* The offline device and the approval ledger in one run, a scenario       *)
(* chosen at the start.  The constants of the extended modules name        *)
(* everything their scenarios use; each of them restricts it.              *)
(***************************************************************************)
EXTENDS OfflineDevice, ApprovalLedger

CONSTANTS Scenarios, p1, p2, c1, c2, c3, x, y

VARIABLE scenario

allVars == <<scenario, vars, approvalVars>>

(* A copy of the primary and two receipts, a power loss, one record of     *)
(* room.                                                                   *)
Rollback == INSTANCE OfflineDevice WITH
  Bindable <- {p2}, Challenges <- {}, Capacity <- 1, MaxClaims <- 0, MaxLog <- 2,
  MaxGeneration <- 0, MaxFaults <- 1

(* Both primaries are bound at any time, also while they change.           *)
Rebind == INSTANCE OfflineDevice WITH
  Challenges <- {}, Bodies <- {x}, MaxClaims <- 0, MaxGeneration <- 0, MaxFaults <- 0

(* Threads that change the journal and the issuance records beside it.     *)
Change == INSTANCE OfflineDevice WITH
  Bindable <- {p1}, Challenges <- {c1}, Bodies <- {x}, Capacity <- 1, MaxClaims <- 0, MaxLog <- 1,
  MaxGeneration <- 1, MaxFaults <- 0

(* Two threads persist two challenges.                                     *)
Undo == INSTANCE OfflineDevice WITH
  Bodies <- {}, Bindable <- {p2}, Capacity <- 1, MaxLog <- 1, MaxGeneration <- 0, MaxFaults <- 0

(* Two primaries that both append and are bound at any time.               *)
Fork == INSTANCE OfflineDevice WITH
  Challenges <- {}, Capacity <- 1, MaxLog <- 1, MaxGeneration <- 0, MaxFaults <- 0

-----------------------------------------------------------------------------
Root(e, m) == [ed |-> e, ml |-> m]
Set(id, request, r1, r2) ==
  [id |-> id, agent |-> "agent", scope |-> "act", request |-> request, roots |-> <<r1, r2>>]
BundlesOf(ids, roots) ==
  {[agent |-> "agent", context |-> [agent |-> "agent", id |-> id, request |-> 1], root |-> r] :
   id \in ids, r \in roots}

(* Two sets for one action, one identifier opened twice and a set that     *)
(* names one root in both slots.                                           *)
TwoSets == {Set("A", 1, Root(1, 1), Root(2, 2)), Set("B", 1, Root(1, 1), Root(2, 2)),
            Set("A", 2, Root(2, 2), Root(1, 1)), Set("B", 1, Root(1, 1), Root(1, 1))}
Approve == INSTANCE ApprovalLedger WITH
  Sets <- TwoSets, Registries <- {<<Root(1, 1), Root(2, 2)>>},
  Bundles <- BundlesOf({"A", "B"}, {Root(1, 1), Root(2, 2)}), MaxTime <- 2

(* Trust registries whose records share keys and components of keys.       *)
SharedKeys ==
  {<<Root(1, 1), Root(2, 2)>>, <<Root(1, 1), Root(2, 2), Root(1, 1)>>,
   <<Root(1, 3), Root(2, 2)>>, <<Root(1, 1), Root(1, 3)>>, <<Root(1, 3)>>, <<>>}
SharingSets == {Set("A", 1, Root(1, 1), Root(2, 2)), Set("A", 1, Root(1, 1), Root(1, 3))}
Trust == INSTANCE ApprovalLedger WITH
  Sets <- SharingSets, Bundles <- BundlesOf({"A"}, {Root(1, 1), Root(2, 2), Root(1, 3)}),
  Scopes <- {"act"}, Claims <- {c1, c2}

AllSets == TwoSets \cup SharingSets
AllBundles == BundlesOf({"A", "B"}, {Root(1, 1), Root(2, 2), Root(1, 3)})

-----------------------------------------------------------------------------
ApprovalIdle == registry = <<>> /\ released = {} /\ sets = {} /\ recorded = {}
                /\ executions = <<>> /\ now = 0

DeviceInit ==
  /\ scenario \in Scenarios
  /\ Init
  /\ IF scenario = "approve" THEN Approve!ApprovalInit
     ELSE IF scenario = "trust" THEN Trust!ApprovalInit ELSE ApprovalIdle

DeviceNext ==
  /\ UNCHANGED scenario
  /\ \/ /\ \/ scenario = "rollback" /\ Rollback!Next
           \/ scenario = "rebind" /\ Rebind!Next
           \/ scenario = "change" /\ Change!Next
           \/ scenario = "undo" /\ Undo!Next
           \/ scenario = "fork" /\ Fork!Next
        /\ UNCHANGED approvalVars
     \/ /\ \/ scenario = "approve" /\ Approve!ApprovalNext
           \/ scenario = "trust" /\ Trust!ApprovalNext
        /\ UNCHANGED vars

DeviceSpec == DeviceInit /\ [][DeviceNext]_allVars

=============================================================================
