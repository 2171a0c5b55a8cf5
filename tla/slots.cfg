\* Four launches for two slots, one after the other or at the same time.
CONSTANTS
  Launches = {l1, l2, l3, l4}
  Max = 2
  Relay = relay
SPECIFICATION SlotsSpec
SYMMETRY Symmetry
INVARIANTS SlotsInv OneAgentPerHome ConflictOnlyAfterKill
CHECK_DEADLOCK FALSE
