CONSTANTS
  NTask = 3
  NNode = 2
  Consumer = c
  Thread = {c, w1, w2}
  Kinds = {"apply_delete", "provision_message", "apply_keep", "apply_start", "apply_cluster", "stop", "stop_fails", "delete", "erase", "deploy_resp", "remove_nodes_resp", "stop_resp", "reset_resp"}
SPECIFICATION Spec
SYMMETRY Symmetry
INVARIANTS TypeOK  DetectorIsSilent
CHECK_DEADLOCK FALSE
