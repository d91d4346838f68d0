SPECIFICATION Spec
CONSTANTS
  refund = refund
  disabled = disabled
  Calls = {refund, disabled}
  Asked <- MCAsked
  Disabled = {"send_message"}
  Actions = {n1}
  Executions = {x1, x2, x3}
SYMMETRY Symmetry
INVARIANTS
  ApprovedEffectOnce
CHECK_DEADLOCK FALSE
