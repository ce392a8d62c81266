SPECIFICATION Spec
CONSTANTS
  Layouts = {"counts"}
  MaxTime = 1
  Budget <- Canister
INVARIANTS
  NotOvercharged IInv
