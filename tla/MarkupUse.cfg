SPECIFICATION Spec
CONSTANTS
  Categories = {"break"}
  Roles = {"judge"}
  Times = {1}
  Rate = 1500
  AppendFaults = {"nothing", "torn", "open", "whole"}
  MaxActions = 4
  MaxFaults = 2
INVARIANTS
  AcknowledgedIsKept
  RowsVerify
  OneSpeaker
CHECK_DEADLOCK FALSE
