---------------------------- MODULE MCDeviceFlow ----------------------------
(* DeviceFlow for TLC: the names are interchangeable.                      *)
EXTENDS DeviceFlow, TLC

Symmetry ==
    Permutations(DeviceCodes) \cup Permutations(UserCodes)
        \cup Permutations(Users) \cup Permutations(Polls)
        \cup Permutations(Approvals)
=============================================================================
