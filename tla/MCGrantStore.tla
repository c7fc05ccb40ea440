---------------------------- MODULE MCGrantStore ----------------------------
(* GrantStore for TLC: the names are interchangeable.                      *)
EXTENDS GrantStore, TLC

Symmetry ==
    Permutations(Codes) \cup Permutations(RefreshTokens)
        \cup Permutations(DeviceCodes) \cup Permutations(UserCodes)
        \cup Permutations(Users)
=============================================================================
