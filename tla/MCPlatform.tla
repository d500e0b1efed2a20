------------------------------- MODULE MCPlatform -------------------------------
(* Model checking instance of Platform: two writers, two requests at the broker  *)
(* and two uploads overlap.                                                      *)
EXTENDS Platform, TLC

PlatformSymmetry == Permutations(Writer) \cup Permutations(Op) \cup Permutations(Uploader)
                    \cup Permutations(Data)

================================================================================
