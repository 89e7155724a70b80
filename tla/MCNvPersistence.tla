-------------------------- MODULE MCNvPersistence ---------------------------
(* Instances of NvPersistence for TLC. *)
EXTENDS NvPersistence

AllFaults  == {"mount", "read", "write", "entropy", "crypt"}
WriteFault == {"write"}
AnyFile    == {"absent", "short", "exact"}
NoFile     == {"absent"}
=============================================================================
