---------------------------- MODULE MCTypeTraits ----------------------------
(* Instances of TypeTraits and CommonTypes for TLC. *)
EXTENDS CommonTypes

MCEnums == {"enum of char", "enum of long"}

\* The sizes on aarch64, where char and wchar_t have no negative values.
MCSizeOf ==
  [b \in {"bool"} \cup Standard \cup Characters \cup MCEnums |->
     CASE b \in {"bool", "char", "signed char", "unsigned char", "char8_t",
                 "enum of char"} -> 1
       [] b \in {"short", "unsigned short", "char16_t"} -> 2
       [] b \in {"int", "unsigned int", "wchar_t", "char32_t"} -> 4
       [] OTHER -> 8]
MCNegative == {SignedRanks[i] : i \in 1..5}
=============================================================================
