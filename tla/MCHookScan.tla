----------------------------- MODULE MCHookScan -----------------------------
(***************************************************************************)
(* Instances of HookScan for TLC: triggers of different lengths that share *)
(* characters, overlap themselves and differ in case.                      *)
(***************************************************************************)
EXTENDS HookScan

MCTriggers == << <<"a", "b", "a">>, <<"B", "b">>, <<"c">> >>
MCLower == [c \in Chars |-> CASE c = "A" -> "a" [] c = "B" -> "b" [] OTHER -> c]
=============================================================================
