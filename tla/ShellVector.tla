------------------------------ MODULE ShellVector ------------------------------
(***************************************************************************)
(* The growing array of shell/vector.c: its elements and how many it has   *)
(* memory for.  Running out of memory ends the shell and is left out.      *)
(***************************************************************************)
EXTENDS Naturals, Sequences

CreateVector == [elems |-> << >>, max_size |-> 1]

ResizeVector(v) ==
  IF Len(v.elems) = v.max_size THEN [v EXCEPT !.max_size = 2 * @] ELSE v

EmplaceBack(v, x) == [ResizeVector(v) EXCEPT !.elems = Append(@, x)]

(* push_back_str grows the array itself and then calls emplace_back. *)
PushBackStr(v, x) == EmplaceBack(ResizeVector(v), x)

(* get_at does not look at the sizes: behind the elements is memory that   *)
(* was never written, or somebody else's.                                  *)
Uninitialized == << "uninitialized" >>
Outside == << "outside" >>

GetAt(v, i) ==
  IF i <= Len(v.elems) THEN v.elems[i]
  ELSE IF i <= v.max_size THEN Uninitialized ELSE Outside
=============================================================================
